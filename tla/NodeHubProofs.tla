---------------------------- MODULE NodeHubProofs ---------------------------
(***************************************************************************)
(* Theorems about the hubs: where they lead, what a departure leaves       *)
(* alone, and who follows the leases, for any number of instances,         *)
(* machines, nodes and connections.                                        *)
(***************************************************************************)
EXTENDS NodeHub, TLAPS

(* Events about machine_nodes are about machines. *)
Heard ==
    [kind : {"machine_nodes"}, keys : SUBSET Machines, conn : {None}]
    \cup [kind : {"replacement", "disconnect_machine"}, keys : SUBSET Keys, conn : Conns \cup {None}]

HubTypes ==
    /\ conf \in [Nodes -> Machines \cup {None}] /\ devices \in [Nodes -> Conns \cup {None}]
    /\ owner \in [Keys -> Conns \cup {None}] /\ net \in [Instances -> Seq(Heard)]
    /\ hub \in [Instances -> [Keys -> Conns \cup {None}]] /\ draining \in [Instances -> BOOLEAN]
    /\ conns \in [Conns -> Conn] /\ tasks \in [Instances -> [Threads -> Task]] /\ deployment \in Deployments

(* Connections no hub has heard of. *)
Early == {"unused", "upgraded", "claimed", "withdrawing", "lost"}

(* A hub leads to connections of its instance that registered there, and to those that left only for *)
(* nodes they no longer list.                                                                        *)
HubGood ==
    \A i \in Instances, k \in Keys, c \in Conns : hub[i][k] = c =>
        /\ conns[c].inst = i /\ conns[c].phase \notin Early
        /\ k \in Machines => conns[c].machine = k
        /\ k \in Own(c) => conns[c].phase \in Live

(* The connection a run of notifyMachineNodes picked is one of the hub of its instance. *)
TaskGood(i, t) ==
    /\ t.pc # "idle" => t.machine \in Machines
    /\ t.pc \in {"picked", "claimed", "releasing", "retrying"} => t.conn \in Conns
    /\ t.conn \in Conns => conns[t.conn].inst = i /\ conns[t.conn].phase \notin Early
    /\ ~Coordinated /\ t.pc = "releasing" => t.todo = {}
TasksGood == \A i \in Instances, r \in Threads : TaskGood(i, tasks[i][r])

(* A failed release of a connection that left is in the hands of a run. *)
Gone == {"releasing", "clearing", "ended"}
Retrying(t, c) == t.conn = c /\ t.pc = "releasing" /\ t.retry
Retried(c) == \E i \in Instances, r \in Threads : Retrying(tasks[i][r], c)
PendingGood ==
    \A c \in Conns : /\ conns[c].phase \in Early \/ ~Coordinated => conns[c].pending = {}
                     /\ conns[c].phase \in Gone /\ conns[c].pending # {} => Retried(c)

(* Connections are where the deployment has instances; without Redis a departure is one step. *)
Placed ==
    \A c \in Conns : /\ conns[c].phase \notin {"unused", "lost"} => conns[c].inst \in deployment.instances
                     /\ ~Coordinated => conns[c].phase \notin {"releasing", "clearing", "withdrawing"}

HubInv == HubTypes /\ HubGood /\ TasksGood /\ PendingGood /\ Placed

LEMMA Constants ==
    /\ None \notin Machines /\ None \notin Nodes /\ None \notin Conns /\ None \notin Keys
    /\ \A m \in Machines : m \notin Nodes
    /\ \A d \in Deployments : d.instances \subseteq Instances /\ d.legacy \subseteq Nodes
    /\ NoConn \in Conn /\ Idle \in Task
  BY HubConstants DEF Keys, NoConn, Conn, Phases, Idle, Task, Steps

LEMMA PhaseNames ==
    {"unused", "upgraded", "claimed", "registered", "reading", "checked", "storing", "leaving", "releasing", "clearing",
     "withdrawing", "ended", "refused", "lost"} = Phases
  BY DEF Phases

LEMMA HubInvInit == Init => HubInv
  <1> SUFFICES ASSUME Init PROVE HubInv
    OBVIOUS
  <1>1. HubTypes
    BY Constants DEF Init, HubTypes
  <1>2. \A c \in Conns : c # None
    BY Constants
  <1>3. HubGood
    BY <1>2 DEF Init, HubGood
  <1>4. TasksGood
    BY <1>2 DEF Init, TasksGood, TaskGood, Idle
  <1>5. PendingGood /\ Placed
    BY DEF Init, PendingGood, Placed, NoConn, Gone
  <1> QED BY <1>1, <1>3, <1>4, <1>5 DEF HubInv

(* What the other connections keep when one of them moves. *)
Same(d) ==
    /\ conns'[d].inst = conns[d].inst /\ conns'[d].machine = conns[d].machine /\ conns'[d].nodes = conns[d].nodes
    /\ conns'[d].phase = conns[d].phase /\ conns'[d].pending = conns[d].pending

LEMMA MarkedSame ==
    ASSUME HubTypes, NEW C, NEW D
    PROVE  /\ Marked(C, D) \in [Conns -> Conn]
           /\ \A d \in Conns : /\ Marked(C, D)[d].inst = conns[d].inst /\ Marked(C, D)[d].machine = conns[d].machine
                               /\ Marked(C, D)[d].nodes = conns[d].nodes /\ Marked(C, D)[d].phase = conns[d].phase
                               /\ Marked(C, D)[d].pending = conns[d].pending /\ Marked(C, D)[d].todo = conns[d].todo
                               /\ Marked(C, D)[d].target = conns[d].target /\ Marked(C, D)[d].released = conns[d].released
  <1> DEFINE r(d) == [conns[d] EXCEPT !.closed = @ \/ d \in C, !.contested = @ \/ d \in D]
  <1>0. conns \in [Conns -> Conn]
    BY DEF HubTypes
  <1>1. ASSUME NEW d \in Conns
        PROVE /\ r(d) \in Conn /\ r(d).inst = conns[d].inst /\ r(d).machine = conns[d].machine
              /\ r(d).nodes = conns[d].nodes /\ r(d).phase = conns[d].phase /\ r(d).pending = conns[d].pending
              /\ r(d).todo = conns[d].todo /\ r(d).target = conns[d].target /\ r(d).released = conns[d].released
    BY <1>0, <1>1 DEF Conn
  <1>2. Marked(C, D) = [d \in Conns |-> r(d)]
    BY DEF Marked
  <1> HIDE DEF r
  <1> QED BY <1>1, <1>2

(* One connection moves, and entries of it may leave the hub. *)
LEMMA ConnMoves ==
    ASSUME HubInv, NEW c \in Conns, HubTypes', UNCHANGED <<tasks, deployment>>,
           \A d \in Conns \ {c} : Same(d),
           \A i \in Instances, k \in Keys : hub'[i][k] = hub[i][k] \/ hub'[i][k] = None,
           conns[c].phase \notin Early =>
               /\ conns'[c].inst = conns[c].inst /\ conns'[c].machine = conns[c].machine /\ conns'[c].nodes = conns[c].nodes
               /\ conns'[c].phase \notin Early,
           conns[c].phase \in Live /\ conns'[c].phase \notin Live => \A k \in Own(c) : hub'[conns[c].inst][k] # c,
           \/ conns'[c].pending = {}
           \/ /\ conns'[c].pending = conns[c].pending /\ conns[c].phase \notin Early
              /\ conns'[c].phase \in Gone => conns[c].phase \in Gone,
           conns'[c].phase \notin {"unused", "lost"} => conns'[c].inst \in deployment.instances,
           ~Coordinated => conns'[c].phase \notin {"releasing", "clearing", "withdrawing"}
    PROVE  HubInv'
  <1>0. None \notin Conns
    BY Constants
  <1>1. HubGood'
    <2> SUFFICES ASSUME NEW i \in Instances, NEW k \in Keys, NEW d \in Conns, hub'[i][k] = d
                 PROVE  /\ conns'[d].inst = i /\ conns'[d].phase \notin Early
                        /\ k \in Machines => conns'[d].machine = k
                        /\ k \in Own(d)' => conns'[d].phase \in Live
      BY DEF HubGood
    <2>1. /\ hub[i][k] = d /\ conns[d].inst = i /\ conns[d].phase \notin Early
          /\ k \in Machines => conns[d].machine = k
          /\ k \in Own(d) => conns[d].phase \in Live
      BY <1>0 DEF HubInv, HubGood
    <2>2. CASE d # c
      BY <2>1, <2>2 DEF Same, Own
    <2>3. CASE d = c
      BY <2>1, <2>3 DEF Own
    <2> QED BY <2>2, <2>3
  <1>2. TasksGood'
    BY DEF HubInv, TasksGood, TaskGood, Same, Coordinated
  <1>3. PendingGood'
    <2>1. \A d \in Conns : Retried(d)' <=> Retried(d)
      BY DEF Retried
    <2> QED BY <2>1 DEF HubInv, PendingGood, Same, Coordinated, Gone
  <1>4. Placed'
    BY DEF HubInv, Placed, Same, Coordinated
  <1> QED BY <1>1, <1>2, <1>3, <1>4 DEF HubInv

LEMMA SentHeard ==
    ASSUME NEW queue \in [Instances -> Seq(Heard)], NEW i, NEW e \in Heard
    PROVE  Sent(queue, i, e) \in [Instances -> Seq(Heard)]
  <1>1. \A j \in Instances : Append(queue[j], e) \in Seq(Heard)
    OBVIOUS
  <1> QED BY <1>1 DEF Sent

LEMMA TableTypes ==
    ASSUME NEW f \in [Keys -> Conns \cup {None}], NEW K, NEW c \in Conns
    PROVE  /\ Given(f, K, c) \in [Keys -> Conns \cup {None}] /\ Taken(f, K, c) \in [Keys -> Conns \cup {None}]
           /\ \A k \in Keys : Given(f, K, c)[k] = IF k \in K THEN c ELSE f[k]
           /\ \A k \in Keys : Taken(f, K, c)[k] = IF k \in K /\ f[k] = c THEN None ELSE f[k]
  BY DEF Given, Taken

LEMMA OwnKeys ==
    ASSUME HubTypes, NEW c \in Conns
    PROVE  Own(c) \subseteq Keys /\ Replacement(Own(c), c) \in Heard
  <1>1. conns[c] \in Conn
    BY DEF HubTypes
  <1>2. Own(c) \subseteq Keys
    BY <1>1 DEF Own, Conn, Keys
  <1> QED BY <1>2 DEF Replacement, Heard

LEMMA AcceptSafe ==
    ASSUME HubInv, NEW c \in Conns, NEW i \in deployment.instances, Accept(c, i) PROVE HubInv'
  <1>0. HubTypes /\ conns \in [Conns -> Conn] /\ i \in Instances /\ deployment.legacy \subseteq Nodes
    BY Constants DEF HubInv, HubTypes
  <1>p. "upgraded" \in Phases /\ i \in Instances \cup {None}
    BY <1>0, PhaseNames
  <1>u. UNCHANGED <<conf, devices, owner, net, hub, draining, tasks, deployment>> /\ conns[c].phase = "unused"
    BY DEF Accept
  <1>1. PICK r \in Conn : conns' = [conns EXCEPT ![c] = r] /\ r.inst = i /\ r.phase = "upgraded" /\ r.pending = conns[c].pending
    <2>1. CASE \E m \in Machines :
                 conns' = [conns EXCEPT ![c].inst = i, ![c].machine = m, ![c].nodes = NodesOf(m), ![c].phase = "upgraded"]
      <3> PICK m \in Machines :
                 conns' = [conns EXCEPT ![c].inst = i, ![c].machine = m, ![c].nodes = NodesOf(m), ![c].phase = "upgraded"]
        BY <2>1
      <3> DEFINE r == [conns[c] EXCEPT !.inst = i, !.machine = m, !.nodes = NodesOf(m), !.phase = "upgraded"]
      <3>1. r \in Conn /\ r.inst = i /\ r.phase = "upgraded" /\ r.pending = conns[c].pending
        BY <1>0, <1>p DEF Conn, NodesOf
      <3>2. conns' = [conns EXCEPT ![c] = r]
        BY <1>0
      <3> QED BY <3>1, <3>2
    <2>2. CASE \E n \in deployment.legacy :
                 conns' = [conns EXCEPT ![c].inst = i, ![c].nodes = {n}, ![c].phase = "upgraded"]
      <3> PICK n \in deployment.legacy :
                 conns' = [conns EXCEPT ![c].inst = i, ![c].nodes = {n}, ![c].phase = "upgraded"]
        BY <2>2
      <3> DEFINE r == [conns[c] EXCEPT !.inst = i, !.nodes = {n}, !.phase = "upgraded"]
      <3>1. r \in Conn /\ r.inst = i /\ r.phase = "upgraded" /\ r.pending = conns[c].pending
        BY <1>0, <1>p DEF Conn
      <3>2. conns' = [conns EXCEPT ![c] = r]
        BY <1>0
      <3> QED BY <3>1, <3>2
    <2> QED BY <2>1, <2>2 DEF Accept
  <1>2. HubTypes'
    BY <1>0, <1>1, <1>u DEF HubTypes
  <1>3. conns'[c] = r /\ \A d \in Conns \ {c} : Same(d)
    BY <1>0, <1>1 DEF Same
  <1>4. conns[c].pending = {} /\ conns[c].phase \in Early
    BY <1>u DEF HubInv, PendingGood, Early
  <1> QED BY <1>1, <1>2, <1>3, <1>4, <1>u, ConnMoves DEF Live, Early

(* Marks and a new phase. *)
Phased(table, c, phase) == [table EXCEPT ![c].phase = phase]

LEMMA PhaseMarked ==
    ASSUME HubTypes, NEW C, NEW D, NEW c \in Conns, NEW phase \in Phases,
           conns' = Phased(Marked(C, D), c, phase)
    PROVE  /\ conns' \in [Conns -> Conn] /\ \A d \in Conns \ {c} : Same(d)
           /\ conns'[c].inst = conns[c].inst /\ conns'[c].machine = conns[c].machine /\ conns'[c].nodes = conns[c].nodes
           /\ conns'[c].pending = conns[c].pending /\ conns'[c].phase = phase
  <1> DEFINE M == Marked(C, D)
             r == [M[c] EXCEPT !.phase = phase]
  <1>1. /\ M \in [Conns -> Conn]
        /\ \A d \in Conns : /\ M[d].inst = conns[d].inst /\ M[d].machine = conns[d].machine
                            /\ M[d].nodes = conns[d].nodes /\ M[d].phase = conns[d].phase
                            /\ M[d].pending = conns[d].pending
    BY MarkedSame
  <1>m. conns' = [M EXCEPT ![c].phase = phase]
    BY DEF Phased
  <1> HIDE DEF M
  <1>2. r \in Conn /\ r.inst = M[c].inst /\ r.machine = M[c].machine /\ r.nodes = M[c].nodes /\ r.pending = M[c].pending /\ r.phase = phase
    BY <1>1 DEF Conn
  <1>3. conns' = [M EXCEPT ![c] = r]
    BY <1>1, <1>m
  <1> HIDE DEF r
  <1> QED BY <1>1, <1>2, <1>3 DEF Same

(* A new phase of c. *)
LEMMA PhaseOnly ==
    ASSUME HubTypes, NEW c \in Conns, NEW phase \in Phases, conns' = Phased(conns, c, phase)
    PROVE  /\ conns' \in [Conns -> Conn] /\ \A d \in Conns \ {c} : Same(d)
           /\ conns'[c].inst = conns[c].inst /\ conns'[c].machine = conns[c].machine /\ conns'[c].nodes = conns[c].nodes
           /\ conns'[c].pending = conns[c].pending /\ conns'[c].phase = phase
  <1> DEFINE r == [conns[c] EXCEPT !.phase = phase]
  <1>1. conns \in [Conns -> Conn]
    BY DEF HubTypes
  <1>2. /\ r \in Conn /\ r.inst = conns[c].inst /\ r.machine = conns[c].machine /\ r.nodes = conns[c].nodes
        /\ r.pending = conns[c].pending /\ r.phase = phase
    BY <1>1 DEF Conn
  <1>3. conns' = [conns EXCEPT ![c] = r]
    BY <1>1 DEF Phased
  <1> HIDE DEF r
  <1> QED BY <1>1, <1>2, <1>3 DEF Same

LEMMA ClaimSafe ==
    ASSUME HubInv, NEW c \in Conns, Claim(c) PROVE HubInv'
  <1>0. HubTypes /\ {"claimed", "refused"} \subseteq Phases
    BY DEF HubInv, Phases
  <1>u. UNCHANGED <<conf, devices, hub, draining, tasks, deployment>> /\ conns[c].phase = "upgraded"
    BY DEF Claim
  <1>1. PICK phase \in {"claimed", "refused"} :
          \/ /\ owner' = Given(owner, Own(c), c)
             /\ net' = Sent(net, conns[c].inst, Replacement(Own(c), c))
             /\ conns' = Phased(Marked({}, Rivals(c, Own(c))), c, phase)
          \/ conns' = Phased(conns, c, phase) /\ UNCHANGED <<owner, net>>
    BY DEF Claim, Phased
  <1>2. owner' \in [Keys -> Conns \cup {None}] /\ net' \in [Instances -> Seq(Heard)]
    <2>1. Given(owner, Own(c), c) \in [Keys -> Conns \cup {None}] /\ owner \in [Keys -> Conns \cup {None}]
      BY <1>0, TableTypes DEF HubTypes
    <2>2. net \in [Instances -> Seq(Heard)] /\ Replacement(Own(c), c) \in Heard
      BY <1>0, OwnKeys DEF HubTypes
    <2>3. Sent(net, conns[c].inst, Replacement(Own(c), c)) \in [Instances -> Seq(Heard)]
      BY <2>2, SentHeard
    <2> QED BY <1>1, <2>1, <2>2, <2>3
  <1>3. /\ conns' \in [Conns -> Conn] /\ \A d \in Conns \ {c} : Same(d)
        /\ conns'[c].inst = conns[c].inst /\ conns'[c].pending = conns[c].pending /\ conns'[c].phase = phase
    <2>1. CASE conns' = Phased(Marked({}, Rivals(c, Own(c))), c, phase)
      BY <1>0, <2>1, PhaseMarked
    <2>2. CASE conns' = Phased(conns, c, phase)
      BY <1>0, <2>2, PhaseOnly
    <2> QED BY <1>1, <2>1, <2>2
  <1>4. HubTypes'
    BY <1>0, <1>2, <1>3, <1>u DEF HubTypes
  <1>5. conns[c].pending = {} /\ conns[c].phase \in Early /\ conns[c].inst \in deployment.instances
    BY <1>u DEF HubInv, PendingGood, Early, Placed
  <1> QED BY <1>3, <1>4, <1>5, <1>u, ConnMoves DEF Live, Early

(* The keys a connection registers lead to it. *)
LEMMA RegisterSafe ==
    ASSUME HubInv, NEW c \in Conns, Register(c) PROVE HubInv'
  <1>0. HubTypes /\ "registered" \in Phases /\ None \notin Conns
    BY Constants DEF HubInv, Phases
  <1> DEFINE i == conns[c].inst
             old == {hub[i][k] : k \in Own(c)} \ {None, c}
  <1>u. /\ UNCHANGED <<conf, devices, owner, net, draining, tasks, deployment>> /\ conns[c].phase = "claimed"
        /\ hub' = [hub EXCEPT ![i] = Given(@, Own(c), c)]
        /\ conns' = [Marked(old, Rivals(c, Own(c))) EXCEPT ![c].phase = "registered"]
    BY DEF Register
  <1> HIDE DEF old
  <1>1. /\ conns' \in [Conns -> Conn] /\ \A d \in Conns \ {c} : Same(d)
        /\ conns'[c].inst = conns[c].inst /\ conns'[c].machine = conns[c].machine /\ conns'[c].nodes = conns[c].nodes
        /\ conns'[c].pending = conns[c].pending /\ conns'[c].phase = "registered"
    <2>1. conns' = Phased(Marked(old, Rivals(c, Own(c))), c, "registered")
      BY <1>u DEF Phased
    <2> QED BY <1>0, <2>1, PhaseMarked
  <1>2. conns[c].pending = {} /\ conns[c].inst \in deployment.instances /\ conns[c].inst \in Instances
    BY <1>u, Constants DEF HubInv, HubTypes, PendingGood, Early, Placed
  <1>3. /\ hub' \in [Instances -> [Keys -> Conns \cup {None}]]
        /\ \A j \in Instances, k \in Keys : hub'[j][k] = IF j = i /\ k \in Own(c) THEN c ELSE hub[j][k]
    <2>1. hub \in [Instances -> [Keys -> Conns \cup {None}]]
      BY <1>0 DEF HubTypes
    <2>2. Given(hub[i], Own(c), c) \in [Keys -> Conns \cup {None}]
          /\ \A k \in Keys : Given(hub[i], Own(c), c)[k] = IF k \in Own(c) THEN c ELSE hub[i][k]
      BY <1>2, <2>1, TableTypes
    <2> QED BY <1>2, <1>u, <2>1, <2>2
  <1> HIDE DEF i
  <1>4. HubTypes'
    BY <1>0, <1>1, <1>3, <1>u DEF HubTypes
  <1>5. HubGood'
    <2> SUFFICES ASSUME NEW j \in Instances, NEW k \in Keys, NEW d \in Conns, hub'[j][k] = d
                 PROVE  /\ conns'[d].inst = j /\ conns'[d].phase \notin Early
                        /\ k \in Machines => conns'[d].machine = k
                        /\ k \in Own(d)' => conns'[d].phase \in Live
      BY DEF HubGood
    <2>1. CASE j = i /\ k \in Own(c)
      <3>1. d = c /\ conns[c] \in Conn
        BY <1>0, <1>3, <2>1 DEF HubTypes
      <3>2. k \in Machines => conns[c].machine = k
        BY <2>1, <3>1, Constants DEF Own, Conn
      <3> QED BY <1>1, <2>1, <3>1, <3>2 DEF Early, Live, i
    <2>2. CASE ~(j = i /\ k \in Own(c))
      <3>1. hub[j][k] = d
        BY <1>3, <2>2
      <3>2. /\ conns[d].inst = j /\ conns[d].phase \notin Early
            /\ k \in Machines => conns[d].machine = k
            /\ k \in Own(d) => conns[d].phase \in Live
        BY <3>1 DEF HubInv, HubGood
      <3>3. d # c
        BY <1>u, <3>2 DEF Early
      <3> QED BY <1>1, <3>2, <3>3 DEF Same, Own
    <2> QED BY <2>1, <2>2
  <1>6. TasksGood'
    BY <1>1, <1>u DEF HubInv, TasksGood, TaskGood, Same, Coordinated, Early
  <1>7. PendingGood'
    <2>1. \A d \in Conns : Retried(d)' <=> Retried(d)
      BY <1>u DEF Retried
    <2> QED BY <1>1, <1>2, <1>u, <2>1 DEF HubInv, PendingGood, Same, Coordinated, Gone
  <1>8. Placed'
    BY <1>1, <1>2, <1>u DEF HubInv, Placed, Same, Coordinated
  <1> QED BY <1>4, <1>5, <1>6, <1>7, <1>8 DEF HubInv

Put(c, r) == [conns EXCEPT ![c] = r]

LEMMA PutSame ==
    ASSUME HubTypes, NEW c \in Conns, NEW r \in Conn, conns' = Put(c, r)
    PROVE  conns' \in [Conns -> Conn] /\ conns'[c] = r /\ \A d \in Conns \ {c} : Same(d)
  BY DEF HubTypes, Put, Same

(* A connection goes on with what it has. *)
Keeps(c, r) ==
    /\ r \in Conn /\ r.inst = conns[c].inst /\ r.machine = conns[c].machine /\ r.nodes = conns[c].nodes
    /\ r.pending = conns[c].pending

LEMMA GoesOn ==
    ASSUME HubInv, NEW c \in Conns, NEW r, Keeps(c, r), conns' = Put(c, r),
           UNCHANGED <<conf, owner, net, hub, draining, tasks, deployment>>, devices' \in [Nodes -> Conns \cup {None}],
           conns[c].phase \in Live, r.phase \in Live
    PROVE  HubInv'
  <1>1. conns' \in [Conns -> Conn] /\ conns'[c] = r /\ \A d \in Conns \ {c} : Same(d)
    BY PutSame DEF HubInv, Keeps
  <1>2. HubTypes'
    BY <1>1 DEF HubInv, HubTypes
  <1>3. /\ conns[c].phase \notin Early /\ conns'[c].phase \notin Early /\ conns'[c].phase \notin Gone
        /\ conns'[c].phase \notin {"releasing", "clearing", "withdrawing"} /\ conns[c].phase \notin {"unused", "lost"}
    BY <1>1 DEF Live, Early, Gone
  <1>4. conns'[c].inst \in deployment.instances
    BY <1>1, <1>3 DEF HubInv, Placed, Keeps
  <1> QED BY <1>1, <1>2, <1>3, <1>4, ConnMoves DEF Keeps

LEMMA WithdrawSafe ==
    ASSUME HubInv, NEW c \in Conns, Withdraw(c) PROVE HubInv'
  <1> DEFINE todo == IF Coordinated THEN ClaimedKeys(c) ELSE {}
             phase == IF todo = {} THEN "ended" ELSE "withdrawing"
             r == [conns[c] EXCEPT !.closed = TRUE, !.todo = todo, !.phase = phase]
  <1>0. HubTypes /\ conns[c] \in Conn /\ conns[c].phase = "claimed" /\ conns \in [Conns -> Conn]
    BY DEF HubInv, HubTypes, Withdraw
  <1>1. todo \in SUBSET Keys /\ phase \in Phases /\ phase \in {"ended", "withdrawing"}
    BY <1>0, OwnKeys, PhaseNames DEF ClaimedKeys
  <1>2. conns' = [conns EXCEPT ![c].closed = TRUE, ![c].todo = todo, ![c].phase = phase]
    BY DEF Withdraw
  <1>3. ~Coordinated => phase = "ended"
    OBVIOUS
  <1> HIDE DEF todo, phase
  <1>4. Keeps(c, r) /\ r.phase = phase
    BY <1>0, <1>1 DEF Keeps, Conn
  <1>5. conns' = Put(c, r)
    BY <1>0, <1>2 DEF Put
  <1> HIDE DEF r
  <1>6. conns' \in [Conns -> Conn] /\ conns'[c] = r /\ \A d \in Conns \ {c} : Same(d)
    BY <1>0, <1>4, <1>5, PutSame DEF Keeps
  <1>u. UNCHANGED <<conf, devices, owner, net, hub, draining, tasks, deployment>>
    BY DEF Withdraw
  <1>7. HubTypes'
    BY <1>0, <1>6, <1>u DEF HubTypes
  <1>8. conns[c].pending = {} /\ conns[c].phase \in Early /\ conns[c].inst \in deployment.instances /\ conns[c].phase \notin Live
    BY <1>0 DEF HubInv, PendingGood, Early, Placed, Live
  <1>9. conns'[c].pending = {} /\ conns'[c].inst \in deployment.instances
        /\ (~Coordinated => conns'[c].phase \notin {"releasing", "clearing", "withdrawing"})
    BY <1>1, <1>3, <1>4, <1>6, <1>8 DEF Keeps
  <1> QED BY <1>6, <1>7, <1>8, <1>9, <1>u, ConnMoves

(* What a hub looks like after keys were taken from a connection of its instance. *)
TakenAt(i, K, c) == [hub EXCEPT ![i] = Taken(@, K, c)]

LEMMA HubTaken ==
    ASSUME HubTypes, NEW c \in Conns, NEW K, NEW i \in Instances, hub' = TakenAt(i, K, c)
    PROVE  /\ hub' \in [Instances -> [Keys -> Conns \cup {None}]]
           /\ \A j \in Instances, k \in Keys : hub'[j][k] = hub[j][k] \/ hub'[j][k] = None
           /\ \A k \in K \cap Keys : hub'[i][k] # c
           /\ \A j \in Instances, k \in Keys : hub'[j][k] # hub[j][k] => j = i /\ k \in K /\ hub[j][k] = c
  <1>1. hub \in [Instances -> [Keys -> Conns \cup {None}]] /\ None # c
    BY Constants DEF HubTypes
  <1>2. /\ Taken(hub[i], K, c) \in [Keys -> Conns \cup {None}]
        /\ \A k \in Keys : Taken(hub[i], K, c)[k] = IF k \in K /\ hub[i][k] = c THEN None ELSE hub[i][k]
    BY <1>1, TableTypes
  <1> QED BY <1>1, <1>2 DEF TakenAt

LEMMA VerifySafe ==
    ASSUME HubInv, NEW c \in Conns, Verify(c) PROVE HubInv'
  <1>0. HubTypes /\ conns[c] \in Conn /\ conns[c].phase = "registered" /\ conns \in [Conns -> Conn]
    BY DEF HubInv, HubTypes, Verify
  <1>u. UNCHANGED <<conf, devices, owner, net, draining, tasks, deployment>>
    BY DEF Verify
  <1>1. CASE conns' = [conns EXCEPT ![c].phase = "reading"] /\ UNCHANGED hub
    <2> DEFINE r == [conns[c] EXCEPT !.phase = "reading"]
    <2>1. Keeps(c, r) /\ r.phase = "reading"
      BY <1>0, PhaseNames DEF Keeps, Conn
    <2>2. conns' = Put(c, r)
      BY <1>0, <1>1 DEF Put
    <2> HIDE DEF r
    <2>3. r.phase \in Live /\ conns[c].phase \in Live /\ devices' \in [Nodes -> Conns \cup {None}]
      BY <1>0, <1>u, <2>1 DEF Live, HubTypes
    <2> QED BY <1>1, <1>u, <2>1, <2>2, <2>3, GoesOn
  <1>2. CASE /\ hub' = [hub EXCEPT ![conns[c].inst] = Taken(@, Own(c), c)]
             /\ conns' = [conns EXCEPT ![c].phase = "refused", ![c].closed = TRUE]
    <2> DEFINE r == [conns[c] EXCEPT !.phase = "refused", !.closed = TRUE]
    <2>1. Keeps(c, r) /\ r.phase = "refused"
      BY <1>0, PhaseNames DEF Keeps, Conn
    <2>2. conns' = Put(c, r)
      BY <1>0, <1>2 DEF Put
    <2> HIDE DEF r
    <2>3. conns[c].inst \in deployment.instances /\ conns[c].inst \in Instances /\ conns[c].phase \notin Early
      BY <1>0, Constants DEF HubInv, HubTypes, Placed, Early
    <2>4. /\ hub' \in [Instances -> [Keys -> Conns \cup {None}]]
          /\ \A j \in Instances, k \in Keys : hub'[j][k] = hub[j][k] \/ hub'[j][k] = None
          /\ \A k \in Own(c) \cap Keys : hub'[conns[c].inst][k] # c
      <3>1. hub' = TakenAt(conns[c].inst, Own(c), c)
        BY <1>2 DEF TakenAt
      <3> QED BY <1>0, <2>3, <3>1, HubTaken
    <2>5. conns' \in [Conns -> Conn] /\ conns'[c] = r /\ \A d \in Conns \ {c} : Same(d)
      BY <1>0, <2>1, <2>2, PutSame DEF Keeps
    <2>6. HubTypes'
      BY <1>0, <1>u, <2>4, <2>5 DEF HubTypes
    <2>7. Own(c) \subseteq Keys
      BY <1>0, OwnKeys
    <2>8. r.phase \notin Early /\ r.phase \notin Gone /\ r.phase \notin {"releasing", "clearing", "withdrawing"}
      BY <2>1 DEF Early, Gone
    <2> QED BY <1>u, <2>1, <2>3, <2>4, <2>5, <2>6, <2>7, <2>8, ConnMoves DEF Keeps
  <1> QED BY <1>1, <1>2 DEF Verify

(* Steps of a connection that is served, until it leaves. *)
LEMMA ServeSafe ==
    ASSUME HubInv, NEW c \in Conns, Serve(c) \/ NotRenewed(c) PROVE HubInv'
  <1>0. HubTypes /\ conns[c] \in Conn /\ conns \in [Conns -> Conn]
    BY DEF HubInv, HubTypes
  <1>p. {"checked", "storing", "reading", "leaving"} \subseteq Phases
    BY PhaseNames
  <1>u. UNCHANGED <<conf, owner, net, hub, draining, tasks, deployment>>
    BY DEF Serve, Hangup, Stop, Receive, Apply, StoreDevices, NotRenewed
  <1>1. conns[c].phase \in Live
    BY DEF Serve, Hangup, Stop, Receive, Apply, StoreDevices, NotRenewed, Live
  <1>2. /\ \E phase \in {conns[c].phase, "checked", "storing", "reading", "leaving"}, closed \in {conns[c].closed, TRUE},
              target \in Nodes \cup {None} :
              conns' = Put(c, [conns[c] EXCEPT !.phase = phase, !.closed = closed, !.target = target])
        /\ devices' \in [Nodes -> Conns \cup {None}]
    <2>t. conns[c].target \in Nodes \cup {None} /\ devices \in [Nodes -> Conns \cup {None}]
      BY <1>0 DEF Conn, HubTypes
    <2>1. CASE Hangup(c) \/ NotRenewed(c)
      <3>1. conns' = Put(c, [conns[c] EXCEPT !.phase = conns[c].phase, !.closed = TRUE, !.target = conns[c].target]) /\ UNCHANGED devices
        BY <1>0, <2>1 DEF Hangup, NotRenewed, Put, Conn
      <3> QED BY <2>t, <3>1
    <2>2. CASE Stop(c)
      <3>1. conns' = Put(c, [conns[c] EXCEPT !.phase = "leaving", !.closed = conns[c].closed, !.target = conns[c].target]) /\ UNCHANGED devices
        BY <1>0, <2>2 DEF Stop, Put, Conn
      <3> QED BY <2>t, <3>1
    <2>3. ASSUME NEW n \in Nodes, Receive(c, n)
          PROVE  \/ conns' = Put(c, [conns[c] EXCEPT !.phase = "checked", !.closed = conns[c].closed, !.target = n]) /\ UNCHANGED devices
                 \/ conns' = Put(c, [conns[c] EXCEPT !.phase = "leaving", !.closed = TRUE, !.target = conns[c].target]) /\ UNCHANGED devices
      BY <1>0, <2>3 DEF Receive, Put, Conn
    <2>4. CASE Apply(c)
      <3>1. CASE conns[c].target \in conns[c].nodes
        <4> PICK n \in Nodes : n = conns[c].target
          BY <1>0, <3>1 DEF Conn
        <4>1. devices' \in [Nodes -> Conns \cup {None}]
          BY <2>t, <2>4 DEF Apply
        <4>2. \/ conns' = Put(c, [conns[c] EXCEPT !.phase = "storing", !.closed = conns[c].closed, !.target = n])
              \/ conns' = Put(c, [conns[c] EXCEPT !.phase = "reading", !.closed = conns[c].closed, !.target = None])
              \/ conns' = Put(c, [conns[c] EXCEPT !.phase = "leaving", !.closed = TRUE, !.target = None])
          <5>1. \/ conns' = [conns EXCEPT ![c].phase = "leaving", ![c].closed = TRUE, ![c].target = None]
                \/ Coordinated /\ conns' = [conns EXCEPT ![c].phase = "storing", ![c].target = n]
                \/ ~Coordinated /\ conns' = [conns EXCEPT ![c].phase = "reading", ![c].target = None]
            BY <2>4 DEF Apply
          <5> QED BY <1>0, <5>1 DEF Put, Conn
        <4> QED BY <4>1, <4>2
      <3>2. CASE conns[c].target \notin conns[c].nodes
        <4>1. conns' = Put(c, [conns[c] EXCEPT !.phase = "leaving", !.closed = TRUE, !.target = None]) /\ UNCHANGED devices
          BY <1>0, <2>4, <3>2 DEF Apply, Put, Conn
        <4> QED BY <2>t, <4>1
      <3> QED BY <3>1, <3>2
    <2>5. CASE StoreDevices(c)
      <3>1. devices' \in [Nodes -> Conns \cup {None}]
        BY <2>t, <2>5 DEF StoreDevices
      <3>2. \/ conns' = Put(c, [conns[c] EXCEPT !.phase = "reading", !.closed = conns[c].closed, !.target = None])
            \/ conns' = Put(c, [conns[c] EXCEPT !.phase = "leaving", !.closed = TRUE, !.target = None])
        BY <1>0, <2>5 DEF StoreDevices, Put, Conn
      <3> QED BY <3>1, <3>2
    <2> QED BY <2>t, <2>1, <2>2, <2>3, <2>4, <2>5 DEF Serve
  <1>3. PICK phase \in {conns[c].phase, "checked", "storing", "reading", "leaving"}, closed \in {conns[c].closed, TRUE},
             target \in Nodes \cup {None} :
             conns' = Put(c, [conns[c] EXCEPT !.phase = phase, !.closed = closed, !.target = target])
    BY <1>2
  <1> DEFINE r == [conns[c] EXCEPT !.phase = phase, !.closed = closed, !.target = target]
  <1>4. conns[c].phase \in Phases /\ conns[c].closed \in BOOLEAN
    BY <1>0 DEF Conn
  <1>5. Keeps(c, r) /\ r.phase = phase
    BY <1>0, <1>p, <1>4 DEF Keeps, Conn
  <1>6. r.phase \in Live
    BY <1>1, <1>5 DEF Live
  <1> HIDE DEF r
  <1> QED BY <1>u, <1>1, <1>2, <1>3, <1>5, <1>6, GoesOn DEF r

LEMMA UnregisterSafe ==
    ASSUME HubInv, NEW c \in Conns, Unregister(c) PROVE HubInv'
  <1> DEFINE i == conns[c].inst
             mine == Current(c)
             left == mine \cup conns[c].pending
             phase == IF Coordinated /\ left # {} THEN "releasing" ELSE "ended"
  <1>0. HubTypes /\ conns[c] \in Conn /\ conns \in [Conns -> Conn] /\ conns[c].phase = "leaving"
    BY DEF HubInv, HubTypes, Unregister
  <1>u. UNCHANGED <<conf, owner, net, draining, tasks, deployment>> /\ hub' = TakenAt(i, mine, c)
    BY DEF Unregister, TakenAt
  <1>1. mine \subseteq Keys /\ left \in SUBSET Keys /\ mine = {k \in Own(c) : hub[i][k] = c} /\ Own(c) \subseteq Keys
    BY <1>0, OwnKeys DEF Current, Conn, Keys
  <1>2. PICK todo \in SUBSET Keys, pending \in SUBSET Nodes :
          /\ conns' = Put(c, [conns[c] EXCEPT !.closed = TRUE, !.pending = pending, !.todo = todo, !.phase = phase])
          /\ Coordinated => pending = {}
          /\ ~Coordinated => pending = conns[c].pending
    <2>1. CASE Coordinated
      <3>1. conns' = Put(c, [conns[c] EXCEPT !.closed = TRUE, !.pending = {}, !.todo = left, !.phase = phase])
        <4>1. conns' = [conns EXCEPT ![c].closed = TRUE, ![c].pending = {}, ![c].todo = left, ![c].phase = phase]
          <5>1. CASE left = {}
            <6>1. phase = "ended"
              BY <5>1
            <6>2. conns' = [conns EXCEPT ![c].closed = TRUE, ![c].pending = {}, ![c].todo = left, ![c].phase = "ended"]
              BY <2>1, <5>1 DEF Unregister
            <6> QED BY <6>1, <6>2
          <5>2. CASE left # {}
            <6>1. phase = "releasing"
              BY <2>1, <5>2
            <6>2. conns' = [conns EXCEPT ![c].closed = TRUE, ![c].pending = {}, ![c].todo = left, ![c].phase = "releasing"]
              BY <2>1, <5>2 DEF Unregister
            <6> QED BY <6>1, <6>2
          <5> QED BY <5>1, <5>2
        <4> DEFINE new == [conns[c] EXCEPT !.closed = TRUE, !.pending = {}, !.todo = left, !.phase = phase]
        <4> HIDE DEF left, phase
        <4>2. conns' = [conns EXCEPT ![c] = new]
          BY <1>0, <4>1
        <4> QED BY <4>2 DEF Put
      <3> HIDE DEF left, phase
      <3>2. left \in SUBSET Keys /\ {} \in SUBSET Nodes
        BY <1>1
      <3> QED BY <2>1, <3>1, <3>2
    <2>2. CASE ~Coordinated
      <3>1. conns' = Put(c, [conns[c] EXCEPT !.closed = TRUE, !.pending = conns[c].pending, !.todo = conns[c].todo, !.phase = phase])
        BY <1>0, <2>2 DEF Unregister, Put, Conn
      <3>2. conns[c].todo \in SUBSET Keys /\ conns[c].pending \in SUBSET Nodes
        BY <1>0 DEF Conn
      <3> QED BY <2>2, <3>1, <3>2
    <2> QED BY <2>1, <2>2
  <1>3. phase \in {"releasing", "ended"} /\ phase \in Phases /\ (~Coordinated => phase = "ended")
    BY PhaseNames
  <1>d. devices' \in [Nodes -> Conns \cup {None}]
    BY <1>0 DEF Unregister, HubTypes, Cleared
  <1> HIDE DEF phase, left, mine
  <1> DEFINE r == [conns[c] EXCEPT !.closed = TRUE, !.pending = pending, !.todo = todo, !.phase = phase]
  <1>4. /\ r \in Conn /\ r.inst = i /\ r.machine = conns[c].machine /\ r.nodes = conns[c].nodes
        /\ r.pending = pending /\ r.phase = phase
    BY <1>0, <1>3 DEF Conn
  <1>c. conns' = Put(c, r)
    BY <1>2
  <1> HIDE DEF r
  <1>5. conns' \in [Conns -> Conn] /\ conns'[c] = r /\ \A d \in Conns \ {c} : Same(d)
    BY <1>0, <1>4, <1>c, PutSame
  <1>6. conns[c].inst \in deployment.instances /\ conns[c].inst \in Instances /\ conns[c].phase \notin Early
        /\ (~Coordinated => conns[c].pending = {})
    BY <1>0, Constants DEF HubInv, HubTypes, Placed, Early, PendingGood
  <1>7. /\ hub' \in [Instances -> [Keys -> Conns \cup {None}]]
        /\ \A j \in Instances, k \in Keys : hub'[j][k] = hub[j][k] \/ hub'[j][k] = None
        /\ \A k \in mine \cap Keys : hub'[i][k] # c
        /\ \A j \in Instances, k \in Keys : hub'[j][k] # hub[j][k] => j = i /\ k \in mine /\ hub[j][k] = c
    BY <1>0, <1>6, <1>u, HubTaken
  <1>8. \A k \in Own(c) : hub'[i][k] # c
    BY <1>1, <1>6, <1>7
  <1>9. HubTypes'
    BY <1>0, <1>5, <1>7, <1>u, <1>d DEF HubTypes
  <1>10. conns'[c].pending = {}
    BY <1>2, <1>4, <1>5, <1>6
  <1>11. conns'[c].phase \notin Early
    BY <1>3, <1>4, <1>5 DEF Early
  <1> QED BY <1>u, <1>3, <1>4, <1>5, <1>6, <1>7, <1>8, <1>9, <1>10, <1>11, ConnMoves

LEMMA ReleaseSafe ==
    ASSUME HubInv, NEW c \in Conns, Release(c) PROVE HubInv'
  <1>0. HubTypes /\ conns[c] \in Conn /\ conns \in [Conns -> Conn] /\ conns[c].phase \in {"releasing", "withdrawing"}
    BY DEF HubInv, HubTypes, Release
  <1>u. UNCHANGED <<conf, devices, net, hub, draining, tasks, deployment>>
    BY DEF Release
  <1>o. owner' \in [Keys -> Conns \cup {None}]
    <2>1. owner \in [Keys -> Conns \cup {None}]
      BY <1>0 DEF HubTypes
    <2>2. PICK k : ReleaseKey(c, k) \/ UNCHANGED owner
      BY DEF Release, ReleaseFails
    <2>3. Taken(owner, {k}, c) \in [Keys -> Conns \cup {None}]
      BY <2>1, TableTypes
    <2> QED BY <2>1, <2>2, <2>3 DEF ReleaseKey
  <1>1. PICK k \in Keys, done \in SUBSET Nodes :
          conns' = [conns EXCEPT
                      ![c].todo = conns[c].todo \ {k},
                      ![c].released = IF conns[c].todo \ {k} = {} /\ conns[c].phase = "withdrawing" THEN {} ELSE done,
                      ![c].phase = IF conns[c].todo \ {k} # {} THEN @
                                   ELSE IF done = {} \/ @ = "withdrawing" THEN "ended" ELSE "clearing"]
    <2>1. conns[c].todo \in SUBSET Keys /\ conns[c].released \in SUBSET Nodes
      BY <1>0 DEF Conn
    <2>2. \A k : Freed(c, k) \in SUBSET Nodes
      BY DEF Freed
    <2> QED BY <2>1, <2>2 DEF Release, Releasable
  <1> DEFINE todo == conns[c].todo \ {k}
             released == IF todo = {} /\ conns[c].phase = "withdrawing" THEN {} ELSE done
             phase == IF todo # {} THEN conns[c].phase
                      ELSE IF done = {} \/ conns[c].phase = "withdrawing" THEN "ended" ELSE "clearing"
             r == [conns[c] EXCEPT !.todo = todo, !.released = released, !.phase = phase]
  <1>2. todo \in SUBSET Keys /\ released \in SUBSET Nodes
    BY <1>0 DEF Conn
  <1>3. /\ phase \in Phases
        /\ conns[c].phase = "releasing" => phase \in {"releasing", "clearing", "ended"}
        /\ conns[c].phase = "withdrawing" => phase \in {"withdrawing", "ended"}
    BY <1>0, PhaseNames
  <1>4. conns' = [conns EXCEPT ![c].todo = todo, ![c].released = released, ![c].phase = phase]
    BY <1>0, <1>1
  <1> HIDE DEF todo, released, phase
  <1>5. Keeps(c, r) /\ r.phase = phase
    BY <1>0, <1>2, <1>3 DEF Keeps, Conn
  <1>6. conns' = Put(c, r)
    BY <1>0, <1>4 DEF Put
  <1> HIDE DEF r
  <1>7. conns' \in [Conns -> Conn] /\ conns'[c] = r /\ \A d \in Conns \ {c} : Same(d)
    BY <1>0, <1>5, <1>6, PutSame DEF Keeps
  <1>8. HubTypes'
    BY <1>0, <1>7, <1>u, <1>o DEF HubTypes
  <1>9. conns[c].inst \in deployment.instances /\ Coordinated /\ conns[c].phase \notin Live
    BY <1>0 DEF HubInv, Placed, Live
  <1>10. CASE conns[c].phase = "releasing"
    <2>1. conns[c].phase \notin Early /\ phase \notin Early /\ conns[c].phase \in Gone
      BY <1>3, <1>10 DEF Early, Gone
    <2> QED BY <1>5, <1>7, <1>8, <1>9, <1>u, <2>1, ConnMoves DEF Keeps
  <1>11. CASE conns[c].phase = "withdrawing"
    <2>1. conns[c].phase \in Early /\ conns[c].pending = {}
      BY <1>11 DEF Early, HubInv, PendingGood
    <2> QED BY <1>5, <1>7, <1>8, <1>9, <1>u, <2>1, ConnMoves DEF Keeps
  <1> QED BY <1>0, <1>10, <1>11

LEMMA ClearSafe ==
    ASSUME HubInv, NEW c \in Conns, Clear(c) PROVE HubInv'
  <1>0. HubTypes /\ conns[c] \in Conn /\ conns \in [Conns -> Conn] /\ conns[c].phase = "clearing"
    BY DEF HubInv, HubTypes, Clear
  <1>u. UNCHANGED <<conf, owner, net, hub, draining, tasks, deployment>>
    BY DEF Clear
  <1>d. devices' \in [Nodes -> Conns \cup {None}]
    BY <1>0 DEF Clear, HubTypes, Cleared
  <1> DEFINE r == [conns[c] EXCEPT !.phase = "ended", !.released = {}]
  <1>1. Keeps(c, r) /\ r.phase = "ended"
    BY <1>0, PhaseNames DEF Keeps, Conn
  <1>2. conns' = Put(c, r)
    BY <1>0 DEF Put, Clear
  <1> HIDE DEF r
  <1>3. conns' \in [Conns -> Conn] /\ conns'[c] = r /\ \A d \in Conns \ {c} : Same(d)
    BY <1>0, <1>1, <1>2, PutSame DEF Keeps
  <1>4. HubTypes'
    BY <1>0, <1>3, <1>u, <1>d DEF HubTypes
  <1>5. conns[c].inst \in deployment.instances /\ conns[c].phase \notin Live /\ conns[c].phase \notin Early /\ conns[c].phase \in Gone
        /\ r.phase \notin Early
    BY <1>0, <1>1 DEF HubInv, Placed, Live, Early, Gone
  <1> QED BY <1>1, <1>3, <1>4, <1>5, <1>u, ConnMoves DEF Keeps

(* What a connection is, for the hub and for the runs. *)
Stays(d) ==
    /\ conns'[d].inst = conns[d].inst /\ conns'[d].machine = conns[d].machine /\ conns'[d].phase = conns[d].phase

LEMMA HubSame ==
    ASSUME HubInv, UNCHANGED hub, \A d \in Conns : Stays(d) /\ conns'[d].nodes = conns[d].nodes
    PROVE  HubGood'
  <1> SUFFICES ASSUME NEW i \in Instances, NEW k \in Keys, NEW d \in Conns, hub'[i][k] = d
               PROVE  /\ conns'[d].inst = i /\ conns'[d].phase \notin Early
                      /\ k \in Machines => conns'[d].machine = k
                      /\ k \in Own(d)' => conns'[d].phase \in Live
    BY DEF HubGood
  <1> QED BY DEF HubInv, HubGood, Stays, Own

LEMMA MarksOnly ==
    ASSUME HubInv, HubTypes', UNCHANGED <<hub, tasks, deployment>>, \A d \in Conns : Same(d)
    PROVE  HubInv'
  <1>1. HubGood'
    BY HubSame DEF Same, Stays
  <1>2. TasksGood'
    BY DEF HubInv, TasksGood, TaskGood, Same, Coordinated
  <1>3. PendingGood'
    <2>1. \A d \in Conns : Retried(d)' <=> Retried(d)
      BY DEF Retried
    <2> QED BY <2>1 DEF HubInv, PendingGood, Same, Coordinated, Gone
  <1>4. Placed'
    BY DEF HubInv, Placed, Same, Coordinated
  <1> QED BY <1>1, <1>2, <1>3, <1>4 DEF HubInv

(* One run of notifyMachineNodes moves. *)
LEMMA TaskMoves ==
    ASSUME HubInv, NEW i \in Instances, NEW r \in Threads, HubTypes', HubGood', UNCHANGED deployment,
           \A j \in Instances, s \in Threads : j # i \/ s # r => tasks'[j][s] = tasks[j][s],
           TaskGood(i, tasks'[i][r]),
           \A d \in Conns : Stays(d),
           \A d \in Conns : \/ conns'[d].pending = {}
                            \/ conns'[d].pending = conns[d].pending
                            \/ /\ Coordinated /\ conns[d].phase \notin Early
                               /\ conns[d].phase \in Gone => Retrying(tasks'[i][r], d),
           \A d \in Conns : Retrying(tasks[i][r], d) => Retrying(tasks'[i][r], d) \/ conns'[d].pending = {}
    PROVE  HubInv'
  <1>1. TasksGood'
    <2> SUFFICES ASSUME NEW j \in Instances, NEW s \in Threads PROVE TaskGood(j, tasks[j][s])'
      BY DEF TasksGood
    <2>1. TaskGood(j, tasks'[j][s])
      <3>1. CASE j = i /\ s = r
        BY <3>1
      <3>2. CASE ~(j = i /\ s = r)
        BY <3>2 DEF HubInv, TasksGood
      <3> QED BY <3>1, <3>2
    <2> QED BY <2>1 DEF TaskGood, Stays, Coordinated
  <1>2. ASSUME NEW d \in Conns, Retried(d), conns'[d].pending # {} PROVE Retried(d)'
    <2>1. PICK j \in Instances, s \in Threads : Retrying(tasks[j][s], d)
      BY <1>2 DEF Retried
    <2>2. Retrying(tasks'[j][s], d)
      <3>1. CASE j = i /\ s = r
        BY <1>2, <2>1, <3>1
      <3>2. CASE ~(j = i /\ s = r)
        BY <2>1, <3>2
      <3> QED BY <3>1, <3>2
    <2> QED BY <2>2 DEF Retried, Retrying
  <1>3. \A d \in Conns : Retrying(tasks'[i][r], d) => Retried(d)'
    BY DEF Retried, Retrying
  <1>4. PendingGood'
    BY <1>2, <1>3 DEF HubInv, PendingGood, Stays, Coordinated, Gone
  <1>5. Placed'
    BY DEF HubInv, Placed, Stays, Coordinated
  <1> QED BY <1>1, <1>4, <1>5 DEF HubInv

TaskPut(i, r, t) == [tasks EXCEPT ![i] = [tasks[i] EXCEPT ![r] = t]]

LEMMA TaskPutSame ==
    ASSUME HubTypes, NEW i \in Instances, NEW r \in Threads, NEW t \in Task, tasks' = TaskPut(i, r, t)
    PROVE  /\ tasks' \in [Instances -> [Threads -> Task]] /\ tasks'[i][r] = t
           /\ \A j \in Instances, s \in Threads : j # i \/ s # r => tasks'[j][s] = tasks[j][s]
  <1> DEFINE row == [tasks[i] EXCEPT ![r] = t]
  <1>1. tasks \in [Instances -> [Threads -> Task]]
    BY DEF HubTypes
  <1>2. row \in [Threads -> Task] /\ row[r] = t /\ \A s \in Threads \ {r} : row[s] = tasks[i][s]
    BY <1>1
  <1>3. tasks' = [tasks EXCEPT ![i] = row]
    BY DEF TaskPut
  <1> HIDE DEF row
  <1> QED BY <1>1, <1>2, <1>3

(* A run that had nothing in hand begins, ends or goes on. *)
LEMMA TaskGoes ==
    ASSUME HubInv, NEW i \in Instances, NEW r \in Threads, NEW t \in Task, tasks' = TaskPut(i, r, t), TaskGood(i, t),
           UNCHANGED <<hub, draining, deployment>>, \A d \in Conns : Same(d), conns' \in [Conns -> Conn],
           conf' \in [Nodes -> Machines \cup {None}], devices' \in [Nodes -> Conns \cup {None}],
           owner' \in [Keys -> Conns \cup {None}], net' \in [Instances -> Seq(Heard)],
           tasks[i][r].pc # "releasing" \/ ~tasks[i][r].retry
    PROVE  HubInv'
  <1>1. /\ tasks' \in [Instances -> [Threads -> Task]] /\ tasks'[i][r] = t
        /\ \A j \in Instances, s \in Threads : j # i \/ s # r => tasks'[j][s] = tasks[j][s]
    BY TaskPutSame DEF HubInv
  <1>2. HubTypes'
    BY <1>1 DEF HubInv, HubTypes
  <1>3. HubGood'
    BY HubSame DEF Same, Stays
  <1>4. \A d \in Conns : ~Retrying(tasks[i][r], d) /\ Stays(d) /\ conns'[d].pending = conns[d].pending
    BY DEF Retrying, Same, Stays
  <1>5. TaskGood(i, tasks'[i][r]) /\ UNCHANGED deployment
    BY <1>1
  <1>6. /\ \A d \in Conns : Stays(d)
        /\ \A d \in Conns : \/ conns'[d].pending = {}
                            \/ conns'[d].pending = conns[d].pending
                            \/ /\ Coordinated /\ conns[d].phase \notin Early
                               /\ conns[d].phase \in Gone => Retrying(tasks'[i][r], d)
        /\ \A d \in Conns : Retrying(tasks[i][r], d) => Retrying(tasks'[i][r], d) \/ conns'[d].pending = {}
    BY <1>4
  <1> QED BY <1>1, <1>2, <1>3, <1>5, <1>6, TaskMoves

LEMMA EndTypes ==
    ASSUME HubTypes, NEW i \in Instances, NEW r \in Threads, NEW queue \in [Instances -> Seq(Heard)],
           tasks[i][r].machine \in Machines, End(i, r, queue)
    PROVE  net' \in [Instances -> Seq(Heard)] /\ tasks' = TaskPut(i, r, Idle) /\ Idle \in Task /\ TaskGood(i, Idle)
  <1> DEFINE e == [kind |-> "machine_nodes", keys |-> {tasks[i][r].machine}, conn |-> None]
  <1>1. e \in Heard
    BY DEF Heard
  <1>2. net' = queue \/ net' = Sent(queue, i, e)
    BY DEF End
  <1> HIDE DEF e
  <1>3. Sent(queue, i, e) \in [Instances -> Seq(Heard)]
    BY <1>1, SentHeard
  <1>4. tasks' = TaskPut(i, r, Idle)
    BY DEF End, TaskPut, HubTypes
  <1>5. TaskGood(i, Idle)
    BY Constants DEF TaskGood, Idle
  <1> QED BY <1>2, <1>3, <1>4, <1>5, Constants

LEMMA BeginTypes ==
    ASSUME HubTypes, NEW i \in Instances, NEW r \in Threads, NEW m \in Machines, Begin(i, r, m)
    PROVE  \E t \in Task : tasks' = TaskPut(i, r, t) /\ TaskGood(i, t)
  <1> DEFINE t == [Idle EXCEPT !.pc = "start", !.machine = m]
  <1>1. t \in Task /\ t.pc = "start" /\ t.machine = m /\ t.conn = None
    BY DEF Idle, Task, Steps
  <1>2. tasks' = TaskPut(i, r, t)
    BY DEF Begin, TaskPut, HubTypes
  <1> HIDE DEF t
  <1>3. TaskGood(i, t)
    BY <1>1, Constants DEF TaskGood
  <1> QED BY <1>1, <1>2, <1>3

LEMMA ConnsSame ==
    ASSUME HubInv, UNCHANGED conns
    PROVE  conns' \in [Conns -> Conn] /\ \A d \in Conns : Same(d)
  BY DEF HubInv, HubTypes, Same

LEMMA MarksSame ==
    ASSUME HubInv, NEW C, NEW D, conns' = Marked(C, D)
    PROVE  conns' \in [Conns -> Conn] /\ \A d \in Conns : Same(d)
  BY MarkedSame DEF HubInv, Same

(* Steps that begin a run on an idle thread of an instance. *)
LEMMA BeginsSafe ==
    ASSUME HubInv, NEW i \in Instances, NEW r \in Threads, NEW m \in Machines, Begin(i, r, m),
           tasks[i][r].pc # "releasing", UNCHANGED <<owner, hub, draining, conns, deployment>>,
           conf' \in [Nodes -> Machines \cup {None}], devices' \in [Nodes -> Conns \cup {None}],
           net' \in [Instances -> Seq(Heard)]
    PROVE  HubInv'
  <1>1. PICK t \in Task : tasks' = TaskPut(i, r, t) /\ TaskGood(i, t)
    BY BeginTypes DEF HubInv
  <1>2. conns' \in [Conns -> Conn] /\ \A d \in Conns : Same(d)
    BY ConnsSame
  <1>3. owner' \in [Keys -> Conns \cup {None}] /\ UNCHANGED <<hub, draining, deployment>>
    BY DEF HubInv, HubTypes
  <1> QED BY <1>1, <1>2, <1>3, TaskGoes

LEMMA AdministerSafe ==
    ASSUME HubInv, NEW i \in Instances, Administer(i) PROVE HubInv'
  <1>0. HubTypes /\ "admin" \in Threads
    BY DEF HubInv, Threads
  <1>t. devices \in [Nodes -> Conns \cup {None}] /\ net \in [Instances -> Seq(Heard)] /\ conf \in [Nodes -> Machines \cup {None}]
        /\ owner \in [Keys -> Conns \cup {None}]
    BY <1>0 DEF HubTypes
  <1>1. ASSUME NEW n \in Nodes, NEW m \in Machines, AssignNode(i, n, m) PROVE HubInv'
    <2>1. conf' \in [Nodes -> Machines \cup {None}] /\ UNCHANGED <<devices, owner, net, hub, draining, conns, deployment>>
          /\ Begin(i, "admin", m) /\ tasks[i]["admin"].pc # "releasing"
      BY <1>1, <1>t DEF AssignNode, Busy
    <2> QED BY <1>0, <1>t, <2>1, BeginsSafe
  <1>2. ASSUME NEW n \in Nodes, UnassignNode(i, n) PROVE HubInv'
    <2>1. conf[n] \in Machines /\ tasks[i]["admin"].pc = "idle"
          /\ conf' \in [Nodes -> Machines \cup {None}] /\ UNCHANGED <<devices, owner, net, hub, draining, conns, deployment>>
      BY <1>2, <1>t DEF UnassignNode, Busy
    <2> DEFINE t == [Idle EXCEPT !.pc = "purge", !.machine = conf[n], !.released = {n}]
    <2>2. t \in Task /\ t.pc = "purge" /\ t.machine = conf[n] /\ t.conn = None
      BY <2>1 DEF Idle, Task, Steps
    <2>3. tasks' = TaskPut(i, "admin", t)
      BY <1>0, <1>2 DEF UnassignNode, TaskPut, HubTypes
    <2> HIDE DEF t
    <2>4. TaskGood(i, t)
      BY <2>1, <2>2, Constants DEF TaskGood
    <2>5. conns' \in [Conns -> Conn] /\ \A d \in Conns : Same(d)
      BY <2>1, ConnsSame
    <2> QED BY <1>0, <1>t, <2>1, <2>2, <2>3, <2>4, <2>5, TaskGoes
  <1>3. ASSUME NEW m \in Machines, DisconnectMachine(i, m) PROVE HubInv'
    <2> DEFINE e == [kind |-> "disconnect_machine", keys |-> {m}, conn |-> None]
    <2>1. /\ UNCHANGED <<conf, devices, hub, draining, tasks, deployment>>
          /\ conns' = Marked({hub[i][m]} \ {None}, {})
          /\ \/ owner' = [owner EXCEPT ![m] = None] /\ net' = Sent(net, i, e)
             \/ UNCHANGED <<owner, net>>
      BY <1>3 DEF DisconnectMachine
    <2>2. e \in Heard
      BY DEF Heard, Keys
    <2> HIDE DEF e
    <2>3. net' \in [Instances -> Seq(Heard)] /\ owner' \in [Keys -> Conns \cup {None}]
      <3>1. Sent(net, i, e) \in [Instances -> Seq(Heard)]
        BY <1>t, <2>2, SentHeard
      <3> QED BY <1>t, <2>1, <3>1
    <2>4. conns' \in [Conns -> Conn] /\ \A d \in Conns : Same(d)
      BY <2>1, MarksSame
    <2>5. HubTypes'
      BY <1>0, <2>1, <2>3, <2>4 DEF HubTypes
    <2> QED BY <2>1, <2>4, <2>5, MarksOnly
  <1> QED BY <1>1, <1>2, <1>3 DEF Administer

LEMMA HandleEventSafe ==
    ASSUME HubInv, NEW i \in Instances, HandleEvent(i) PROVE HubInv'
  <1> DEFINE e == Head(net[i])
  <1>0. HubTypes /\ "event" \in Threads
    BY DEF HubInv, Threads
  <1>t. devices \in [Nodes -> Conns \cup {None}] /\ net \in [Instances -> Seq(Heard)] /\ conf \in [Nodes -> Machines \cup {None}]
    BY <1>0 DEF HubTypes
  <1>1. /\ net[i] # <<>> /\ tasks[i]["event"].pc = "idle" /\ net' = [net EXCEPT ![i] = Tail(@)]
        /\ UNCHANGED <<conf, devices, owner, hub, draining, deployment>>
        /\ \/ (\E C : conns' = Marked(C, {})) /\ UNCHANGED tasks
           \/ e.kind = "machine_nodes" /\ (\E m \in e.keys : Begin(i, "event", m)) /\ UNCHANGED conns
    BY DEF HandleEvent, Busy
  <1>2. e \in Heard /\ net' \in [Instances -> Seq(Heard)]
    <2>1. net[i] \in Seq(Heard)
      BY <1>t
    <2>2. e \in Heard /\ Tail(net[i]) \in Seq(Heard)
      BY <1>1, <2>1
    <2> QED BY <1>1, <1>t, <2>2
  <1> HIDE DEF e
  <1>3. CASE (\E C : conns' = Marked(C, {})) /\ UNCHANGED tasks
    <2>1. conns' \in [Conns -> Conn] /\ \A d \in Conns : Same(d)
      BY <1>3, MarksSame
    <2>2. HubTypes'
      BY <1>0, <1>1, <1>2, <1>3, <2>1 DEF HubTypes
    <2> QED BY <1>1, <1>3, <2>1, <2>2, MarksOnly
  <1>4. CASE e.kind = "machine_nodes" /\ (\E m \in e.keys : Begin(i, "event", m)) /\ UNCHANGED conns
    <2>1. e.keys \subseteq Machines
      BY <1>2, <1>4 DEF Heard
    <2>2. PICK m \in Machines : Begin(i, "event", m)
      BY <1>4, <2>1
    <2> QED BY <1>0, <1>1, <1>2, <1>4, <1>t, <2>2, BeginsSafe
  <1> QED BY <1>1, <1>3, <1>4

LEMMA ReconcileSafe ==
    ASSUME HubInv, NEW i \in Instances, NEW m \in Machines, Reconcile(i, m) PROVE HubInv'
  <1>1. "reconcile" \in Threads /\ Begin(i, "reconcile", m) /\ tasks[i]["reconcile"].pc # "releasing"
        /\ UNCHANGED <<conf, devices, owner, net, hub, draining, conns, deployment>>
    BY DEF Reconcile, Busy, Threads
  <1>2. /\ conf' \in [Nodes -> Machines \cup {None}] /\ devices' \in [Nodes -> Conns \cup {None}]
        /\ net' \in [Instances -> Seq(Heard)]
    BY <1>1 DEF HubInv, HubTypes
  <1> QED BY <1>1, <1>2, BeginsSafe

LEMMA DrainSafe ==
    ASSUME HubInv, NEW i \in Instances, Drain(i) PROVE HubInv'
  <1>1. UNCHANGED <<conf, devices, owner, net, hub, tasks, deployment>> /\ draining' = [draining EXCEPT ![i] = TRUE]
        /\ conns' = Marked({hub[i][k] : k \in Keys} \ {None}, {})
    BY DEF Drain
  <1>2. conns' \in [Conns -> Conn] /\ \A d \in Conns : Same(d)
    BY <1>1, MarksSame
  <1>3. HubTypes'
    BY <1>1, <1>2 DEF HubInv, HubTypes
  <1> QED BY <1>1, <1>2, <1>3, MarksOnly

LEMMA LossesSafe ==
    ASSUME HubInv, (\E k \in Keys : Expire(k)) \/ (\E i \in Instances : LoseEvent(i)) PROVE HubInv'
  <1>1. UNCHANGED <<conf, devices, hub, draining, conns, tasks, deployment>>
    BY DEF Expire, LoseEvent
  <1>2. owner' \in [Keys -> Conns \cup {None}]
    BY DEF Expire, LoseEvent, HubInv, HubTypes
  <1>3. net' \in [Instances -> Seq(Heard)]
    <2>0. net \in [Instances -> Seq(Heard)]
      BY DEF HubInv, HubTypes
    <2>1. CASE \E k \in Keys : Expire(k)
      BY <2>0, <2>1 DEF Expire
    <2>2. ASSUME NEW i \in Instances, LoseEvent(i) PROVE net' \in [Instances -> Seq(Heard)]
      <3>1. net[i] \in Seq(Heard) /\ net[i] # <<>> /\ net' = [net EXCEPT ![i] = Tail(@)]
        BY <2>0, <2>2 DEF LoseEvent
      <3>2. Tail(net[i]) \in Seq(Heard)
        BY <3>1
      <3> QED BY <2>0, <3>1, <3>2
    <2> QED BY <2>1, <2>2
  <1>4. \A d \in Conns : Same(d)
    BY <1>1 DEF Same
  <1>5. HubTypes'
    BY <1>1, <1>2, <1>3 DEF HubInv, HubTypes
  <1> QED BY <1>1, <1>4, <1>5, MarksOnly

LEMMA PurgeSafe ==
    ASSUME HubInv, NEW i \in Instances, NEW r \in Threads, Purge(i, r) PROVE HubInv'
  <1>1. tasks[i][r].pc = "purge" /\ Begin(i, r, tasks[i][r].machine)
        /\ UNCHANGED <<conf, owner, net, hub, draining, conns, deployment>>
    BY DEF Purge
  <1>2. PICK m \in Machines : m = tasks[i][r].machine
    BY <1>1 DEF HubInv, TasksGood, TaskGood
  <1>3. /\ conf' \in [Nodes -> Machines \cup {None}] /\ devices' \in [Nodes -> Conns \cup {None}]
        /\ net' \in [Instances -> Seq(Heard)]
    BY <1>1 DEF HubInv, HubTypes, Purge, Cleared
  <1> QED BY <1>1, <1>2, <1>3, BeginsSafe

LEMMA SnapshotSafe ==
    ASSUME HubInv, NEW i \in Instances, NEW r \in Threads, Snapshot(i, r) PROVE HubInv'
  <1>0. HubTypes /\ tasks \in [Instances -> [Threads -> Task]] /\ tasks[i][r] \in Task
    BY DEF HubInv, HubTypes
  <1> DEFINE plan == NodesOf(tasks[i][r].machine)
             t == [tasks[i][r] EXCEPT !.pc = "planned", !.plan = plan]
  <1>1. plan \in SUBSET Nodes /\ tasks[i][r].pc = "start"
    BY DEF NodesOf, Snapshot
  <1>2. tasks' = [tasks EXCEPT ![i][r].pc = "planned", ![i][r].plan = plan]
    BY DEF Snapshot
  <1> HIDE DEF plan
  <1>3. t \in Task /\ t.pc = "planned" /\ t.machine = tasks[i][r].machine /\ t.conn = tasks[i][r].conn
    BY <1>0, <1>1 DEF Task, Steps
  <1>4. tasks' = TaskPut(i, r, t)
    BY <1>0, <1>2 DEF TaskPut
  <1> HIDE DEF t
  <1>5. TaskGood(i, t)
    <2>1. TaskGood(i, tasks[i][r])
      BY DEF HubInv, TasksGood
    <2> QED BY <2>1, <1>1, <1>3 DEF TaskGood
  <1>6. UNCHANGED <<conf, devices, owner, net, hub, draining, conns, deployment>>
    BY DEF Snapshot
  <1>7. conns' \in [Conns -> Conn] /\ \A d \in Conns : Same(d)
    BY <1>6, ConnsSame
  <1>8. /\ conf' \in [Nodes -> Machines \cup {None}] /\ devices' \in [Nodes -> Conns \cup {None}]
        /\ owner' \in [Keys -> Conns \cup {None}] /\ net' \in [Instances -> Seq(Heard)]
    BY <1>0, <1>6 DEF HubTypes
  <1> QED BY <1>1, <1>3, <1>4, <1>5, <1>6, <1>7, <1>8, TaskGoes

LEMMA PickSafe ==
    ASSUME HubInv, NEW i \in Instances, NEW r \in Threads, Pick(i, r) PROVE HubInv'
  <1> DEFINE c == hub[i][tasks[i][r].machine]
  <1>0. HubTypes /\ tasks \in [Instances -> [Threads -> Task]] /\ tasks[i][r] \in Task /\ TaskGood(i, tasks[i][r])
    BY DEF HubInv, HubTypes, TasksGood
  <1>1. tasks[i][r].pc = "planned" /\ tasks[i][r].machine \in Machines /\ UNCHANGED <<conf, devices, owner, hub, draining, conns, deployment>>
    BY <1>0 DEF Pick, TaskGood
  <1>2. c \in Conns \cup {None} /\ tasks[i][r].machine \in Keys
    BY <1>0, <1>1 DEF HubTypes, Keys
  <1>3. conns' \in [Conns -> Conn] /\ \A d \in Conns : Same(d)
    BY <1>1, ConnsSame
  <1>4. /\ conf' \in [Nodes -> Machines \cup {None}] /\ devices' \in [Nodes -> Conns \cup {None}]
        /\ owner' \in [Keys -> Conns \cup {None}] /\ net \in [Instances -> Seq(Heard)]
    BY <1>0, <1>1 DEF HubTypes
  <1>5. CASE End(i, r, net)
    <2>1. net' \in [Instances -> Seq(Heard)] /\ tasks' = TaskPut(i, r, Idle) /\ Idle \in Task /\ TaskGood(i, Idle)
      BY <1>0, <1>1, <1>4, <1>5, EndTypes
    <2> QED BY <1>1, <1>3, <1>4, <2>1, TaskGoes
  <1>6. CASE c # None /\ ~End(i, r, net)
    <2> DEFINE pc == IF Coordinated THEN "picked" ELSE "claimed"
               todo == conns[c].nodes \ tasks[i][r].plan
               t == [tasks[i][r] EXCEPT !.pc = pc, !.conn = c, !.todo = todo]
    <2>1. c \in Conns /\ todo \in SUBSET Nodes /\ pc \in {"picked", "claimed"} /\ pc \in Steps
      BY <1>0, <1>2, <1>6 DEF HubTypes, Conn, Steps
    <2>2. tasks' = [tasks EXCEPT ![i][r].pc = pc, ![i][r].conn = c, ![i][r].todo = todo] /\ UNCHANGED net
      BY <1>6 DEF Pick
    <2>3. conns[c].inst = i /\ conns[c].phase \notin Early
      BY <1>2, <2>1 DEF HubInv, HubGood
    <2> HIDE DEF c, pc, todo
    <2>4. t \in Task /\ t.pc = pc /\ t.machine = tasks[i][r].machine /\ t.conn = c
      BY <1>0, <2>1 DEF Task, Steps
    <2>5. tasks' = TaskPut(i, r, t)
      BY <1>0, <2>2 DEF TaskPut
    <2> HIDE DEF t
    <2>6. TaskGood(i, t)
      BY <1>1, <2>1, <2>3, <2>4 DEF TaskGood
    <2> QED BY <1>1, <1>3, <1>4, <2>2, <2>4, <2>5, <2>6, TaskGoes
  <1> QED BY <1>5, <1>6 DEF Pick

LEMMA ClaimNodesSafe ==
    ASSUME HubInv, NEW i \in Instances, NEW r \in Threads, ClaimNodes(i, r) PROVE HubInv'
  <1> DEFINE c == tasks[i][r].conn
             K == {tasks[i][r].machine} \cup tasks[i][r].plan
             told == IF tasks[i][r].plan = {} THEN net ELSE Sent(net, i, Replacement(K, c))
  <1>0. HubTypes /\ tasks \in [Instances -> [Threads -> Task]] /\ tasks[i][r] \in Task /\ TaskGood(i, tasks[i][r])
    BY DEF HubInv, HubTypes, TasksGood
  <1>1. tasks[i][r].pc = "picked" /\ tasks[i][r].machine \in Machines /\ c \in Conns /\ K \subseteq Keys
        /\ UNCHANGED <<conf, devices, hub, draining, deployment>>
    BY <1>0 DEF ClaimNodes, TaskGood, Task, Keys
  <1>2. /\ conf' \in [Nodes -> Machines \cup {None}] /\ devices' \in [Nodes -> Conns \cup {None}]
        /\ owner \in [Keys -> Conns \cup {None}] /\ net \in [Instances -> Seq(Heard)]
    BY <1>0, <1>1 DEF HubTypes
  <1>3. /\ (\E C, D : conns' = Marked(C, D)) /\ (UNCHANGED owner \/ owner' = Given(owner, K, c))
        /\ \/ tasks' = [tasks EXCEPT ![i][r].pc = "claimed"] /\ net' = told
           \/ End(i, r, net)
           \/ End(i, r, told)
    BY DEF ClaimNodes
  <1> HIDE DEF c, K
  <1>4. told \in [Instances -> Seq(Heard)]
    <2>1. Replacement(K, c) \in Heard
      BY <1>1 DEF Replacement, Heard
    <2>2. Sent(net, i, Replacement(K, c)) \in [Instances -> Seq(Heard)]
      BY <1>2, <2>1, SentHeard
    <2> QED BY <1>2, <2>2
  <1>5. owner' \in [Keys -> Conns \cup {None}]
    BY <1>1, <1>2, <1>3, TableTypes
  <1>6. conns' \in [Conns -> Conn] /\ \A d \in Conns : Same(d)
    BY <1>3, MarksSame
  <1> HIDE DEF told
  <1>7. CASE End(i, r, net) \/ End(i, r, told)
    <2>1. net' \in [Instances -> Seq(Heard)] /\ tasks' = TaskPut(i, r, Idle) /\ Idle \in Task /\ TaskGood(i, Idle)
      BY <1>0, <1>1, <1>2, <1>4, <1>7, EndTypes
    <2> QED BY <1>1, <1>2, <1>5, <1>6, <2>1, TaskGoes
  <1>8. CASE tasks' = [tasks EXCEPT ![i][r].pc = "claimed"] /\ net' = told
    <2> DEFINE t == [tasks[i][r] EXCEPT !.pc = "claimed"]
    <2>1. t \in Task /\ t.pc = "claimed" /\ t.machine = tasks[i][r].machine /\ t.conn = c
      BY <1>0 DEF Task, Steps, c
    <2>2. tasks' = TaskPut(i, r, t)
      BY <1>0, <1>8 DEF TaskPut
    <2> HIDE DEF t
    <2>3. TaskGood(i, t)
      BY <1>0, <1>1, <2>1 DEF TaskGood, c
    <2> QED BY <1>1, <1>2, <1>4, <1>5, <1>6, <1>8, <2>1, <2>2, <2>3, TaskGoes
  <1> QED BY <1>3, <1>7, <1>8

LEMMA RetrySafe ==
    ASSUME HubInv, NEW i \in Instances, NEW r \in Threads, Retry(i, r) PROVE HubInv'
  <1> DEFINE c == tasks[i][r].conn
  <1>0. HubTypes /\ tasks \in [Instances -> [Threads -> Task]] /\ tasks[i][r] \in Task /\ TaskGood(i, tasks[i][r])
    BY DEF HubInv, HubTypes, TasksGood
  <1>1. tasks[i][r].pc = "retrying" /\ tasks[i][r].machine \in Machines /\ c \in Conns
        /\ UNCHANGED <<conf, hub, draining, conns, deployment>>
    BY <1>0 DEF Retry, TaskGood
  <1>2. /\ conf' \in [Nodes -> Machines \cup {None}] /\ devices' \in [Nodes -> Conns \cup {None}]
        /\ owner \in [Keys -> Conns \cup {None}] /\ net \in [Instances -> Seq(Heard)]
    BY <1>0, <1>1 DEF HubTypes, Retry, Cleared
  <1>3. conns' \in [Conns -> Conn] /\ \A d \in Conns : Same(d)
    BY <1>1, ConnsSame
  <1>4. CASE End(i, r, net) /\ UNCHANGED owner
    <2>1. net' \in [Instances -> Seq(Heard)] /\ tasks' = TaskPut(i, r, Idle) /\ Idle \in Task /\ TaskGood(i, Idle)
      BY <1>0, <1>1, <1>2, <1>4, EndTypes
    <2> QED BY <1>1, <1>2, <1>3, <1>4, <2>1, TaskGoes
  <1>5. ASSUME NEW n \in tasks[i][r].todo, ReleaseKey(c, n) \/ UNCHANGED owner, UNCHANGED net,
               NEW released \in SUBSET Nodes,
               tasks' = TaskPut(i, r, [tasks[i][r] EXCEPT !.todo = @ \ {n}, !.released = released])
        PROVE  HubInv'
    <2> DEFINE t == [tasks[i][r] EXCEPT !.todo = @ \ {n}, !.released = released]
    <2>1. t \in Task /\ t.pc = "retrying" /\ t.machine = tasks[i][r].machine /\ t.conn = c
      BY <1>0, <1>1, <1>5 DEF Task, Steps
    <2>2. tasks' = TaskPut(i, r, t)
      BY <1>5
    <2> HIDE DEF t
    <2>3. TaskGood(i, t)
      BY <1>0, <1>1, <2>1 DEF TaskGood
    <2>4. owner' \in [Keys -> Conns \cup {None}]
      <3>1. Taken(owner, {n}, c) \in [Keys -> Conns \cup {None}]
        BY <1>1, <1>2, TableTypes
      <3> QED BY <1>2, <1>5, <3>1 DEF ReleaseKey
    <2>5. net' \in [Instances -> Seq(Heard)]
      BY <1>2, <1>5
    <2> QED BY <1>1, <1>2, <1>3, <2>1, <2>2, <2>3, <2>4, <2>5, TaskGoes
  <1>6. ASSUME NEW n \in tasks[i][r].todo, UNCHANGED net,
               \/ /\ ReleaseKey(c, n)
                  /\ tasks' = [tasks EXCEPT ![i][r].todo = @ \ {n}, ![i][r].released = IF owner[n] = c THEN @ \cup {n} ELSE @]
               \/ ReleaseFails(c, n) /\ tasks' = [tasks EXCEPT ![i][r].todo = @ \ {n}]
        PROVE  HubInv'
    <2> DEFINE old == tasks[i][r].released
    <2>1. old \in SUBSET Nodes /\ n \in Nodes /\ old \cup {n} \in SUBSET Nodes
      BY <1>0, <1>6 DEF Task
    <2>2. \/ tasks' = TaskPut(i, r, [tasks[i][r] EXCEPT !.todo = @ \ {n}, !.released = old \cup {n}])
          \/ tasks' = TaskPut(i, r, [tasks[i][r] EXCEPT !.todo = @ \ {n}, !.released = old])
      <3>1. CASE tasks' = [tasks EXCEPT ![i][r].todo = @ \ {n}]
        BY <1>0, <3>1 DEF TaskPut, Task
      <3>2. CASE tasks' = [tasks EXCEPT ![i][r].todo = @ \ {n}, ![i][r].released = IF owner[n] = c THEN @ \cup {n} ELSE @] /\ owner[n] = c
        <4>1. tasks' = [tasks EXCEPT ![i][r].todo = @ \ {n}, ![i][r].released = old \cup {n}]
          BY <1>0, <3>2
        <4> QED BY <1>0, <4>1 DEF TaskPut
      <3>3. CASE tasks' = [tasks EXCEPT ![i][r].todo = @ \ {n}, ![i][r].released = IF owner[n] = c THEN @ \cup {n} ELSE @] /\ owner[n] # c
        <4>1. tasks' = [tasks EXCEPT ![i][r].todo = @ \ {n}, ![i][r].released = old]
          BY <1>0, <3>3
        <4> QED BY <1>0, <4>1 DEF TaskPut
      <3> QED BY <1>6, <3>1, <3>2, <3>3
    <2>3. ReleaseKey(c, n) \/ UNCHANGED owner
      BY <1>6 DEF ReleaseFails
    <2> QED BY <1>5, <1>6, <2>1, <2>2, <2>3
  <1> QED BY <1>4, <1>6 DEF Retry

(* A run that has connection c in hand changes what c still has to release. *)
LEMMA PendingMoves ==
    ASSUME HubInv, NEW i \in Instances, NEW r \in Threads, NEW t \in Task, tasks' = TaskPut(i, r, t), TaskGood(i, t),
           NEW c \in Conns, NEW new, conns' = Put(c, new),
           new \in Conn, new.inst = conns[c].inst, new.machine = conns[c].machine, new.nodes = conns[c].nodes,
           new.phase = conns[c].phase,
           \/ new.pending = {}
           \/ Coordinated /\ conns[c].phase \notin Early /\ (conns[c].phase \in Gone => Retrying(t, c)),
           tasks[i][r].conn = c,
           new.pending = {} \/ (Retrying(tasks[i][r], c) => Retrying(t, c)),
           UNCHANGED <<conf, net, hub, draining, deployment>>,
           devices' \in [Nodes -> Conns \cup {None}], owner' \in [Keys -> Conns \cup {None}]
    PROVE  HubInv'
  <1>1. /\ tasks' \in [Instances -> [Threads -> Task]] /\ tasks'[i][r] = t
        /\ \A j \in Instances, s \in Threads : j # i \/ s # r => tasks'[j][s] = tasks[j][s]
    BY TaskPutSame DEF HubInv
  <1>2. conns' \in [Conns -> Conn] /\ conns'[c] = new /\ \A d \in Conns \ {c} : Same(d)
    BY PutSame DEF HubInv
  <1>3. HubTypes'
    BY <1>1, <1>2 DEF HubInv, HubTypes
  <1>4. \A d \in Conns : Stays(d) /\ conns'[d].nodes = conns[d].nodes
    BY <1>2 DEF Same, Stays
  <1>5. HubGood'
    BY <1>4, HubSame
  <1>6. TaskGood(i, tasks'[i][r]) /\ UNCHANGED deployment
    BY <1>1
  <1>7. \A d \in Conns : \/ conns'[d].pending = {}
                         \/ conns'[d].pending = conns[d].pending
                         \/ /\ Coordinated /\ conns[d].phase \notin Early
                            /\ conns[d].phase \in Gone => Retrying(tasks'[i][r], d)
    BY <1>1, <1>2 DEF Same
  <1>8. \A d \in Conns : Retrying(tasks[i][r], d) => Retrying(tasks'[i][r], d) \/ conns'[d].pending = {}
    BY <1>1, <1>2 DEF Retrying
  <1> QED BY <1>1, <1>3, <1>4, <1>5, <1>6, <1>7, <1>8, TaskMoves

LEMMA ReleaseRemovedSafe ==
    ASSUME HubInv, NEW i \in Instances, NEW r \in Threads, ReleaseRemoved(i, r) PROVE HubInv'
  <1> DEFINE old == tasks[i][r]
             c == old.conn
  <1>0. HubTypes /\ tasks \in [Instances -> [Threads -> Task]] /\ old \in Task /\ TaskGood(i, old) /\ conns \in [Conns -> Conn]
    BY DEF HubInv, HubTypes, TasksGood
  <1>1. PICK n \in old.todo :
          \/ /\ ReleaseKey(c, n)
             /\ tasks' = [tasks EXCEPT ![i][r].todo = @ \ {n}, ![i][r].released = IF owner[n] = c THEN @ \cup {n} ELSE @]
             /\ UNCHANGED conns
          \/ /\ ReleaseFails(c, n)
             /\ tasks' = [tasks EXCEPT ![i][r].todo = @ \ {n}, ![i][r].failed = TRUE, ![i][r].retry = @ \/ Unregistered(c)]
             /\ conns' = [conns EXCEPT ![c].pending = @ \cup {n}]
    BY DEF ReleaseRemoved
  <1>u. old.pc = "releasing" /\ UNCHANGED <<conf, devices, net, hub, draining, deployment>>
    BY DEF ReleaseRemoved
  <1>2. /\ c \in Conns /\ old.machine \in Machines /\ n \in Nodes /\ Coordinated /\ conns[c].phase \notin Early /\ conns[c].inst = i
        /\ conns[c] \in Conn
    BY <1>0, <1>1, <1>u DEF TaskGood, Task
  <1>3. owner' \in [Keys -> Conns \cup {None}] /\ devices' \in [Nodes -> Conns \cup {None}]
    <2>1. owner \in [Keys -> Conns \cup {None}] /\ devices' \in [Nodes -> Conns \cup {None}]
      BY <1>0, <1>u DEF HubTypes
    <2>2. Taken(owner, {n}, c) \in [Keys -> Conns \cup {None}]
      BY <1>2, <2>1, TableTypes
    <2> QED BY <1>1, <2>1, <2>2 DEF ReleaseKey, ReleaseFails
  <1>4. CASE /\ tasks' = [tasks EXCEPT ![i][r].todo = @ \ {n}, ![i][r].released = IF owner[n] = c THEN @ \cup {n} ELSE @]
             /\ UNCHANGED conns
    <2> DEFINE released == IF owner[n] = c THEN old.released \cup {n} ELSE old.released
               t == [old EXCEPT !.todo = old.todo \ {n}, !.released = released]
    <2>1. released \in SUBSET Nodes
      BY <1>0, <1>2 DEF Task
    <2>2. tasks' = [tasks EXCEPT ![i][r].todo = old.todo \ {n}, ![i][r].released = released]
      BY <1>0, <1>4
    <2> HIDE DEF released
    <2>3. t \in Task /\ t.pc = "releasing" /\ t.machine = old.machine /\ t.conn = c /\ t.retry = old.retry
      BY <1>0, <1>u, <2>1 DEF Task, Steps
    <2>4. tasks' = TaskPut(i, r, t)
      BY <1>0, <2>2 DEF TaskPut
    <2> HIDE DEF t
    <2>5. TaskGood(i, t)
      BY <1>2, <2>3 DEF TaskGood
    <2>9. conns' \in [Conns -> Conn] /\ \A d \in Conns : Same(d)
      BY <1>4, ConnsSame
    <2>10. /\ tasks' \in [Instances -> [Threads -> Task]] /\ tasks'[i][r] = t
           /\ \A j \in Instances, s \in Threads : j # i \/ s # r => tasks'[j][s] = tasks[j][s]
      BY <1>0, <2>3, <2>4, TaskPutSame
    <2>11. HubTypes'
      BY <1>0, <1>3, <1>u, <2>9, <2>10 DEF HubTypes
    <2>12. HubGood'
      BY <1>u, <2>9, HubSame DEF Same, Stays
    <2>13. \A d \in Conns : Stays(d) /\ conns'[d].pending = conns[d].pending
      BY <2>9 DEF Same, Stays
    <2>14. \A d \in Conns : Retrying(tasks[i][r], d) => Retrying(tasks'[i][r], d) \/ conns'[d].pending = {}
      BY <1>u, <2>3, <2>10 DEF Retrying
    <2>15. TaskGood(i, tasks'[i][r]) /\ UNCHANGED deployment
      BY <1>u, <2>5, <2>10
    <2>16. \A d \in Conns : \/ conns'[d].pending = {}
                            \/ conns'[d].pending = conns[d].pending
                            \/ /\ Coordinated /\ conns[d].phase \notin Early
                               /\ conns[d].phase \in Gone => Retrying(tasks'[i][r], d)
      BY <2>13
    <2> QED BY <2>10, <2>11, <2>12, <2>13, <2>14, <2>15, <2>16, TaskMoves
  <1>5. CASE /\ tasks' = [tasks EXCEPT ![i][r].todo = @ \ {n}, ![i][r].failed = TRUE, ![i][r].retry = @ \/ Unregistered(c)]
             /\ conns' = [conns EXCEPT ![c].pending = @ \cup {n}]
    <2> DEFINE retry == old.retry \/ Unregistered(c)
               t == [old EXCEPT !.todo = old.todo \ {n}, !.failed = TRUE, !.retry = retry]
               new == [conns[c] EXCEPT !.pending = @ \cup {n}]
    <2>1. retry \in BOOLEAN /\ (conns[c].phase \in Gone => retry) /\ (old.retry => retry)
      BY <1>0 DEF Task, Gone, Unregistered
    <2>2. tasks' = [tasks EXCEPT ![i][r].todo = old.todo \ {n}, ![i][r].failed = TRUE, ![i][r].retry = retry]
      BY <1>0, <1>5
    <2> HIDE DEF retry
    <2>3. t \in Task /\ t.pc = "releasing" /\ t.machine = old.machine /\ t.conn = c /\ t.retry = retry
      BY <1>0, <1>u, <2>1 DEF Task, Steps
    <2>4. tasks' = TaskPut(i, r, t)
      BY <1>0, <2>2 DEF TaskPut
    <2> HIDE DEF t
    <2>5. TaskGood(i, t)
      BY <1>2, <2>3 DEF TaskGood
    <2>6. /\ new \in Conn /\ new.inst = conns[c].inst /\ new.machine = conns[c].machine /\ new.nodes = conns[c].nodes
          /\ new.phase = conns[c].phase
      BY <1>2 DEF Conn
    <2>7. conns' = Put(c, new)
      BY <1>2, <1>5 DEF Put
    <2> HIDE DEF new
    <2>8. /\ conns[c].phase \in Gone => Retrying(t, c)
          /\ Retrying(old, c) => Retrying(t, c)
      BY <2>1, <2>3 DEF Retrying
    <2> QED BY <1>2, <1>3, <1>u, <2>3, <2>4, <2>5, <2>6, <2>7, <2>8, PendingMoves
  <1> QED BY <1>1, <1>4, <1>5

LEMMA ClearRemovedSafe ==
    ASSUME HubInv, NEW i \in Instances, NEW r \in Threads, ClearRemoved(i, r) PROVE HubInv'
  <1> DEFINE old == tasks[i][r]
             c == old.conn
  <1>0. HubTypes /\ tasks \in [Instances -> [Threads -> Task]] /\ old \in Task /\ TaskGood(i, old) /\ conns \in [Conns -> Conn]
    BY DEF HubInv, HubTypes, TasksGood
  <1>u. old.pc = "releasing" /\ UNCHANGED <<conf, owner, hub, draining, deployment>> /\ devices' = Cleared(old.released)
    BY DEF ClearRemoved
  <1>2. c \in Conns /\ old.machine \in Machines /\ conns[c].phase \notin Early /\ conns[c].inst = i /\ conns[c] \in Conn
    BY <1>0, <1>u DEF TaskGood
  <1>3. /\ conf' \in [Nodes -> Machines \cup {None}] /\ devices' \in [Nodes -> Conns \cup {None}]
        /\ owner' \in [Keys -> Conns \cup {None}] /\ net \in [Instances -> Seq(Heard)]
    BY <1>0, <1>u DEF HubTypes, Cleared
  <1>4. CASE ~old.retry
    <2>1. (\E C : conns' = Marked(C, {})) /\ End(i, r, net)
      BY <1>4 DEF ClearRemoved
    <2>2. net' \in [Instances -> Seq(Heard)] /\ tasks' = TaskPut(i, r, Idle) /\ Idle \in Task /\ TaskGood(i, Idle)
      BY <1>0, <1>2, <1>3, <2>1, EndTypes
    <2>3. conns' \in [Conns -> Conn] /\ \A d \in Conns : Same(d)
      BY <2>1, MarksSame
    <2> QED BY <1>3, <1>4, <1>u, <2>2, <2>3, TaskGoes
  <1>5. CASE old.retry
    <2> DEFINE t == [old EXCEPT !.pc = "retrying", !.released = {}, !.todo = conns[c].pending]
               new == [conns[c] EXCEPT !.closed = TRUE, !.pending = {}]
    <2>1. /\ tasks' = [tasks EXCEPT ![i][r].pc = "retrying", ![i][r].released = {}, ![i][r].todo = conns[c].pending]
          /\ conns' = [conns EXCEPT ![c].closed = TRUE, ![c].pending = {}] /\ UNCHANGED net
      BY <1>5 DEF ClearRemoved
    <2>2. conns[c].pending \in SUBSET Nodes
      BY <1>2 DEF Conn
    <2>3. t \in Task /\ t.pc = "retrying" /\ t.machine = old.machine /\ t.conn = c
      BY <1>0, <2>2 DEF Task, Steps
    <2>4. tasks' = TaskPut(i, r, t)
      BY <1>0, <2>1 DEF TaskPut
    <2> HIDE DEF t
    <2>5. TaskGood(i, t)
      BY <1>2, <2>3 DEF TaskGood
    <2>6. /\ new \in Conn /\ new.inst = conns[c].inst /\ new.machine = conns[c].machine /\ new.nodes = conns[c].nodes
          /\ new.phase = conns[c].phase /\ new.pending = {}
      BY <1>2 DEF Conn
    <2>7. conns' = Put(c, new)
      BY <1>2, <2>1 DEF Put
    <2> HIDE DEF new
    <2>8. UNCHANGED <<conf, net, hub, draining, deployment>> /\ tasks[i][r].conn = c
      BY <1>u, <2>1
    <2> HIDE DEF old, c
    <2> QED BY <1>2, <1>3, <2>3, <2>4, <2>5, <2>6, <2>7, <2>8, PendingMoves
  <1> QED BY <1>4, <1>5

LEMMA InstallSafe ==
    ASSUME HubInv, NEW i \in Instances, NEW r \in Threads, Install(i, r) PROVE HubInv'
  <1> DEFINE old == tasks[i][r]
             c == old.conn
             closed == {hub[i][n] : n \in old.plan} \ {None, c}
  <1>0. HubTypes /\ tasks \in [Instances -> [Threads -> Task]] /\ old \in Task /\ TaskGood(i, old) /\ conns \in [Conns -> Conn]
    BY DEF HubInv, HubTypes, TasksGood
  <1>u. old.pc = "claimed" /\ UNCHANGED <<conf, devices, owner, draining, deployment>>
    BY DEF Install
  <1>2. c \in Conns /\ old.machine \in Machines /\ conns[c].phase \notin Early /\ conns[c].inst = i /\ conns[c] \in Conn
        /\ old.machine \in Keys /\ old.plan \in SUBSET Nodes /\ old.todo \in SUBSET Nodes
    BY <1>0, <1>u DEF TaskGood, Task, Keys
  <1>3. /\ conf' \in [Nodes -> Machines \cup {None}] /\ devices' \in [Nodes -> Conns \cup {None}]
        /\ owner' \in [Keys -> Conns \cup {None}] /\ net \in [Instances -> Seq(Heard)]
    BY <1>0, <1>u DEF HubTypes
  <1>4. CASE ~StillThere(i, old)
    <2>1. conns' = Marked({c}, {}) /\ End(i, r, net) /\ UNCHANGED hub
      BY <1>4 DEF Install
    <2>2. net' \in [Instances -> Seq(Heard)] /\ tasks' = TaskPut(i, r, Idle) /\ Idle \in Task /\ TaskGood(i, Idle)
      BY <1>0, <1>2, <1>3, <2>1, EndTypes
    <2>3. conns' \in [Conns -> Conn] /\ \A d \in Conns : Same(d)
      BY <2>1, MarksSame
    <2> QED BY <1>3, <1>u, <2>1, <2>2, <2>3, TaskGoes
  <1>5. CASE StillThere(i, old)
    <2> DEFINE todo == IF Coordinated THEN old.todo ELSE {}
               released == IF Coordinated THEN {} ELSE old.todo
               t == [old EXCEPT !.pc = "releasing", !.todo = todo, !.released = released]
               M == Marked(closed, Rivals(c, old.plan))
               new == [M[c] EXCEPT !.nodes = old.plan, !.pending = @ \ old.plan]
    <2>1. /\ hub' = [hub EXCEPT ![i] = Taken(Given(@, old.plan, c), old.todo, c)]
          /\ conns' = [M EXCEPT ![c].nodes = old.plan, ![c].pending = @ \ old.plan]
          /\ tasks' = [tasks EXCEPT ![i][r].pc = "releasing", ![i][r].todo = IF Coordinated THEN @ ELSE {},
                                    ![i][r].released = IF Coordinated THEN {} ELSE old.todo]
          /\ UNCHANGED net /\ hub[i][old.machine] = c
      BY <1>5 DEF Install, StillThere
    <2>2. conns[c].machine = old.machine /\ conns[c].phase \in Live
      <3>1. conns[c].machine = old.machine /\ (old.machine \in Own(c) => conns[c].phase \in Live)
        <4>1. \A k \in Keys, d \in Conns :
                hub[i][k] = d => (k \in Machines => conns[d].machine = k) /\ (k \in Own(d) => conns[d].phase \in Live)
          BY DEF HubInv, HubGood
        <4>2. hub[i][old.machine] = c
          BY <1>5 DEF StillThere
        <4> HIDE DEF old, c
        <4> QED BY <1>2, <4>1, <4>2
      <3> QED BY <1>2, <3>1, Constants DEF Own
    <2>3. todo \in SUBSET Nodes /\ released \in SUBSET Nodes /\ (~Coordinated => todo = {})
      BY <1>2
    <2>4. tasks' = [tasks EXCEPT ![i][r].pc = "releasing", ![i][r].todo = todo, ![i][r].released = released]
      <3>1. CASE Coordinated
        BY <1>0, <2>1, <3>1
      <3>2. CASE ~Coordinated
        BY <1>0, <2>1, <3>2
      <3> QED BY <3>1, <3>2
    <2> HIDE DEF todo, released
    <2>5. t \in Task /\ t.pc = "releasing" /\ t.machine = old.machine /\ t.conn = c /\ t.todo = todo
      BY <1>0, <2>3 DEF Task, Steps
    <2>6. tasks' = TaskPut(i, r, t)
      BY <1>0, <2>4 DEF TaskPut
    <2> HIDE DEF t
    <2>7. TaskGood(i, t)
      BY <1>2, <2>3, <2>5 DEF TaskGood
    <2>8. /\ tasks' \in [Instances -> [Threads -> Task]] /\ tasks'[i][r] = t
          /\ \A j \in Instances, s \in Threads : j # i \/ s # r => tasks'[j][s] = tasks[j][s]
      BY <1>0, <2>5, <2>6, TaskPutSame
    <2>9. /\ M \in [Conns -> Conn]
          /\ \A d \in Conns : /\ M[d].inst = conns[d].inst /\ M[d].machine = conns[d].machine
                              /\ M[d].nodes = conns[d].nodes /\ M[d].phase = conns[d].phase
                              /\ M[d].pending = conns[d].pending
      BY <1>0, MarkedSame
    <2> HIDE DEF M
    <2>10. /\ new \in Conn /\ new.inst = M[c].inst /\ new.machine = M[c].machine /\ new.nodes = old.plan
           /\ new.phase = M[c].phase /\ new.pending = M[c].pending \ old.plan
      BY <1>2, <2>9 DEF Conn
    <2>11. conns' = [M EXCEPT ![c] = new]
      BY <1>2, <2>1, <2>9
    <2> HIDE DEF new
    <2>12. /\ conns' \in [Conns -> Conn] /\ \A d \in Conns \ {c} : Same(d)
           /\ conns'[c].inst = i /\ conns'[c].machine = conns[c].machine /\ conns'[c].nodes = old.plan
           /\ conns'[c].phase = conns[c].phase /\ conns'[c].pending = conns[c].pending \ old.plan
      BY <1>2, <2>9, <2>10, <2>11 DEF Same
    <2>13. \A d \in Conns : Stays(d)
      BY <1>2, <2>12 DEF Same, Stays
    <2>14. /\ hub' \in [Instances -> [Keys -> Conns \cup {None}]]
           /\ \A j \in Instances, k \in Keys :
                hub'[j][k] = hub[j][k] \/ hub'[j][k] = None \/ (j = i /\ k \in old.plan /\ hub'[j][k] = c)
      <3> DEFINE given == Given(hub[i], old.plan, c)
                 taken == Taken(given, old.todo, c)
      <3>0. hub \in [Instances -> [Keys -> Conns \cup {None}]]
        BY <1>0 DEF HubTypes
      <3>1. given \in [Keys -> Conns \cup {None}] /\ \A k \in Keys : given[k] = IF k \in old.plan THEN c ELSE hub[i][k]
        BY <1>2, <3>0, TableTypes
      <3> HIDE DEF given
      <3>2. taken \in [Keys -> Conns \cup {None}] /\ \A k \in Keys : taken[k] = IF k \in old.todo /\ given[k] = c THEN None ELSE given[k]
        BY <1>2, <3>1, TableTypes
      <3>3. hub' = [hub EXCEPT ![i] = taken]
        BY <2>1 DEF given
      <3> HIDE DEF taken
      <3> QED BY <3>0, <3>1, <3>2, <3>3
    <2>15. HubGood'
      <3> SUFFICES ASSUME NEW j \in Instances, NEW k \in Keys, NEW d \in Conns, hub'[j][k] = d
                   PROVE  /\ conns'[d].inst = j /\ conns'[d].phase \notin Early
                          /\ k \in Machines => conns'[d].machine = k
                          /\ k \in Own(d)' => conns'[d].phase \in Live
        BY DEF HubGood
      <3>1. CASE hub[j][k] = d
        <4>1. /\ conns[d].inst = j /\ conns[d].phase \notin Early
              /\ k \in Machines => conns[d].machine = k
              /\ k \in Own(d) => conns[d].phase \in Live
          BY <3>1 DEF HubInv, HubGood
        <4>2. CASE d = c
          BY <1>2, <2>2, <2>12, <4>1, <4>2
        <4>3. CASE d # c
          BY <2>12, <4>1, <4>3 DEF Same, Own
        <4> QED BY <4>2, <4>3
      <3>2. CASE hub[j][k] # d
        <4>1. j = i /\ k \in old.plan /\ d = c
          BY <2>14, <3>2, Constants
        <4>2. k \notin Machines
          BY <1>2, <4>1, Constants
        <4> QED BY <1>2, <2>2, <2>12, <4>1, <4>2
      <3> QED BY <3>1, <3>2
    <2>16. HubTypes'
      BY <1>0, <1>u, <2>1, <2>8, <2>12, <2>14 DEF HubTypes
    <2>17. conns[c].phase \notin Gone /\ (~Coordinated => conns[c].pending = {})
      BY <1>2, <2>2 DEF Live, Gone, HubInv, PendingGood
    <2>18. \A d \in Conns : \/ conns'[d].pending = {}
                            \/ conns'[d].pending = conns[d].pending
                            \/ /\ Coordinated /\ conns[d].phase \notin Early
                               /\ conns[d].phase \in Gone => Retrying(tasks'[i][r], d)
      <3>1. conns'[c].pending = {} \/ (Coordinated /\ conns[c].phase \notin Early /\ conns[c].phase \notin Gone)
        BY <1>2, <2>12, <2>17
      <3> QED BY <2>12, <3>1 DEF Same
    <2>19. \A d \in Conns : Retrying(tasks[i][r], d) => Retrying(tasks'[i][r], d) \/ conns'[d].pending = {}
      BY <1>u DEF Retrying
    <2>20. TaskGood(i, tasks'[i][r]) /\ UNCHANGED deployment
      BY <1>u, <2>7, <2>8
    <2> QED BY <2>8, <2>13, <2>15, <2>16, <2>18, <2>19, <2>20, TaskMoves
  <1> QED BY <1>4, <1>5

(* An instance loses its memory. *)
LEMMA EmptiedSafe ==
    ASSUME HubInv, NEW i \in Instances, Emptied(i), UNCHANGED <<conf, devices, owner, deployment>>, conns' \in [Conns -> Conn],
           \A d \in Conns : conns[d].inst # i => conns'[d] = conns[d],
           \A d \in Conns : conns[d].inst = i => /\ conns'[d].pending = {}
                                                /\ \/ conns'[d].phase = "lost"
                                                   \/ conns'[d].phase = conns[d].phase /\ conns'[d].inst = conns[d].inst
    PROVE  HubInv'
  <1>0. HubTypes /\ None \notin Conns /\ Idle \in Task
    BY Constants DEF HubInv
  <1>1. /\ hub' \in [Instances -> [Keys -> Conns \cup {None}]] /\ net' \in [Instances -> Seq(Heard)]
        /\ tasks' \in [Instances -> [Threads -> Task]] /\ draining' \in [Instances -> BOOLEAN]
        /\ \A k \in Keys : hub'[i][k] = None
        /\ \A s \in Threads : tasks'[i][s] = Idle
        /\ \A j \in Instances \ {i} : hub'[j] = hub[j] /\ tasks'[j] = tasks[j]
    BY <1>0 DEF Emptied, HubTypes
  <1>2. HubTypes'
    BY <1>0, <1>1 DEF HubTypes
  <1>3. HubGood'
    <2> SUFFICES ASSUME NEW j \in Instances, NEW k \in Keys, NEW d \in Conns, hub'[j][k] = d
                 PROVE  /\ conns'[d].inst = j /\ conns'[d].phase \notin Early
                        /\ k \in Machines => conns'[d].machine = k
                        /\ k \in Own(d)' => conns'[d].phase \in Live
      BY DEF HubGood
    <2>1. j # i /\ hub[j][k] = d
      BY <1>0, <1>1
    <2>2. /\ conns[d].inst = j /\ conns[d].phase \notin Early
          /\ k \in Machines => conns[d].machine = k
          /\ k \in Own(d) => conns[d].phase \in Live
      BY <2>1 DEF HubInv, HubGood
    <2>3. conns'[d] = conns[d]
      BY <2>1, <2>2
    <2> QED BY <2>2, <2>3 DEF Own
  <1>4. ASSUME NEW j \in Instances \ {i}, NEW s \in Threads
        PROVE  TaskGood(j, tasks[j][s]) /\ tasks'[j][s] = tasks[j][s]
    BY <1>1 DEF HubInv, TasksGood
  <1>5. TasksGood'
    <2> SUFFICES ASSUME NEW j \in Instances, NEW s \in Threads PROVE TaskGood(j, tasks[j][s])'
      BY DEF TasksGood
    <2>1. CASE j = i
      BY <1>0, <1>1, <2>1 DEF TaskGood, Idle
    <2>2. CASE j # i
      BY <1>4, <2>2 DEF TaskGood, Coordinated
    <2> QED BY <2>1, <2>2
  <1>6. PendingGood'
    <2> SUFFICES ASSUME NEW d \in Conns
                 PROVE  /\ conns'[d].phase \in Early \/ ~Coordinated' => conns'[d].pending = {}
                        /\ conns'[d].phase \in Gone /\ conns'[d].pending # {} => Retried(d)'
      BY DEF PendingGood
    <2>1. CASE conns[d].inst = i
      BY <2>1
    <2>2. CASE conns[d].inst # i
      <3>1. conns'[d] = conns[d]
        BY <2>2
      <3>2. ASSUME Retried(d) PROVE Retried(d)'
        <4>1. PICK j \in Instances, s \in Threads : Retrying(tasks[j][s], d)
          BY <3>2 DEF Retried
        <4>2. conns[d].inst = j
          BY <4>1 DEF HubInv, TasksGood, TaskGood, Retrying
        <4>3. tasks'[j][s] = tasks[j][s]
          BY <1>4, <2>2, <4>2
        <4> QED BY <4>1, <4>3 DEF Retried, Retrying
      <3> QED BY <3>1, <3>2 DEF HubInv, PendingGood, Coordinated
    <2> QED BY <2>1, <2>2
  <1>7. Placed'
    BY DEF HubInv, Placed, Coordinated
  <1> QED BY <1>2, <1>3, <1>5, <1>6, <1>7 DEF HubInv

LEMMA RestartSafe ==
    ASSUME HubInv, NEW i \in Instances, Restart(i) \/ Crash(i) PROVE HubInv'
  <1>0. conns \in [Conns -> Conn] /\ "lost" \in Phases
    BY PhaseNames DEF HubInv, HubTypes
  <1>1. ASSUME NEW d \in Conns
        PROVE  LET r == [conns[d] EXCEPT !.pending = {}]
               IN  r \in Conn /\ r.pending = {} /\ r.inst = conns[d].inst /\ r.phase = conns[d].phase
    BY <1>0 DEF Conn
  <1>2. LET r == [NoConn EXCEPT !.phase = "lost"]
        IN  r \in Conn /\ r.pending = {} /\ r.phase = "lost"
    BY <1>0 DEF NoConn, Conn
  <1>3. CASE Restart(i)
    <2>1. Emptied(i) /\ UNCHANGED <<conf, devices, owner, deployment>>
          /\ conns' = [d \in Conns |-> IF conns[d].inst = i THEN [conns[d] EXCEPT !.pending = {}] ELSE conns[d]]
      BY <1>3 DEF Restart
    <2>2. conns' \in [Conns -> Conn] /\ \A d \in Conns : /\ conns[d].inst # i => conns'[d] = conns[d]
                                                         /\ conns[d].inst = i => /\ conns'[d].pending = {} 
                                                              /\ conns'[d].phase = conns[d].phase /\ conns'[d].inst = conns[d].inst
      BY <1>0, <1>1, <2>1
    <2> QED BY <2>1, <2>2, EmptiedSafe
  <1>4. CASE Crash(i)
    <2>1. Emptied(i) /\ UNCHANGED <<conf, devices, owner, deployment>>
          /\ conns' = [d \in Conns |-> IF conns[d].inst # i THEN conns[d]
                               ELSE IF conns[d].phase \in Over THEN [conns[d] EXCEPT !.pending = {}]
                               ELSE [NoConn EXCEPT !.phase = "lost"]]
      BY <1>4 DEF Crash
    <2>2. conns' \in [Conns -> Conn] /\ \A d \in Conns :
             /\ conns[d].inst # i => conns'[d] = conns[d]
             /\ conns[d].inst = i => /\ conns'[d].pending = {}
                                     /\ \/ conns'[d].phase = "lost"
                                        \/ conns'[d].phase = conns[d].phase /\ conns'[d].inst = conns[d].inst
      BY <1>0, <1>1, <1>2, <2>1
    <2> QED BY <2>1, <2>2, EmptiedSafe
  <1> QED BY <1>3, <1>4

(* Every step of the system preserves the invariant. *)
LEMMA HubInvNext == HubInv /\ [Next]_vars => HubInv'
  <1> SUFFICES ASSUME HubInv, [Next]_vars PROVE HubInv'
    OBVIOUS
  <1>i. deployment.instances \subseteq Instances
    BY Constants DEF HubInv, HubTypes
  <1>1. ASSUME NEW c \in Conns, Handshake(c) PROVE HubInv'
    BY <1>1, AcceptSafe, ClaimSafe, RegisterSafe, WithdrawSafe, VerifySafe DEF Handshake
  <1>2. ASSUME NEW c \in Conns, Serve(c) \/ Depart(c) \/ Renew(c) \/ RenewFails(c) PROVE HubInv'
    BY <1>2, ServeSafe, UnregisterSafe, ReleaseSafe, ClearSafe DEF Depart, Renew, RenewFails
  <1>3. ASSUME NEW i \in Instances, NEW r \in Threads, Synchronise(i, r) PROVE HubInv'
    BY <1>3, PurgeSafe, SnapshotSafe, PickSafe, ClaimNodesSafe, InstallSafe, ReleaseRemovedSafe, ClearRemovedSafe, RetrySafe
    DEF Synchronise
  <1>4. ASSUME NEW i \in Instances, NEW m \in Machines, Reconcile(i, m) PROVE HubInv'
    BY <1>4, ReconcileSafe
  <1>5. ASSUME NEW i \in deployment.instances,
               HandleEvent(i) \/ LoseEvent(i) \/ Administer(i) \/ Drain(i) \/ Restart(i) \/ Crash(i)
        PROVE  HubInv'
    <2>1. i \in Instances
      BY <1>i
    <2> QED BY <1>5, <2>1, HandleEventSafe, LossesSafe, AdministerSafe, DrainSafe, RestartSafe
  <1>6. ASSUME NEW k \in Keys, Expire(k) PROVE HubInv'
    BY <1>6, LossesSafe
  <1>7. CASE UNCHANGED vars
    <2>1. UNCHANGED <<hub, tasks, deployment>> /\ HubTypes' /\ \A d \in Conns : Same(d)
      BY <1>7 DEF vars, HubInv, HubTypes, Same
    <2> QED BY <2>1, MarksOnly
  <1> QED BY <1>1, <1>2, <1>3, <1>4, <1>5, <1>6, <1>7 DEF Next

LEMMA HubAlways == Spec => []HubInv
  <1>1. Init => HubInv
    BY HubInvInit
  <1>2. HubInv /\ [Next]_vars => HubInv'
    BY HubInvNext
  <1> QED BY <1>1, <1>2, PTL DEF Spec

(* Whatever is reassigned, lost, replaced, drained, restarted or failing, in every deployment: a hub leads to no     *)
(* connection that has left, neither for a machine nor for a node the connection lists, and a release that failed in *)
(* notifyMachineNodes after unregisterAndClear has run is retried by the run that noted it (websocket.go).           *)
THEOREM HubStaysTrue == Spec => []HubLeadsToLive
  <1>1. HubInv => HubLeadsToLive
    <2> SUFFICES ASSUME HubInv PROVE HubLeadsToLive
      OBVIOUS
    <2>1. LeadsToLive
      <3> SUFFICES ASSUME NEW i \in Instances, NEW k \in Keys, hub[i][k] # None,
                          k \in Machines \/ k \in Own(hub[i][k])
                   PROVE  conns[hub[i][k]].inst = i /\ conns[hub[i][k]].phase \in Live
        BY DEF LeadsToLive
      <3>1. PICK c \in Conns : c = hub[i][k]
        BY DEF HubInv, HubTypes
      <3>2. /\ conns[c].inst = i
            /\ k \in Machines => conns[c].machine = k
            /\ k \in Own(c) => conns[c].phase \in Live
        BY <3>1 DEF HubInv, HubGood
      <3>3. k \in Own(c)
        BY <3>1, <3>2, Constants DEF Own
      <3> QED BY <3>1, <3>2, <3>3
    <2>2. ReleasesRetried
      BY DEF HubInv, PendingGood, Retried, Retrying, Gone, ReleasesRetried
    <2> QED BY <2>1, <2>2 DEF HubLeadsToLive
  <1> QED BY <1>1, HubAlways, PTL

(* Only unregisterAndClear takes a connection from its reader to its end at once. *)
LEMMA EndOfReader ==
    ASSUME HubInv, Next, NEW c \in Conns, conns[c].phase = "leaving", conns'[c].phase = "ended"
    PROVE  Unregister(c)
  <1>0. HubTypes /\ conns \in [Conns -> Conn]
    BY DEF HubInv, HubTypes
  <1>m. \A C, D : Marked(C, D)[c].phase = "leaving" /\ Marked(C, D) \in [Conns -> Conn]
    BY <1>0, MarkedSame
  <1>1. ASSUME NEW d \in Conns, Handshake(d) PROVE FALSE
    <2>1. d # c
      BY <1>1 DEF Handshake, Accept, Claim, Register, Withdraw, Verify
    <2>2. conns'[c] = conns[c] \/ (\E C, D, phase : conns' = [Marked(C, D) EXCEPT ![d].phase = phase])
      <3>1. CASE \E i \in deployment.instances : Accept(d, i)
        BY <1>0, <2>1, <3>1 DEF Accept
      <3>2. CASE Claim(d)
        BY <1>0, <2>1, <3>2 DEF Claim
      <3>3. CASE Register(d)
        BY <3>3 DEF Register
      <3>4. CASE Withdraw(d)
        BY <1>0, <2>1, <3>4 DEF Withdraw
      <3>5. CASE Verify(d)
        BY <1>0, <2>1, <3>5 DEF Verify
      <3> QED BY <1>1, <3>1, <3>2, <3>3, <3>4, <3>5 DEF Handshake
    <2>3. CASE conns'[c] = conns[c]
      BY <2>3
    <2>4. ASSUME NEW C, NEW D, NEW phase, conns' = [Marked(C, D) EXCEPT ![d].phase = phase] PROVE FALSE
      <3> DEFINE M == Marked(C, D)
      <3>1. M \in [Conns -> Conn] /\ M[c].phase = "leaving" /\ conns' = [M EXCEPT ![d].phase = phase]
        BY <1>m, <2>4
      <3> HIDE DEF M
      <3>2. conns'[c] = M[c]
        BY <2>1, <3>1
      <3> QED BY <3>1, <3>2
    <2> QED BY <2>2, <2>3, <2>4
  <1>2. ASSUME NEW d \in Conns, Serve(d) \/ Renew(d) \/ RenewFails(d) PROVE FALSE
    <2>1. CASE Hangup(d) \/ Renew(d) \/ RenewFails(d)
      <3>1. conns' = [conns EXCEPT ![d].closed = TRUE]
        BY <2>1 DEF Hangup, Renew, RenewFails, NotRenewed
      <3> QED BY <1>0, <3>1 DEF Conn
    <2>2. CASE Stop(d)
      BY <1>0, <2>2 DEF Stop
    <2>3. ASSUME NEW n \in Nodes, Receive(d, n) PROVE FALSE
      BY <1>0, <2>3 DEF Receive
    <2>4. CASE Apply(d)
      BY <1>0, <2>4 DEF Apply
    <2>5. CASE StoreDevices(d)
      BY <1>0, <2>5 DEF StoreDevices
    <2> QED BY <1>2, <2>1, <2>2, <2>3, <2>4, <2>5 DEF Serve
  <1>3. ASSUME NEW d \in Conns, Depart(d) PROVE Unregister(c)
    <2>1. CASE Unregister(d)
      BY <1>0, <2>1 DEF Unregister
    <2>2. CASE Release(d)
      BY <1>0, <2>2 DEF Release
    <2>3. CASE Clear(d)
      BY <1>0, <2>3 DEF Clear
    <2> QED BY <1>3, <2>1, <2>2, <2>3 DEF Depart
  <1>4. ASSUME NEW i \in Instances, NEW r \in Threads, Synchronise(i, r) PROVE FALSE
    <2>1. CASE Purge(i, r) \/ Snapshot(i, r) \/ Pick(i, r) \/ Retry(i, r)
      BY <2>1 DEF Purge, Snapshot, Pick, Retry
    <2>2. CASE ClaimNodes(i, r)
      <3>1. \E C, D : conns' = Marked(C, D)
        BY <2>2 DEF ClaimNodes
      <3> QED BY <1>m, <3>1
    <2>3. CASE Install(i, r)
      <3> DEFINE x == tasks[i][r].conn
                 plan == tasks[i][r].plan
      <3>1. \E C, D : \/ conns' = Marked(C, D)
                      \/ conns' = [Marked(C, D) EXCEPT ![x].nodes = plan, ![x].pending = @ \ plan]
        BY <2>3, ZenonT(60) DEF Install
      <3> HIDE DEF x, plan
      <3>2. PICK C, D : \/ conns' = Marked(C, D)
                        \/ conns' = [Marked(C, D) EXCEPT ![x].nodes = plan, ![x].pending = @ \ plan]
        BY <3>1
      <3>3. PICK M \in [Conns -> Conn] : M = Marked(C, D) /\ M[c].phase = "leaving"
        BY <1>m
      <3>4. conns'[c].phase = M[c].phase
        <4>1. CASE conns' = M
          BY <4>1
        <4>2. CASE conns' = [M EXCEPT ![x].nodes = plan, ![x].pending = @ \ plan]
          BY <4>2 DEF Conn
        <4> QED BY <3>2, <3>3, <4>1, <4>2
      <3> QED BY <3>3, <3>4
    <2>4. CASE ReleaseRemoved(i, r)
      <3>1. PICK n : UNCHANGED conns \/ conns' = [conns EXCEPT ![tasks[i][r].conn].pending = @ \cup {n}]
        BY <2>4 DEF ReleaseRemoved
      <3> QED BY <1>0, <3>1 DEF Conn
    <2>5. CASE ClearRemoved(i, r)
      <3>1. \/ \E C : conns' = Marked(C, {})
            \/ conns' = [conns EXCEPT ![tasks[i][r].conn].closed = TRUE, ![tasks[i][r].conn].pending = {}]
        BY <2>5 DEF ClearRemoved
      <3>2. CASE \E C : conns' = Marked(C, {})
        BY <1>m, <3>2
      <3>3. CASE conns' = [conns EXCEPT ![tasks[i][r].conn].closed = TRUE, ![tasks[i][r].conn].pending = {}]
        BY <1>0, <3>3 DEF Conn
      <3> QED BY <3>1, <3>2, <3>3
    <2> QED BY <1>4, <2>1, <2>2, <2>3, <2>4, <2>5 DEF Synchronise
  <1>5. ASSUME UNCHANGED conns PROVE FALSE
    BY <1>5
  <1>6. ASSUME NEW i, HandleEvent(i) \/ LoseEvent(i) \/ Administer(i) \/ Drain(i) PROVE FALSE
    <2>1. UNCHANGED conns \/ (\E C : conns' = Marked(C, {}))
      BY <1>6 DEF HandleEvent, LoseEvent, Administer, AssignNode, UnassignNode, DisconnectMachine, Drain
    <2> QED BY <1>m, <1>5, <2>1
  <1>7. ASSUME NEW i, Restart(i) PROVE FALSE
    <2>1. conns'[c] = conns[c] \/ conns'[c] = [conns[c] EXCEPT !.pending = {}]
      BY <1>7 DEF Restart
    <2> QED BY <1>0, <2>1 DEF Conn
  <1>8. ASSUME NEW i, Crash(i) PROVE FALSE
    <2>1. \/ conns'[c] = conns[c] \/ conns'[c] = [conns[c] EXCEPT !.pending = {}]
          \/ conns'[c] = [NoConn EXCEPT !.phase = "lost"]
      BY <1>8 DEF Crash
    <2> QED BY <1>0, <2>1 DEF Conn, NoConn
  <1>9. ASSUME NEW i, NEW m, Reconcile(i, m) PROVE FALSE
    BY <1>9 DEF Reconcile
  <1>10. ASSUME NEW k, Expire(k) PROVE FALSE
    BY <1>10 DEF Expire
  <1> QED BY <1>1, <1>2, <1>3, <1>4, <1>6, <1>7, <1>8, <1>9, <1>10 DEF Next

(* In a process without Redis the close path of a replaced connection never removes the device snapshot of the     *)
(* connection that replaced it (unregisterAndClear holds the hub's mutex).                                           *)
THEOREM ClosesFenced == Spec => LocalCloseFenced
  <1>1. HubInv /\ [Next]_vars => [~Coordinated => CloseFenced]_vars
    <2> SUFFICES ASSUME HubInv, Next, ~Coordinated PROVE CloseFenced
      OBVIOUS
    <2> SUFFICES ASSUME NEW c \in Conns, NEW d \in Conns, NEW n \in Nodes,
                        c # d, conns[c].phase \in {"leaving", "clearing"}, conns'[c].phase = "ended",
                        devices[n] = d, conns[d].phase \in Served, hub[conns[d].inst][n] = d
                 PROVE  devices'[n] = d
      BY DEF CloseFenced
    <2>1. conns[c].phase = "leaving"
      BY DEF HubInv, Placed
    <2>2. Unregister(c)
      BY <2>1, EndOfReader
    <2>3. PICK i : deployment.instances = {i}
      BY HubConstants DEF HubInv, HubTypes, Coordinated
    <2>4. conns[c].inst = i /\ conns[d].inst = i
      BY <2>1, <2>3 DEF HubInv, Placed, Served
    <2>5. n \notin Current(c)
      BY <2>4 DEF Current
    <2>6. devices' = Cleared(Current(c))
      BY <2>2 DEF Unregister
    <2> QED BY <2>5, <2>6 DEF Cleared
  <1> QED BY <1>1, HubAlways, PTL DEF Spec, LocalCloseFenced

-----------------------------------------------------------------------------
(* Leases where connections only come and go: Redis works, and no thread synchronises node sets. *)
Calm == Coordinated /\ Roles = {} /\ faults \subseteq {"drain", "credential"}

(* Nothing but announcements of claims is on its way. *)
Announcements == [kind : {"replacement"}, keys : SUBSET Keys, conn : Conns]
Quiet ==
    /\ net \in [Instances -> Seq(Announcements)]
    /\ \A i \in Instances, r \in Threads : ~Busy(i, r)
    /\ \A c \in Conns : conns[c].pending = {}

(* The hub leads to a connection until it is closed, which a drain does to all. *)
Routed(c) ==
    /\ conns[c].phase \in Live /\ (~conns[c].closed \/ ~conns[c].contested) => Owns(c)
    /\ \A i \in Instances, k \in Keys : hub[i][k] = c => k \in Own(c)
    /\ conns[c].phase \in Live /\ draining[conns[c].inst] => conns[c].closed
    /\ conns[c].phase # "unused" => Own(c) # {}

(* The leases of a connection nobody competes with, from its claim to its departure. *)
Leased(c) ==
    /\ \A k \in Keys : owner[k] = c => k \in Own(c) /\ conns[c].phase \notin {"unused", "upgraded"}
    /\ ~conns[c].contested =>
         /\ conns[c].phase \in Live \cup {"claimed"} => Holds(c, Own(c))
         /\ conns[c].phase \in {"releasing", "withdrawing"} => \A k \in Keys : owner[k] = c <=> k \in conns[c].todo
         /\ conns[c].phase \in {"clearing", "ended"} => \A k \in Keys : owner[k] # c

(* The snapshots it stored are those of nodes it is going to release and clear. *)
Stored(c) ==
    /\ \A n \in Nodes : devices[n] = c => n \in conns[c].nodes /\ conns[c].phase \in Served \cup {"leaving"} \cup Gone
    /\ conns[c].phase \in {"checked", "storing"} => conns[c].target \in conns[c].nodes
    /\ ~conns[c].contested =>
         /\ conns[c].phase = "releasing" => conns[c].nodes \subseteq conns[c].todo \cup conns[c].released
         /\ conns[c].phase = "clearing" => conns[c].nodes \subseteq conns[c].released
         /\ conns[c].phase = "ended" => \A n \in Nodes : devices[n] # c

(* The three ways in which LossAnnounced accounts for key k of c. *)
Warned(c, k) ==
    \E x \in 1 .. Len(net[conns[c].inst]) :
       net[conns[c].inst][x].kind = "replacement" /\ k \in net[conns[c].inst][x].keys /\ net[conns[c].inst][x].conn # c
Replacing(d, c, k) == conns[d].inst = conns[c].inst /\ k \in Own(d) /\ conns[d].phase = "claimed"
Told(c, k) == owner[k] = c \/ Warned(c, k) \/ \E d \in Conns \ {c} : Replacing(d, c, k)
Announced(c) == conns[c].phase \in Served /\ ~conns[c].closed => \A k \in Own(c) : Told(c, k)

Follows(c) == Routed(c) /\ Leased(c) /\ Stored(c) /\ Announced(c)

Following == Quiet /\ \A c \in Conns : Follows(c)
FollowInv == Calm => Following

LEMMA LossesAnnounced == (\A c \in Conns : Announced(c)) => LossAnnounced
  <1> SUFFICES ASSUME \A c \in Conns : Announced(c), NEW c \in Conns, conns[c].phase \in Served, ~conns[c].closed, NEW k \in Own(c)
               PROVE  \/ owner[k] = c
                      \/ \E x \in 1 .. Len(net[conns[c].inst]) :
                            net[conns[c].inst][x].kind = "replacement" /\ k \in net[conns[c].inst][x].keys
                              /\ net[conns[c].inst][x].conn # c
                      \/ \E d \in Conns \ {c} : /\ conns[d].inst = conns[c].inst /\ k \in Own(d)
                                                /\ conns[d].phase = "claimed"
    BY DEF LossAnnounced
  <1> QED BY DEF Announced, Told, Warned, Replacing

LEMMA FollowInvInit == Init => FollowInv
  <1> SUFFICES ASSUME Init PROVE Following
    BY DEF FollowInv
  <1>1. Quiet
    <2>1. \A i \in Instances : net[i] = <<>>
      BY DEF Init
    <2>2. <<>> \in Seq(Announcements)
      OBVIOUS
    <2> QED BY <2>2 DEF Init, Quiet, Busy, Idle, NoConn
  <1>2. ASSUME NEW c \in Conns PROVE Follows(c)
    <2>1. /\ conns[c].phase = "unused" /\ c # None
          /\ \A k \in Keys : owner[k] = None
          /\ \A n \in Nodes : devices[n] = None
          /\ \A i \in Instances, k \in Keys : hub[i][k] = None
      BY Constants DEF Init, NoConn
    <2>2. conns[c].phase \notin Live /\ conns[c].phase \notin Served
      BY <2>1 DEF Live, Served
    <2>3. Routed(c)
      BY <2>1, <2>2 DEF Routed
    <2>4. Leased(c)
      BY <2>1, <2>2 DEF Leased
    <2>5. Stored(c)
      BY <2>1, <2>2 DEF Stored
    <2> QED BY <2>2, <2>3, <2>4, <2>5 DEF Follows, Announced
  <1> QED BY <1>1, <1>2 DEF Following

(* What the others see of a step that is not theirs. *)
Steady(d) ==
    /\ Same(d) /\ conns'[d].todo = conns[d].todo /\ conns'[d].target = conns[d].target /\ conns'[d].released = conns[d].released
    /\ conns[d].closed => conns'[d].closed
    /\ conns[d].contested => conns'[d].contested

LEMMA OthersFollow ==
    ASSUME NEW d \in Conns, Follows(d), Steady(d),
           \A k \in Keys : owner'[k] = d => owner[k] = d,
           \A k \in Keys : owner[k] = d => owner'[k] = d \/ conns'[d].contested \/ conns[d].phase \in Over,
           \A j \in Instances, k \in Keys : hub'[j][k] = d => hub[j][k] = d,
           \A k \in Own(d) : conns[d].phase \in Live /\ hub[conns[d].inst][k] = d =>
               hub'[conns[d].inst][k] = d \/ (conns'[d].closed /\ conns'[d].contested),
           \A n \in Nodes : devices'[n] = d => devices[n] = d,
           conns[d].phase \in Live /\ draining'[conns[d].inst] => draining[conns[d].inst] \/ conns'[d].closed,
           Own(d) \subseteq Keys
    PROVE  Routed(d)' /\ Leased(d)' /\ Stored(d)'
  <1>1. Own(d)' = Own(d)
    BY DEF Own, Steady, Same
  <1>2. Routed(d)'
    <2>1. ASSUME conns'[d].phase \in Live, ~conns'[d].closed \/ ~conns'[d].contested PROVE Owns(d)'
      <3>1. Owns(d) /\ conns[d].phase \in Live
        BY <2>1 DEF Follows, Routed, Steady, Same
      <3> QED BY <1>1, <2>1, <3>1 DEF Owns, Steady, Same
    <2>2. \A j \in Instances, k \in Keys : hub'[j][k] = d => k \in Own(d)'
      BY <1>1 DEF Follows, Routed
    <2>3. conns'[d].phase \in Live /\ draining'[conns'[d].inst] => conns'[d].closed
      BY DEF Follows, Routed, Steady, Same
    <2>4. conns'[d].phase # "unused" => Own(d)' # {}
      BY <1>1 DEF Follows, Routed, Steady, Same
    <2> QED BY <2>1, <2>2, <2>3, <2>4 DEF Routed
  <1>3. Leased(d)'
    <2>1. \A k \in Keys : owner'[k] = d => k \in Own(d)' /\ conns'[d].phase \notin {"unused", "upgraded"}
      BY <1>1 DEF Follows, Leased, Steady, Same
    <2>2. ASSUME ~conns'[d].contested
          PROVE  /\ conns'[d].phase \in Live \cup {"claimed"} => Holds(d, Own(d))'
                 /\ conns'[d].phase \in {"releasing", "withdrawing"} => \A k \in Keys : owner'[k] = d <=> k \in conns'[d].todo
                 /\ conns'[d].phase \in {"clearing", "ended"} => \A k \in Keys : owner'[k] # d
      <3>1. ~conns[d].contested /\ conns'[d].phase = conns[d].phase /\ conns'[d].todo = conns[d].todo
        BY <2>2 DEF Steady, Same
      <3>2. ASSUME conns[d].phase \in Live \cup {"claimed"} PROVE Holds(d, Own(d))'
        <4>1. conns[d].phase \notin Over /\ Holds(d, Own(d))
          BY <3>1, <3>2 DEF Follows, Leased, Live, Over
        <4> QED BY <1>1, <2>2, <4>1 DEF Holds
      <3>3. ASSUME conns[d].phase \in {"releasing", "withdrawing"}
            PROVE  \A k \in Keys : owner'[k] = d <=> k \in conns'[d].todo
        <4>1. conns[d].phase \notin Over /\ \A k \in Keys : owner[k] = d <=> k \in conns[d].todo
          BY <3>1, <3>3 DEF Follows, Leased, Over
        <4> QED BY <2>2, <3>1, <4>1
      <3>4. conns[d].phase \in {"clearing", "ended"} => \A k \in Keys : owner'[k] # d
        BY <3>1 DEF Follows, Leased
      <3> QED BY <3>1, <3>2, <3>3, <3>4
    <2> QED BY <2>1, <2>2 DEF Leased
  <1>4. Stored(d)'
    BY DEF Follows, Stored, Steady, Same
  <1> QED BY <1>2, <1>3, <1>4

(* What was known about a loss stays known. *)
LEMMA ToldStays ==
    ASSUME NEW d \in Conns, NEW k, Told(d, k), conns'[d].inst = conns[d].inst,
           owner[k] = d => Told(d, k)',
           Warned(d, k) => Told(d, k)',
           \A e \in Conns \ {d} : Replacing(e, d, k) => Told(d, k)'
    PROVE  Told(d, k)'
  BY DEF Told

LEMMA WarnedStays ==
    ASSUME NEW d \in Conns, NEW k, Warned(d, k), conns'[d].inst = conns[d].inst,
           net'[conns[d].inst] = net[conns[d].inst]
    PROVE  Warned(d, k)'
  BY DEF Warned

LEMMA ReplacingStays ==
    ASSUME NEW d \in Conns, NEW e \in Conns, NEW k, Replacing(e, d, k), conns'[d].inst = conns[d].inst, Same(e)
    PROVE  Replacing(e, d, k)'
  BY DEF Replacing, Same, Own

(* A step that is no claim, no registration and no event. *)
LEMMA OthersTold ==
    ASSUME NEW d \in Conns, Follows(d), Steady(d), UNCHANGED net,
           \A k \in Keys : owner[k] = d => owner'[k] = d,
           \A e \in Conns : conns[e].phase = "claimed" => Same(e),
           Own(d) \subseteq Keys
    PROVE  Announced(d)'
  <1>1. Own(d)' = Own(d) /\ conns'[d].inst = conns[d].inst
    BY DEF Own, Steady, Same
  <1> SUFFICES ASSUME conns'[d].phase \in Served, ~conns'[d].closed, NEW k \in Own(d) PROVE Told(d, k)'
    BY <1>1 DEF Announced
  <1>2. Told(d, k) /\ k \in Keys
    BY DEF Follows, Announced, Steady, Same
  <1>3. CASE owner[k] = d
    BY <1>2, <1>3 DEF Told
  <1>4. CASE Warned(d, k)
    BY <1>1, <1>4, WarnedStays DEF Told
  <1>5. ASSUME NEW e \in Conns \ {d}, Replacing(e, d, k) PROVE Told(d, k)'
    <2>1. Same(e)
      BY <1>5 DEF Replacing
    <2> QED BY <1>1, <1>5, <2>1, ReplacingStays DEF Told
  <1> QED BY <1>2, <1>3, <1>4, <1>5 DEF Told

(* A connection that keeps its place and its keys; it is closed if C has it. *)
Turned(c, phase, C, target, todo, released) ==
    [conns EXCEPT ![c] = [conns[c] EXCEPT !.phase = phase, !.closed = @ \/ c \in C, !.target = target,
                                          !.todo = todo, !.released = released]]

Moved(c, phase, C, target, todo, released) ==
    /\ conns'[c].inst = conns[c].inst /\ conns'[c].machine = conns[c].machine /\ conns'[c].nodes = conns[c].nodes
    /\ conns'[c].pending = conns[c].pending /\ (conns'[c].contested <=> conns[c].contested)
    /\ conns'[c].phase = phase /\ (conns'[c].closed <=> conns[c].closed \/ c \in C) /\ conns'[c].target = target
    /\ conns'[c].todo = todo /\ conns'[c].released = released
    /\ Own(c)' = Own(c)
    /\ \A d \in Conns \ {c} : Steady(d)

LEMMA TurnedFields ==
    ASSUME HubTypes, NEW c \in Conns, NEW phase \in Phases, NEW C, NEW target \in Nodes \cup {None},
           NEW todo \in SUBSET Keys, NEW released \in SUBSET Nodes,
           conns' = Turned(c, phase, C, target, todo, released)
    PROVE  Moved(c, phase, C, target, todo, released)
  <1> DEFINE r == [conns[c] EXCEPT !.phase = phase, !.closed = @ \/ c \in C, !.target = target, !.todo = todo, !.released = released]
  <1>0. conns \in [Conns -> Conn] /\ conns[c] \in Conn
    BY DEF HubTypes
  <1>1. /\ r.inst = conns[c].inst /\ r.machine = conns[c].machine /\ r.nodes = conns[c].nodes
        /\ r.pending = conns[c].pending /\ (r.contested <=> conns[c].contested)
        /\ r.phase = phase /\ (r.closed <=> conns[c].closed \/ c \in C) /\ r.target = target /\ r.todo = todo /\ r.released = released
    BY <1>0 DEF Conn
  <1>2. conns' = [conns EXCEPT ![c] = r]
    BY DEF Turned
  <1> HIDE DEF r
  <1>3. conns'[c] = r /\ \A d \in Conns \ {c} : conns'[d] = conns[d]
    BY <1>0, <1>2
  <1>4. Own(c)' = Own(c)
    BY <1>1, <1>3 DEF Own
  <1>5. \A d \in Conns \ {c} : Steady(d)
    BY <1>3 DEF Steady, Same
  <1> QED BY <1>1, <1>3, <1>4, <1>5 DEF Moved

LEMMA QuietStays ==
    ASSUME Quiet, UNCHANGED <<net, tasks>>, \A d \in Conns : conns'[d].pending = conns[d].pending
    PROVE  Quiet'
  BY DEF Quiet, Busy

LEMMA OwnInKeys == HubTypes => \A d \in Conns : Own(d) \subseteq Keys
  BY OwnKeys

(* A step of a connection of a hub, as long as it stays there. *)
LEMMA ServedOn ==
    ASSUME HubInv, Calm, Following, NEW c \in Conns, NEW phase \in Live, NEW C, NEW target \in Nodes \cup {None},
           conns' = Turned(c, phase, C, target, conns[c].todo, conns[c].released),
           UNCHANGED <<owner, net, hub, draining, tasks>>,
           conns[c].phase \in Live, phase = "registered" => conns[c].phase = "registered",
           phase \in {"checked", "storing"} => target \in conns[c].nodes,
           phase \in Served /\ ~conns[c].closed => conns[c].phase \in Served \/ Holds(c, Own(c)),
           \A n \in Nodes : \/ devices'[n] = devices[n]
                            \/ devices'[n] = c /\ n \in conns[c].nodes /\ phase \in Served
    PROVE  Following'
  <1>0. HubTypes /\ conns[c] \in Conn /\ Own(c) \subseteq Keys
    BY OwnKeys DEF HubInv, HubTypes
  <1>1. phase \in Phases /\ conns[c].todo \in SUBSET Keys /\ conns[c].released \in SUBSET Nodes
    BY <1>0 DEF Conn, Live, Phases
  <1>2. /\ conns'[c].inst = conns[c].inst /\ conns'[c].machine = conns[c].machine /\ conns'[c].nodes = conns[c].nodes
        /\ conns'[c].pending = conns[c].pending /\ (conns'[c].contested <=> conns[c].contested)
        /\ conns'[c].phase = phase /\ (conns'[c].closed <=> conns[c].closed \/ c \in C) /\ conns'[c].target = target
        /\ conns'[c].todo = conns[c].todo /\ conns'[c].released = conns[c].released
        /\ Own(c)' = Own(c)
        /\ \A d \in Conns \ {c} : Steady(d)
    <2>1. Moved(c, phase, C, target, conns[c].todo, conns[c].released)
      BY <1>0, <1>1, TurnedFields
    <2> QED BY <2>1 DEF Moved
  <1>3. Follows(c)
    BY DEF Following
  <1>4. Quiet'
    <2>1. \A d \in Conns : conns'[d].pending = conns[d].pending
      BY <1>2 DEF Steady, Same
    <2> QED BY <2>1, QuietStays DEF Following
  <1>5. Follows(c)'
    <2>1. Routed(c)'
      <3>1. Routed(c) /\ phase \in Live /\ phase # "unused"
        BY <1>3 DEF Follows, Live
      <3>2. Owns(c)' <=> Owns(c)
        BY <1>2 DEF Owns
      <3>3. conns'[c].phase \in Live /\ (~conns'[c].closed \/ ~conns'[c].contested) => Owns(c)'
        BY <1>2, <3>1, <3>2 DEF Routed
      <3>4. \A i \in Instances, k \in Keys : hub'[i][k] = c => k \in Own(c)'
        BY <1>2, <3>1 DEF Routed
      <3>5. conns'[c].phase \in Live /\ draining'[conns'[c].inst] => conns'[c].closed
        BY <1>2, <3>1 DEF Routed
      <3>6. Own(c)' # {}
        <4>1. conns[c].phase # "unused"
          BY DEF Live
        <4> QED BY <1>2, <3>1, <4>1 DEF Routed
      <3> QED BY <3>3, <3>4, <3>5, <3>6 DEF Routed
    <2>2. Leased(c)'
      <3>1. Leased(c) /\ phase \notin {"unused", "upgraded", "releasing", "withdrawing", "clearing", "ended"}
        BY <1>3 DEF Follows, Live
      <3>2. Holds(c, Own(c))' <=> Holds(c, Own(c))
        BY <1>2 DEF Holds
      <3> QED BY <1>2, <3>1, <3>2 DEF Leased
    <2>3. Stored(c)'
      <3>1. Stored(c) /\ phase \notin {"releasing", "clearing", "ended"} /\ conns[c].phase \notin {"releasing", "clearing", "ended"}
        BY <1>3 DEF Follows, Live
      <3>2. ASSUME NEW n \in Nodes, devices'[n] = c
            PROVE  n \in conns[c].nodes /\ phase \in Served \cup {"leaving"} \cup Gone
        <4>1. CASE devices[n] = c
          <5>1. n \in conns[c].nodes /\ conns[c].phase \in Served \cup {"leaving"} \cup Gone
            BY <3>1, <4>1 DEF Stored
          <5>2. conns[c].phase # "registered"
            BY <5>1 DEF Served, Gone
          <5>3. phase \in Served \cup {"leaving"}
            BY <5>2 DEF Live, Served
          <5> QED BY <5>1, <5>3
        <4>2. CASE n \in conns[c].nodes /\ phase \in Served
          BY <4>2
        <4> QED BY <3>2, <4>1, <4>2
      <3> QED BY <1>2, <3>1, <3>2 DEF Stored
    <2>4. Announced(c)'
      <3> SUFFICES ASSUME phase \in Served, ~conns[c].closed, NEW k \in Own(c) PROVE Told(c, k)'
        BY <1>2 DEF Announced
      <3>1. CASE Holds(c, Own(c))
        BY <3>1 DEF Holds, Told
      <3>2. CASE conns[c].phase \in Served
        <4>1. Told(c, k)
          BY <1>3, <3>2 DEF Follows, Announced
        <4>2. Warned(c, k) => Warned(c, k)'
          BY <1>2, WarnedStays
        <4>3. ASSUME NEW e \in Conns \ {c}, Replacing(e, c, k) PROVE Told(c, k)'
          <5>1. Same(e)
            BY <1>2 DEF Steady
          <5> QED BY <1>2, <4>3, <5>1, ReplacingStays DEF Told
        <4> QED BY <4>1, <4>2, <4>3 DEF Told
      <3> QED BY <3>1, <3>2
    <2> QED BY <2>1, <2>2, <2>3, <2>4 DEF Follows
  <1>6. ASSUME NEW d \in Conns \ {c} PROVE Follows(d)'
    <2>1. Follows(d) /\ Steady(d) /\ Own(d) \subseteq Keys
      BY <1>0, <1>2, OwnKeys DEF Following
    <2>2. \A n \in Nodes : devices'[n] = d => devices[n] = d
      OBVIOUS
    <2>3. Routed(d)' /\ Leased(d)' /\ Stored(d)'
      BY <2>1, <2>2, OthersFollow
    <2>4. \A e \in Conns : conns[e].phase = "claimed" => Same(e)
      BY <1>2 DEF Steady, Live
    <2>5. Announced(d)'
      BY <2>1, <2>4, OthersTold
    <2> QED BY <2>3, <2>5 DEF Follows
  <1> QED BY <1>4, <1>5, <1>6 DEF Following

LEMMA ServeFollows ==
    ASSUME HubInv, Calm, Following, NEW c \in Conns, Serve(c) \/ NotRenewed(c) PROVE Following'
  <1>0. HubTypes /\ conns[c] \in Conn /\ conns \in [Conns -> Conn] /\ Follows(c)
    BY DEF HubInv, HubTypes, Following
  <1>c. Coordinated /\ "redis" \notin faults
    BY DEF Calm
  <1>u. UNCHANGED <<conf, owner, net, hub, draining, tasks, deployment>>
    BY DEF Serve, Hangup, Stop, Receive, Apply, StoreDevices, NotRenewed
  <1>t. /\ conns[c].target \in Nodes \cup {None}
        /\ conns[c].phase \in {"checked", "storing"} => conns[c].target \in conns[c].nodes
        /\ conns[c].nodes \subseteq Nodes
    BY <1>0 DEF Conn, Follows, Stored
  <1>l. {"registered", "reading", "checked", "storing", "leaving"} = Live /\ {"reading", "checked", "storing"} = Served
    BY DEF Live, Served
  <1>1. CASE Hangup(c) \/ NotRenewed(c)
    <2>1. conns' = [conns EXCEPT ![c].closed = TRUE] /\ conns[c].phase \in Live /\ UNCHANGED devices
      BY <1>1 DEF Hangup, NotRenewed, Live
    <2>2. conns' = Turned(c, conns[c].phase, {c}, conns[c].target, conns[c].todo, conns[c].released)
      BY <1>0, <2>1 DEF Turned, Conn
    <2> QED BY <1>t, <1>u, <2>1, <2>2, ServedOn
  <1>2. CASE Stop(c)
    <2>1. conns' = [conns EXCEPT ![c].phase = "leaving"] /\ conns[c].phase = "reading" /\ UNCHANGED devices
      BY <1>2 DEF Stop
    <2>2. conns' = Turned(c, "leaving", {}, conns[c].target, conns[c].todo, conns[c].released)
      BY <1>0, <2>1 DEF Turned, Conn
    <2>3. conns[c].phase \in Live /\ "leaving" \in Live
      BY <2>1 DEF Live
    <2>4. conns[c].phase \in Served
      BY <2>1 DEF Served
    <2> QED BY <1>t, <1>u, <2>1, <2>2, <2>3, <2>4, ServedOn
  <1>3. ASSUME NEW n \in Nodes, Receive(c, n) PROVE Following'
    <2>1. conns[c].phase = "reading" /\ UNCHANGED devices /\ conns[c].phase \in Live /\ conns[c].phase \in Served
          /\ "leaving" \in Live /\ "checked" \in Live
      BY <1>3, <1>l DEF Receive
    <2>2. CASE n \in conns[c].nodes /\ conns' = [conns EXCEPT ![c].phase = "checked", ![c].target = n]
      <3>1. conns' = Turned(c, "checked", {}, n, conns[c].todo, conns[c].released)
        BY <1>0, <2>2 DEF Turned, Conn
      <3> QED BY <1>t, <1>u, <2>1, <2>2, <3>1, ServedOn
    <2>3. CASE conns' = [conns EXCEPT ![c].phase = "leaving", ![c].closed = TRUE]
      <3>1. conns' = Turned(c, "leaving", {c}, conns[c].target, conns[c].todo, conns[c].released)
        BY <1>0, <2>3 DEF Turned, Conn
      <3> QED BY <1>t, <1>u, <2>1, <3>1, ServedOn
    <2> QED BY <1>3, <2>2, <2>3 DEF Receive
  <1>4. CASE Apply(c)
    <2>1. conns[c].phase = "checked" /\ conns[c].phase \in Live /\ conns[c].phase \in Served /\ conns[c].target \in conns[c].nodes
          /\ conns[c].target \in Nodes
      BY <1>4, <1>l, <1>t DEF Apply
    <2>2. CASE conns' = [conns EXCEPT ![c].phase = "storing", ![c].target = conns[c].target] /\ UNCHANGED devices
      <3>1. conns' = Turned(c, "storing", {}, conns[c].target, conns[c].todo, conns[c].released)
        BY <1>0, <2>2 DEF Turned, Conn
      <3> QED BY <1>l, <1>t, <1>u, <2>1, <2>2, <3>1, ServedOn
    <2>3. CASE conns' = [conns EXCEPT ![c].phase = "leaving", ![c].closed = TRUE, ![c].target = None] /\ UNCHANGED devices
      <3>1. conns' = Turned(c, "leaving", {c}, None, conns[c].todo, conns[c].released)
        BY <1>0, <2>3 DEF Turned, Conn
      <3> QED BY <1>l, <1>t, <1>u, <2>1, <2>3, <3>1, ServedOn
    <2>4. \/ conns' = [conns EXCEPT ![c].phase = "storing", ![c].target = conns[c].target] /\ UNCHANGED devices
          \/ conns' = [conns EXCEPT ![c].phase = "leaving", ![c].closed = TRUE, ![c].target = None] /\ UNCHANGED devices
      BY <1>4, <1>c, ZenonT(30) DEF Apply
    <2> QED BY <2>2, <2>3, <2>4
  <1>5. CASE StoreDevices(c)
    <2>1. /\ conns[c].phase = "storing" /\ conns[c].phase \in Live /\ conns[c].phase \in Served /\ conns[c].target \in conns[c].nodes
          /\ devices' = [devices EXCEPT ![conns[c].target] = c]
          /\ conns' = [conns EXCEPT ![c].phase = "reading", ![c].target = None]
      BY <1>5, <1>c, <1>l, <1>t DEF StoreDevices
    <2>2. conns' = Turned(c, "reading", {}, None, conns[c].todo, conns[c].released)
      BY <1>0, <2>1 DEF Turned, Conn
    <2>3. \A n \in Nodes : devices'[n] = devices[n] \/ (devices'[n] = c /\ n \in conns[c].nodes /\ "reading" \in Served)
      <3>1. devices \in [Nodes -> Conns \cup {None}]
        BY <1>0 DEF HubTypes
      <3> QED BY <1>l, <2>1, <3>1
    <2> QED BY <1>l, <1>t, <1>u, <2>1, <2>2, <2>3, ServedOn
  <1> QED BY <1>1, <1>2, <1>3, <1>4, <1>5 DEF Serve

(* The others of a connection that gives something up, or of one that arrives. *)
LEMMA OthersUnmoved ==
    ASSUME HubInv, Following, NEW c \in Conns, Follows(c)', \A d \in Conns \ {c} : Steady(d),
           UNCHANGED <<net, tasks, draining>>, conns'[c].pending = conns[c].pending,
           \A k \in Keys : owner'[k] = owner[k] \/ (owner[k] = c /\ owner'[k] = None),
           \A j \in Instances, k \in Keys : hub'[j][k] = hub[j][k] \/ (hub[j][k] = c /\ hub'[j][k] = None),
           \A n \in Nodes : devices'[n] = devices[n] \/ devices'[n] = None,
           conns[c].phase = "claimed" => draining[conns[c].inst]
    PROVE  Following'
  <1>0. HubTypes /\ None \notin Conns
    BY Constants DEF HubInv
  <1>1. Quiet'
    <2>1. \A d \in Conns : conns'[d].pending = conns[d].pending
      BY DEF Steady, Same
    <2> QED BY <2>1, QuietStays DEF Following
  <1>2. ASSUME NEW d \in Conns \ {c} PROVE Follows(d)'
    <2>1. Follows(d) /\ Steady(d) /\ Own(d) \subseteq Keys /\ d # None
      BY <1>0, OwnKeys DEF Following
    <2>2. \A k \in Keys : owner'[k] = d <=> owner[k] = d
      BY <2>1
    <2>3. \A j \in Instances, k \in Keys : hub'[j][k] = d => hub[j][k] = d
      BY <2>1
    <2>4. \A k \in Own(d) : conns[d].phase \in Live /\ hub[conns[d].inst][k] = d => hub'[conns[d].inst][k] = d
      <3>1. conns[d].phase \in Live => conns[d].inst \in Instances
        BY <1>0, Constants DEF HubInv, HubTypes, Placed, Live
      <3> QED BY <2>1, <3>1
    <2>5. \A n \in Nodes : devices'[n] = d => devices[n] = d
      BY <2>1
    <2>6. Routed(d)' /\ Leased(d)' /\ Stored(d)'
      BY <2>1, <2>2, <2>3, <2>4, <2>5, OthersFollow
    <2>7. Announced(d)'
      <3>1. Own(d)' = Own(d) /\ conns'[d].inst = conns[d].inst
        BY <2>1 DEF Own, Steady, Same
      <3> SUFFICES ASSUME conns'[d].phase \in Served, ~conns'[d].closed, NEW k \in Own(d) PROVE Told(d, k)'
        BY <3>1 DEF Announced
      <3>2. conns[d].phase \in Served /\ ~conns[d].closed /\ Told(d, k) /\ k \in Keys
        BY <2>1 DEF Follows, Announced, Steady, Same
      <3>3. ASSUME NEW e \in Conns \ {d}, Replacing(e, d, k) PROVE Told(d, k)'
        <4>1. CASE e = c
          <5>1. draining[conns[d].inst]
            BY <3>3, <4>1 DEF Replacing
          <5>2. conns[d].phase \in Live
            BY <3>2 DEF Served, Live
          <5>3. Routed(d)
            BY <2>1 DEF Follows
          <5> QED BY <3>2, <5>1, <5>2, <5>3 DEF Routed
        <4>2. CASE e # c
          <5>1. Same(e)
            BY <4>2 DEF Steady
          <5> QED BY <3>1, <3>3, <5>1, ReplacingStays DEF Told
        <4> QED BY <4>1, <4>2
      <3>4. Warned(d, k) => Warned(d, k)'
        BY <3>1, WarnedStays
      <3> QED BY <2>2, <3>2, <3>3, <3>4 DEF Told
    <2> QED BY <2>6, <2>7 DEF Follows
  <1> QED BY <1>1, <1>2 DEF Following

LEMMA AcceptFollows ==
    ASSUME HubInv, Calm, Following, NEW c \in Conns, NEW i \in deployment.instances, Accept(c, i) PROVE Following'
  <1>0. HubTypes /\ conns[c] \in Conn /\ conns \in [Conns -> Conn] /\ Follows(c) /\ conns[c].phase = "unused"
    BY DEF HubInv, HubTypes, Following, Accept
  <1>u. UNCHANGED <<conf, devices, owner, net, hub, draining, tasks, deployment>>
    BY DEF Accept
  <1>1. PICK r : /\ conns' = Put(c, r) /\ r.phase = "upgraded" /\ r.pending = conns[c].pending
                 /\ r.nodes \cup ({r.machine} \ {None}) # {}
    <2>1. CASE \E m \in Machines :
                 conns' = [conns EXCEPT ![c].inst = i, ![c].machine = m, ![c].nodes = NodesOf(m), ![c].phase = "upgraded"]
      <3> PICK m \in Machines :
                 conns' = [conns EXCEPT ![c].inst = i, ![c].machine = m, ![c].nodes = NodesOf(m), ![c].phase = "upgraded"]
        BY <2>1
      <3> DEFINE r == [conns[c] EXCEPT !.inst = i, !.machine = m, !.nodes = NodesOf(m), !.phase = "upgraded"]
      <3>1. r.phase = "upgraded" /\ r.pending = conns[c].pending /\ r.machine = m
        BY <1>0 DEF Conn
      <3>2. conns' = Put(c, r)
        BY <1>0 DEF Put
      <3>3. m # None
        BY Constants
      <3> HIDE DEF r
      <3>4. r.nodes \cup ({r.machine} \ {None}) # {}
        BY <3>1, <3>3
      <3> QED BY <3>1, <3>2, <3>4
    <2>2. CASE \E n \in deployment.legacy :
                 conns' = [conns EXCEPT ![c].inst = i, ![c].nodes = {n}, ![c].phase = "upgraded"]
      <3> PICK n \in deployment.legacy :
                 conns' = [conns EXCEPT ![c].inst = i, ![c].nodes = {n}, ![c].phase = "upgraded"]
        BY <2>2
      <3> DEFINE r == [conns[c] EXCEPT !.inst = i, !.nodes = {n}, !.phase = "upgraded"]
      <3>1. r.phase = "upgraded" /\ r.pending = conns[c].pending /\ r.nodes = {n}
        BY <1>0 DEF Conn
      <3>2. conns' = Put(c, r)
        BY <1>0 DEF Put
      <3> HIDE DEF r
      <3>3. r.nodes \cup ({r.machine} \ {None}) # {}
        BY <3>1
      <3> QED BY <3>1, <3>2, <3>3
    <2> QED BY <2>1, <2>2 DEF Accept
  <1>2. conns'[c] = r /\ \A d \in Conns \ {c} : Steady(d)
    BY <1>0, <1>1 DEF Put, Steady, Same
  <1>3. /\ \A k \in Keys : owner[k] # c
        /\ \A j \in Instances, k \in Keys : hub[j][k] # c
        /\ \A n \in Nodes : devices[n] # c
    <2>1. \A k \in Keys : owner[k] # c
      BY <1>0 DEF Follows, Leased
    <2>2. \A n \in Nodes : devices[n] # c
      BY <1>0 DEF Follows, Stored, Served, Gone
    <2>3. \A j \in Instances, k \in Keys : hub[j][k] # c
      BY <1>0 DEF HubInv, HubGood, Early
    <2> QED BY <2>1, <2>2, <2>3
  <1>4. Follows(c)'
    <2>1. conns'[c].phase = "upgraded" /\ Own(c)' # {}
      BY <1>1, <1>2 DEF Own
    <2>2. conns'[c].phase \notin Live /\ conns'[c].phase \notin Served
      BY <2>1 DEF Live, Served
    <2>3. Routed(c)'
      BY <1>3, <1>u, <2>1, <2>2 DEF Routed
    <2>4. Leased(c)'
      BY <1>3, <1>u, <2>1, <2>2 DEF Leased
    <2>5. Stored(c)'
      BY <1>3, <1>u, <2>1, <2>2 DEF Stored
    <2> QED BY <2>2, <2>3, <2>4, <2>5 DEF Follows, Announced
  <1>5. conns'[c].pending = conns[c].pending
    BY <1>1, <1>2
  <1> QED BY <1>0, <1>2, <1>4, <1>5, <1>u, OthersUnmoved

LEMMA WithdrawFollows ==
    ASSUME HubInv, Calm, Following, NEW c \in Conns, Withdraw(c) PROVE Following'
  <1>0. HubTypes /\ conns[c] \in Conn /\ conns \in [Conns -> Conn] /\ Follows(c) /\ conns[c].phase = "claimed"
    BY DEF HubInv, HubTypes, Following, Withdraw
  <1>u. UNCHANGED <<conf, devices, owner, net, hub, draining, tasks, deployment>> /\ draining[conns[c].inst]
    BY DEF Withdraw
  <1>k. Own(c) \in SUBSET Keys /\ Own(c) # {} /\ "withdrawing" \in Phases
    BY <1>0, OwnKeys, PhaseNames DEF Follows, Routed
  <1>1. conns' = [conns EXCEPT ![c].closed = TRUE, ![c].todo = Own(c), ![c].phase = "withdrawing"]
    BY <1>k DEF Withdraw, ClaimedKeys, Calm
  <1>2. conns' = Turned(c, "withdrawing", {c}, conns[c].target, Own(c), conns[c].released)
    BY <1>0, <1>1 DEF Turned, Conn
  <1>3. conns[c].target \in Nodes \cup {None} /\ conns[c].released \in SUBSET Nodes
    BY <1>0 DEF Conn
  <1>4. /\ conns'[c].pending = conns[c].pending /\ (conns'[c].contested <=> conns[c].contested)
        /\ conns'[c].phase = "withdrawing" /\ conns'[c].todo = Own(c) /\ Own(c)' = Own(c)
        /\ \A d \in Conns \ {c} : Steady(d)
    <2>1. PICK todo \in SUBSET Keys : todo = Own(c) /\ conns' = Turned(c, "withdrawing", {c}, conns[c].target, todo, conns[c].released)
      BY <1>2, <1>k
    <2>2. /\ conns'[c].pending = conns[c].pending /\ (conns'[c].contested <=> conns[c].contested)
          /\ conns'[c].phase = "withdrawing" /\ conns'[c].todo = todo /\ Own(c)' = Own(c)
          /\ \A d \in Conns \ {c} : Steady(d)
      <3>1. Moved(c, "withdrawing", {c}, conns[c].target, todo, conns[c].released)
        BY <1>0, <1>3, <1>k, <2>1, TurnedFields
      <3> QED BY <3>1 DEF Moved
    <2> QED BY <2>1, <2>2
  <1>5. Follows(c)'
    <2>1. conns'[c].phase \notin Live /\ conns'[c].phase \notin Served
      BY <1>4 DEF Live, Served
    <2>2. Routed(c)'
      BY <1>0, <1>4, <1>k, <1>u, <2>1 DEF Follows, Routed
    <2>3. Leased(c)'
      <3>1. Leased(c) /\ (~conns[c].contested => Holds(c, Own(c)))
        BY <1>0 DEF Follows, Leased
      <3> QED BY <1>4, <1>k, <1>u, <2>1, <3>1 DEF Leased, Holds
    <2>4. Stored(c)'
      <3>1. \A n \in Nodes : devices[n] # c
        BY <1>0 DEF Follows, Stored, Served, Gone
      <3> QED BY <1>4, <1>u, <3>1 DEF Stored
    <2> QED BY <2>1, <2>2, <2>3, <2>4 DEF Follows, Announced
  <1> QED BY <1>4, <1>5, <1>u, OthersUnmoved

LEMMA VerifyFollows ==
    ASSUME HubInv, Calm, Following, NEW c \in Conns, Verify(c) PROVE Following'
  <1>0. HubTypes /\ conns[c] \in Conn /\ conns \in [Conns -> Conn] /\ Follows(c) /\ conns[c].phase = "registered"
        /\ conns[c].phase \in Live
    BY DEF HubInv, HubTypes, Following, Verify, Live
  <1>u. UNCHANGED <<conf, devices, owner, net, draining, tasks, deployment>>
    BY DEF Verify
  <1>t. /\ conns[c].target \in Nodes \cup {None} /\ conns[c].released \in SUBSET Nodes /\ conns[c].todo \in SUBSET Keys
        /\ "refused" \in Phases /\ "reading" \in Live
    BY <1>0, PhaseNames DEF Conn, Live
  <1>1. CASE ClaimStands(c) /\ conns' = [conns EXCEPT ![c].phase = "reading"] /\ UNCHANGED hub
    <2>1. Holds(c, Own(c))
      BY <1>1 DEF ClaimStands, Calm
    <2>2. conns' = Turned(c, "reading", {}, conns[c].target, conns[c].todo, conns[c].released)
      BY <1>0, <1>1 DEF Turned, Conn
    <2> QED BY <1>0, <1>1, <1>t, <1>u, <2>1, <2>2, ServedOn
  <1>2. CASE /\ hub' = [hub EXCEPT ![conns[c].inst] = Taken(@, Own(c), c)]
             /\ conns' = [conns EXCEPT ![c].phase = "refused", ![c].closed = TRUE]
    <2>1. conns' = Turned(c, "refused", {c}, conns[c].target, conns[c].todo, conns[c].released)
      BY <1>0, <1>2 DEF Turned, Conn
    <2>2. /\ conns'[c].pending = conns[c].pending /\ conns'[c].phase = "refused" /\ Own(c)' = Own(c)
          /\ \A d \in Conns \ {c} : Steady(d)
      <3>1. Moved(c, "refused", {c}, conns[c].target, conns[c].todo, conns[c].released)
        BY <1>0, <1>t, <2>1, TurnedFields
      <3> QED BY <3>1 DEF Moved
    <2>3. conns[c].inst \in Instances /\ hub' = TakenAt(conns[c].inst, Own(c), c)
      BY <1>0, <1>2, Constants DEF HubInv, HubTypes, Placed, TakenAt
    <2>4. /\ \A j \in Instances, k \in Keys : hub'[j][k] = hub[j][k] \/ hub'[j][k] = None
          /\ \A j \in Instances, k \in Keys : hub'[j][k] # hub[j][k] => j = conns[c].inst /\ k \in Own(c) /\ hub[j][k] = c
      BY <1>0, <2>3, HubTaken
    <2>5. Follows(c)'
      <3>1. conns'[c].phase \notin Live /\ conns'[c].phase \notin Served /\ c # None
        BY <2>2, Constants DEF Live, Served
      <3>2. Routed(c)'
        <4>1. \A j \in Instances, k \in Keys : hub'[j][k] = c => hub[j][k] = c
          BY <2>4, <3>1
        <4>2. Routed(c) /\ conns[c].phase # "unused"
          BY <1>0 DEF Follows
        <4> QED BY <2>2, <3>1, <4>1, <4>2 DEF Routed
      <3>3. Leased(c)'
        <4>1. Leased(c)
          BY <1>0 DEF Follows
        <4> QED BY <1>u, <2>2, <3>1, <4>1 DEF Leased
      <3>4. Stored(c)'
        <4>1. \A n \in Nodes : devices[n] # c
          BY <1>0 DEF Follows, Stored, Served, Gone
        <4> QED BY <1>u, <2>2, <4>1 DEF Stored
      <3> QED BY <3>1, <3>2, <3>3, <3>4 DEF Follows, Announced
    <2>6. conns[c].phase # "claimed"
      BY <1>0
    <2> QED BY <1>u, <2>2, <2>4, <2>5, <2>6, OthersUnmoved
  <1> QED BY <1>1, <1>2 DEF Verify

LEMMA UnregisterFollows ==
    ASSUME HubInv, Calm, Following, NEW c \in Conns, Unregister(c) PROVE Following'
  <1>0. HubTypes /\ conns[c] \in Conn /\ conns \in [Conns -> Conn] /\ Follows(c) /\ conns[c].phase = "leaving"
        /\ conns[c].phase \in Live /\ conns[c].pending = {} /\ c # None
    BY Constants DEF HubInv, HubTypes, Following, Quiet, Unregister, Live
  <1>u. UNCHANGED <<conf, devices, owner, net, draining, tasks, deployment>>
        /\ hub' = TakenAt(conns[c].inst, Current(c), c)
    BY DEF Unregister, TakenAt, Calm
  <1>t. conns[c].target \in Nodes \cup {None} /\ conns[c].released \in SUBSET Nodes
    BY <1>0 DEF Conn
  <1>1. PICK left \in SUBSET Keys : left = Current(c)
    BY <1>0, OwnKeys DEF Current
  <1>2. PICK phase \in {"ended", "releasing"} :
          /\ conns' = Turned(c, phase, {c}, conns[c].target, left, conns[c].released)
          /\ phase = "ended" <=> left = {}
    <2>1. Current(c) \cup conns[c].pending = left
      BY <1>0, <1>1
    <2>2. CASE left = {}
      <3>1. conns' = [conns EXCEPT ![c].closed = TRUE, ![c].pending = {}, ![c].todo = left, ![c].phase = "ended"]
        BY <2>1, <2>2 DEF Unregister, Calm
      <3>2. conns' = Turned(c, "ended", {c}, conns[c].target, left, conns[c].released)
        BY <1>0, <3>1 DEF Turned, Conn
      <3> QED BY <2>2, <3>2
    <2>3. CASE left # {}
      <3>1. conns' = [conns EXCEPT ![c].closed = TRUE, ![c].pending = {}, ![c].todo = left, ![c].phase = "releasing"]
        BY <2>1, <2>3 DEF Unregister, Calm
      <3>2. conns' = Turned(c, "releasing", {c}, conns[c].target, left, conns[c].released)
        BY <1>0, <3>1 DEF Turned, Conn
      <3> QED BY <2>3, <3>2
    <2> QED BY <2>2, <2>3
  <1>3. phase \in Phases /\ phase \in Gone /\ phase \notin Live /\ phase \notin Served
        /\ phase \notin {"unused", "upgraded", "clearing", "withdrawing", "checked", "storing"}
    BY PhaseNames DEF Gone, Live, Served
  <1>4. /\ conns'[c].pending = conns[c].pending /\ (conns'[c].contested <=> conns[c].contested)
        /\ conns'[c].phase = phase /\ conns'[c].todo = left /\ Own(c)' = Own(c) /\ conns'[c].nodes = conns[c].nodes
        /\ \A d \in Conns \ {c} : Steady(d)
    <2>1. Moved(c, phase, {c}, conns[c].target, left, conns[c].released)
      <3>1. phase \in Phases /\ left \in SUBSET Keys /\ conns' = Turned(c, phase, {c}, conns[c].target, left, conns[c].released)
        BY <1>1, <1>2, <1>3
      <3> QED BY <1>0, <1>t, <3>1, TurnedFields
    <2> QED BY <2>1 DEF Moved
  <1>5. conns[c].inst \in Instances
    BY <1>0, Constants DEF HubInv, HubTypes, Placed
  <1>6. /\ \A j \in Instances, k \in Keys : hub'[j][k] = hub[j][k] \/ hub'[j][k] = None
        /\ \A j \in Instances, k \in Keys : hub'[j][k] # hub[j][k] => j = conns[c].inst /\ k \in Current(c) /\ hub[j][k] = c
    BY <1>0, <1>5, <1>u, HubTaken
  <1>7. ~conns[c].contested => left = Own(c) /\ phase = "releasing" /\ Holds(c, Own(c)) /\ conns[c].nodes \subseteq left
    <2> SUFFICES ASSUME ~conns[c].contested PROVE left = Own(c) /\ phase = "releasing" /\ Holds(c, Own(c)) /\ conns[c].nodes \subseteq left
      OBVIOUS
    <2>1. Owns(c) /\ Own(c) # {}
      BY <1>0 DEF Follows, Routed
    <2>2. Holds(c, Own(c))
      BY <1>0 DEF Follows, Leased
    <2>3. left = Own(c)
      BY <1>1, <2>1 DEF Current, Owns
    <2>4. conns[c].nodes \subseteq Own(c)
      BY DEF Own
    <2> QED BY <1>2, <2>1, <2>2, <2>3, <2>4
  <1>8. Follows(c)'
    <2>1. Routed(c)'
      <3>1. \A j \in Instances, k \in Keys : hub'[j][k] = c => hub[j][k] = c
        BY <1>0, <1>6
      <3>2. Routed(c) /\ conns[c].phase # "unused"
        BY <1>0 DEF Follows
      <3> QED BY <1>3, <1>4, <3>1, <3>2 DEF Routed
    <2>2. Leased(c)'
      <3>1. Leased(c)
        BY <1>0 DEF Follows
      <3>2. \A k \in Keys : owner'[k] = c => k \in Own(c)' /\ conns'[c].phase \notin {"unused", "upgraded"}
        BY <1>3, <1>4, <1>u, <3>1 DEF Leased
      <3>3. ~conns'[c].contested => conns'[c].phase = "releasing" /\ \A k \in Keys : owner'[k] = c <=> k \in conns'[c].todo
        BY <1>4, <1>7, <1>u, <3>2 DEF Holds
      <3>4. "releasing" \notin Live \cup {"claimed"}
        BY DEF Live
      <3> QED BY <3>2, <3>3, <3>4 DEF Leased
    <2>3. Stored(c)'
      <3>1. Stored(c)
        BY <1>0 DEF Follows
      <3>2. \A n \in Nodes : devices'[n] = c => n \in conns'[c].nodes /\ conns'[c].phase \in Served \cup {"leaving"} \cup Gone
        BY <1>3, <1>4, <1>u, <3>1 DEF Stored
      <3>3. ~conns'[c].contested => conns'[c].phase = "releasing" /\ conns'[c].nodes \subseteq conns'[c].todo \cup conns'[c].released
        BY <1>4, <1>7
      <3> QED BY <1>3, <1>4, <3>2, <3>3 DEF Stored
    <2> QED BY <1>3, <1>4, <2>1, <2>2, <2>3 DEF Follows, Announced
  <1>9. \A j \in Instances, k \in Keys : hub'[j][k] = hub[j][k] \/ (hub[j][k] = c /\ hub'[j][k] = None)
    BY <1>6
  <1>10. conns[c].phase # "claimed"
    BY <1>0
  <1> QED BY <1>4, <1>8, <1>9, <1>10, <1>u, OthersUnmoved

LEMMA ReleaseFollows ==
    ASSUME HubInv, Calm, Following, NEW c \in Conns, Release(c) PROVE Following'
  <1>0. HubTypes /\ conns[c] \in Conn /\ conns \in [Conns -> Conn] /\ Follows(c) /\ conns[c].phase \in {"releasing", "withdrawing"}
        /\ conns[c].pending = {} /\ c # None
    BY Constants DEF HubInv, HubTypes, Following, Quiet, Release
  <1>u. UNCHANGED <<conf, devices, net, hub, draining, tasks, deployment>>
    BY DEF Release
  <1>t. conns[c].target \in Nodes \cup {None} /\ conns[c].released \in SUBSET Nodes /\ conns[c].todo \in SUBSET Keys
    BY <1>0 DEF Conn
  <1>1. PICK k \in Keys, done \in SUBSET Nodes :
          /\ k \in conns[c].todo /\ done = conns[c].released \cup Freed(c, k)
          /\ ReleaseKey(c, k)
          /\ conns' = [conns EXCEPT
                      ![c].todo = conns[c].todo \ {k},
                      ![c].released = IF conns[c].todo \ {k} = {} /\ conns[c].phase = "withdrawing" THEN {} ELSE done,
                      ![c].phase = IF conns[c].todo \ {k} # {} THEN @
                                   ELSE IF done = {} \/ @ = "withdrawing" THEN "ended" ELSE "clearing"]
    <2>1. \A k : Freed(c, k) \in SUBSET Nodes
      BY DEF Freed
    <2>2. \A k : ~ReleaseFails(c, k)
      BY DEF ReleaseFails, Calm
    <2>3. PICK k \in Releasable(conns[c].todo) : ReleaseKey(c, k)
            /\ conns' = [conns EXCEPT
                      ![c].todo = conns[c].todo \ {k},
                      ![c].released = IF conns[c].todo \ {k} = {} /\ conns[c].phase = "withdrawing"
                                      THEN {} ELSE conns[c].released \cup Freed(c, k),
                      ![c].phase = IF conns[c].todo \ {k} # {} THEN @
                                   ELSE IF conns[c].released \cup Freed(c, k) = {} \/ @ = "withdrawing" THEN "ended" ELSE "clearing"]
      BY <2>2 DEF Release
    <2>4. PICK done \in SUBSET Nodes : done = conns[c].released \cup Freed(c, k)
      BY <1>t, <2>1
    <2>5. k \in conns[c].todo /\ k \in Keys
      BY <1>t DEF Releasable
    <2>6. conns' = [conns EXCEPT
                      ![c].todo = conns[c].todo \ {k},
                      ![c].released = IF conns[c].todo \ {k} = {} /\ conns[c].phase = "withdrawing" THEN {} ELSE done,
                      ![c].phase = IF conns[c].todo \ {k} # {} THEN @
                                   ELSE IF done = {} \/ @ = "withdrawing" THEN "ended" ELSE "clearing"]
      BY <2>3, <2>4, Zenon
    <2> QED BY <2>3, <2>4, <2>5, <2>6, Zenon
  <1>2. PICK todo \in SUBSET Keys, released \in SUBSET Nodes, phase \in Phases :
          /\ todo = conns[c].todo \ {k}
          /\ conns' = Turned(c, phase, {}, conns[c].target, todo, released)
          /\ todo # {} => phase = conns[c].phase /\ released = done
          /\ todo = {} /\ conns[c].phase = "withdrawing" => phase = "ended"
          /\ todo = {} /\ conns[c].phase = "releasing" =>
                 released = done /\ ((done = {} /\ phase = "ended") \/ phase = "clearing")
    <2> DEFINE todo == conns[c].todo \ {k}
               released == IF todo = {} /\ conns[c].phase = "withdrawing" THEN {} ELSE done
               phase == IF todo # {} THEN conns[c].phase
                        ELSE IF done = {} \/ conns[c].phase = "withdrawing" THEN "ended" ELSE "clearing"
    <2>1. conns' = [conns EXCEPT ![c].todo = todo, ![c].released = released, ![c].phase = phase]
      BY <1>0, <1>1
    <2>2. todo \in SUBSET Keys /\ released \in SUBSET Nodes /\ phase \in Phases
      BY <1>0, <1>t, PhaseNames
    <2>3. /\ todo # {} => phase = conns[c].phase /\ released = done
          /\ todo = {} /\ conns[c].phase = "withdrawing" => phase = "ended"
          /\ todo = {} /\ conns[c].phase = "releasing" =>
                 released = done /\ ((done = {} /\ phase = "ended") \/ phase = "clearing")
      OBVIOUS
    <2>a. PICK t, d, p : t = todo /\ d = released /\ p = phase
      OBVIOUS
    <2> HIDE DEF todo, released, phase
    <2>b. conns' = [conns EXCEPT ![c].todo = t, ![c].released = d, ![c].phase = p]
      BY <2>1, <2>a
    <2>c. conns' = Turned(c, p, {}, conns[c].target, t, d)
      BY <1>0, <2>b DEF Turned, Conn
    <2>4. conns' = Turned(c, phase, {}, conns[c].target, todo, released)
      BY <2>a, <2>c
    <2>5. todo = conns[c].todo \ {k}
      BY DEF todo
    <2> QED BY <2>2, <2>3, <2>4, <2>5
  <1>3. /\ conns'[c].pending = conns[c].pending /\ (conns'[c].contested <=> conns[c].contested)
        /\ conns'[c].phase = phase /\ conns'[c].todo = todo /\ Own(c)' = Own(c) /\ conns'[c].nodes = conns[c].nodes
        /\ conns'[c].released = released
        /\ \A d \in Conns \ {c} : Steady(d)
    <2>1. conns' = Turned(c, phase, {}, conns[c].target, todo, released)
          /\ phase \in Phases /\ todo \in SUBSET Keys /\ released \in SUBSET Nodes
      BY <1>2
    <2>2. Moved(c, phase, {}, conns[c].target, todo, released)
      BY <1>0, <1>t, <2>1, TurnedFields
    <2> QED BY <2>2 DEF Moved
  <1>4. \A x \in Keys : owner'[x] = IF x = k /\ owner[x] = c THEN None ELSE owner[x]
    BY <1>1 DEF ReleaseKey, Taken
  <1>5. phase \in {"releasing", "withdrawing", "clearing", "ended"} /\ (conns[c].phase = "releasing" => phase \in Gone)
        /\ (conns[c].phase = "withdrawing" => phase \in {"withdrawing", "ended"})
    BY <1>0, <1>2 DEF Gone
  <1>6. phase \notin Live /\ phase \notin Served /\ phase \notin {"unused", "upgraded", "claimed"}
    BY <1>5 DEF Live, Served
  <1>7. Follows(c)'
    <2>1. Routed(c)'
      <3>1. Routed(c) /\ conns[c].phase # "unused"
        BY <1>0 DEF Follows
      <3> QED BY <1>u, <1>3, <1>6, <3>1 DEF Routed
    <2>2. Leased(c)'
      <3>1. Leased(c)
        BY <1>0 DEF Follows
      <3>2. \A x \in Keys : owner'[x] = c => x \in Own(c) /\ owner[x] = c /\ x # k
        BY <1>0, <1>4, <3>1 DEF Leased
      <3>3. ~conns[c].contested => \A x \in Keys : owner'[x] = c <=> x \in todo
        <4>1. ~conns[c].contested => \A x \in Keys : owner[x] = c <=> x \in conns[c].todo
          BY <1>0, <3>1 DEF Leased
        <4> QED BY <1>0, <1>2, <1>4, <4>1
      <3>4. phase \in {"clearing", "ended"} => todo = {}
        BY <1>0, <1>2
      <3> QED BY <1>3, <1>6, <3>2, <3>3, <3>4 DEF Leased
    <2>3. Stored(c)'
      <3>1. Stored(c)
        BY <1>0 DEF Follows
      <3>2. CASE conns[c].phase = "withdrawing"
        <4>1. \A n \in Nodes : devices[n] # c
          BY <3>1, <3>2 DEF Stored, Served, Gone
        <4>2. phase \in {"withdrawing", "ended"}
          BY <1>5, <3>2
        <4> QED BY <1>3, <1>u, <4>1, <4>2 DEF Stored
      <3>3. CASE conns[c].phase = "releasing"
        <4>1. \A n \in Nodes : devices'[n] = c => n \in conns'[c].nodes /\ conns'[c].phase \in Served \cup {"leaving"} \cup Gone
          BY <1>3, <1>5, <1>u, <3>1, <3>3 DEF Stored
        <4>2. ~conns[c].contested => conns[c].nodes \subseteq todo \cup done
          <5> SUFFICES ASSUME ~conns[c].contested, NEW n \in conns[c].nodes, n \notin todo PROVE n \in done
            OBVIOUS
          <5>1. n \in conns[c].todo \cup conns[c].released /\ n \in Nodes
            BY <1>0, <3>1, <3>3 DEF Stored, Conn
          <5>2. owner[k] = c
            BY <1>0, <1>1, <3>3 DEF Follows, Leased
          <5>3. CASE n = k
            BY <1>1, <5>1, <5>2, <5>3 DEF Freed
          <5>4. CASE n # k
            BY <1>1, <1>2, <5>1, <5>4
          <5> QED BY <5>3, <5>4
        <4>3. phase \in {"releasing", "clearing"} => released = done
          BY <1>2, <3>3
        <4>4. phase = "ended" => todo = {} /\ done = {}
          BY <1>2, <3>3
        <4>5. phase = "clearing" => todo = {}
          BY <1>2, <3>3
        <4>6. ~conns[c].contested /\ phase = "ended" => \A n \in Nodes : devices'[n] # c
          BY <1>3, <4>1, <4>2, <4>4
        <4> QED BY <1>3, <1>5, <4>1, <4>2, <4>3, <4>5, <4>6 DEF Stored
      <3> QED BY <1>0, <3>2, <3>3
    <2> QED BY <1>3, <1>6, <2>1, <2>2, <2>3 DEF Follows, Announced
  <1>8. \A x \in Keys : owner'[x] = owner[x] \/ (owner[x] = c /\ owner'[x] = None)
    BY <1>4
  <1>9. conns[c].phase # "claimed"
    BY <1>0
  <1> QED BY <1>3, <1>7, <1>8, <1>9, <1>u, OthersUnmoved

LEMMA ClearFollows ==
    ASSUME HubInv, Calm, Following, NEW c \in Conns, Clear(c) PROVE Following'
  <1>0. HubTypes /\ conns[c] \in Conn /\ conns \in [Conns -> Conn] /\ Follows(c) /\ conns[c].phase = "clearing" /\ c # None
    BY Constants DEF HubInv, HubTypes, Following, Clear
  <1>u. UNCHANGED <<conf, owner, net, hub, draining, tasks, deployment>>
    BY DEF Clear
  <1>t. conns[c].target \in Nodes \cup {None} /\ conns[c].todo \in SUBSET Keys /\ {} \in SUBSET Nodes /\ "ended" \in Phases
    BY <1>0, PhaseNames DEF Conn
  <1>1. devices' = Cleared(conns[c].released) /\ conns' = [conns EXCEPT ![c].phase = "ended", ![c].released = {}]
    BY DEF Clear, Calm
  <1>2. conns' = Turned(c, "ended", {}, conns[c].target, conns[c].todo, {})
    BY <1>0, <1>1 DEF Turned, Conn
  <1>3. /\ conns'[c].pending = conns[c].pending /\ (conns'[c].contested <=> conns[c].contested)
        /\ conns'[c].phase = "ended" /\ Own(c)' = Own(c) /\ conns'[c].nodes = conns[c].nodes
        /\ \A d \in Conns \ {c} : Steady(d)
    <2>1. Moved(c, "ended", {}, conns[c].target, conns[c].todo, {})
      BY <1>0, <1>2, <1>t, TurnedFields
    <2> QED BY <2>1 DEF Moved
  <1>4. \A n \in Nodes : devices'[n] = IF n \in conns[c].released THEN None ELSE devices[n]
    BY <1>1 DEF Cleared
  <1>5. "ended" \notin Live \cup {"claimed"} /\ "ended" \notin Served /\ "ended" \in Gone
    BY DEF Live, Served, Gone
  <1>6. Follows(c)'
    <2>1. Routed(c)'
      <3>1. Routed(c) /\ conns[c].phase # "unused"
        BY <1>0 DEF Follows
      <3> QED BY <1>u, <1>3, <1>5, <3>1 DEF Routed
    <2>2. Leased(c)'
      <3>1. Leased(c)
        BY <1>0 DEF Follows
      <3> QED BY <1>0, <1>u, <1>3, <1>5, <3>1 DEF Leased
    <2>3. Stored(c)'
      <3>1. Stored(c)
        BY <1>0 DEF Follows
      <3>2. \A n \in Nodes : devices'[n] = c => n \in conns[c].nodes /\ devices[n] = c /\ n \notin conns[c].released
        BY <1>0, <1>4, <3>1 DEF Stored
      <3>3. ~conns[c].contested => conns[c].nodes \subseteq conns[c].released
        BY <1>0, <3>1 DEF Stored
      <3> QED BY <1>3, <1>5, <3>2, <3>3 DEF Stored
    <2> QED BY <1>3, <1>5, <2>1, <2>2, <2>3 DEF Follows, Announced
  <1>7. \A n \in Nodes : devices'[n] = devices[n] \/ devices'[n] = None
    BY <1>4
  <1>8. conns[c].phase # "claimed"
    BY <1>0
  <1> QED BY <1>3, <1>6, <1>7, <1>8, <1>u, OthersUnmoved

LEMMA MarksTold ==
    ASSUME HubTypes, NEW C, NEW D, NEW d \in Conns
    PROVE  /\ Marked(C, D)[d].closed <=> conns[d].closed \/ d \in C
           /\ Marked(C, D)[d].contested <=> conns[d].contested \/ d \in D
  <1>1. conns[d] \in Conn
    BY DEF HubTypes
  <1> QED BY <1>1 DEF Marked, Conn

LEMMA MarkedSteady ==
    ASSUME HubTypes, NEW C, NEW D, conns' = Marked(C, D), NEW d \in Conns
    PROVE  /\ Steady(d)
           /\ (conns'[d].closed <=> conns[d].closed \/ d \in C)
           /\ (conns'[d].contested <=> conns[d].contested \/ d \in D)
  <1>1. /\ conns'[d].inst = conns[d].inst /\ conns'[d].machine = conns[d].machine
        /\ conns'[d].nodes = conns[d].nodes /\ conns'[d].phase = conns[d].phase
        /\ conns'[d].pending = conns[d].pending /\ conns'[d].todo = conns[d].todo
        /\ conns'[d].target = conns[d].target /\ conns'[d].released = conns[d].released
    BY MarkedSame
  <1>2. /\ (conns'[d].closed <=> conns[d].closed \/ d \in C)
        /\ (conns'[d].contested <=> conns[d].contested \/ d \in D)
    BY MarksTold
  <1> QED BY <1>1, <1>2 DEF Steady, Same

(* Marks on the others, a new phase for c. *)
Proceeded(c, phase, C, D) ==
    /\ conns'[c].inst = conns[c].inst /\ conns'[c].pending = conns[c].pending /\ conns'[c].nodes = conns[c].nodes
    /\ conns'[c].phase = phase /\ Own(c)' = Own(c)
    /\ conns'[c].contested <=> conns[c].contested
    /\ \A d \in Conns \ {c} : /\ Steady(d)
                              /\ (conns'[d].closed <=> conns[d].closed \/ d \in C)
                              /\ (conns'[d].contested <=> conns[d].contested \/ d \in D)

LEMMA PhasedSteady ==
    ASSUME HubTypes, NEW C, NEW D, NEW c \in Conns \ (C \cup D), NEW phase \in Phases, conns' = Phased(Marked(C, D), c, phase)
    PROVE  Proceeded(c, phase, C, D)
  <1> DEFINE M == Marked(C, D)
             r == [M[c] EXCEPT !.phase = phase]
  <1>1. M \in [Conns -> Conn] /\ M[c].inst = conns[c].inst /\ M[c].machine = conns[c].machine /\ M[c].nodes = conns[c].nodes
        /\ M[c].pending = conns[c].pending
    BY MarkedSame
  <1>2. \A d \in Conns : (M[d].closed <=> conns[d].closed \/ d \in C) /\ (M[d].contested <=> conns[d].contested \/ d \in D)
    BY MarksTold
  <1>3. \A d \in Conns :
           /\ M[d].inst = conns[d].inst /\ M[d].machine = conns[d].machine
           /\ M[d].nodes = conns[d].nodes /\ M[d].phase = conns[d].phase
           /\ M[d].pending = conns[d].pending /\ M[d].todo = conns[d].todo
           /\ M[d].target = conns[d].target /\ M[d].released = conns[d].released
    BY MarkedSame
  <1>4. conns' = [M EXCEPT ![c].phase = phase]
    BY DEF Phased
  <1> HIDE DEF M
  <1>5. /\ r.inst = M[c].inst /\ r.machine = M[c].machine /\ r.nodes = M[c].nodes /\ r.pending = M[c].pending /\ r.phase = phase
        /\ (r.contested <=> M[c].contested)
    BY <1>1 DEF Conn
  <1>6. conns' = [M EXCEPT ![c] = r]
    BY <1>1, <1>4
  <1> HIDE DEF r
  <1>7. conns'[c] = r /\ \A d \in Conns \ {c} : conns'[d] = M[d]
    BY <1>1, <1>6
  <1>8. Own(c)' = Own(c)
    BY <1>1, <1>5, <1>7 DEF Own
  <1>9. ASSUME NEW d \in Conns \ {c}
        PROVE  /\ Steady(d)
               /\ (conns'[d].closed <=> conns[d].closed \/ d \in C)
               /\ (conns'[d].contested <=> conns[d].contested \/ d \in D)
    BY <1>2, <1>3, <1>7 DEF Steady, Same
  <1> QED BY <1>1, <1>2, <1>5, <1>7, <1>8, <1>9 DEF Proceeded

(* Announcements in a queue. *)
LEMMA WarnedAppended ==
    ASSUME NEW d \in Conns, NEW k, NEW i \in Instances, i = conns[d].inst, conns'[d].inst = i,
           NEW e \in Announcements, net \in [Instances -> Seq(Announcements)], net'[i] = Append(net[i], e)
    PROVE  /\ Warned(d, k) => Warned(d, k)'
           /\ k \in e.keys /\ e.conn # d => Warned(d, k)'
  <1>1. net[i] \in Seq(Announcements)
    OBVIOUS
  <1>2. /\ Len(net'[i]) = Len(net[i]) + 1 /\ Len(net[i]) \in Nat
        /\ \A x \in 1 .. Len(net[i]) : net'[i][x] = net[i][x]
        /\ net'[i][Len(net[i]) + 1] = e
    BY <1>1
  <1>3. ASSUME Warned(d, k) PROVE Warned(d, k)'
    <2>1. PICK x \in 1 .. Len(net[i]) : net[i][x].kind = "replacement" /\ k \in net[i][x].keys /\ net[i][x].conn # d
      BY <1>3 DEF Warned
    <2>2. x \in 1 .. Len(net'[i]) /\ net'[i][x] = net[i][x]
      BY <1>2
    <2> QED BY <2>1, <2>2 DEF Warned
  <1>4. ASSUME k \in e.keys, e.conn # d PROVE Warned(d, k)'
    <2>1. e.kind = "replacement"
      BY DEF Announcements
    <2>2. Len(net[i]) + 1 \in 1 .. Len(net'[i])
      BY <1>2
    <2> QED BY <1>2, <1>4, <2>1, <2>2 DEF Warned
  <1> QED BY <1>3, <1>4

LEMMA WarnedTail ==
    ASSUME NEW d \in Conns, NEW k, NEW i \in Instances, i = conns[d].inst, conns'[d].inst = i,
           net \in [Instances -> Seq(Announcements)], net[i] # <<>>, net'[i] = Tail(net[i]), Warned(d, k)
    PROVE  Warned(d, k)' \/ (k \in Head(net[i]).keys /\ Head(net[i]).conn # d)
  <1>1. net[i] \in Seq(Announcements)
    OBVIOUS
  <1>2. PICK x \in 1 .. Len(net[i]) : net[i][x].kind = "replacement" /\ k \in net[i][x].keys /\ net[i][x].conn # d
    BY DEF Warned
  <1>3. CASE x = 1
    BY <1>1, <1>2, <1>3
  <1>4. CASE x # 1
    <2>1. x - 1 \in 1 .. Len(net'[i]) /\ net'[i][x - 1] = net[i][x]
      BY <1>1, <1>4
    <2> QED BY <1>2, <2>1 DEF Warned
  <1> QED BY <1>3, <1>4

LEMMA ClaimFollows ==
    ASSUME HubInv, Calm, Following, NEW c \in Conns, Claim(c) PROVE Following'
  <1>0. HubTypes /\ conns[c] \in Conn /\ conns \in [Conns -> Conn] /\ Follows(c) /\ conns[c].phase = "upgraded" /\ c # None
        /\ "claimed" \in Phases
    BY Constants, PhaseNames DEF HubInv, HubTypes, Following, Claim
  <1>u. UNCHANGED <<conf, devices, hub, draining, tasks, deployment>>
    BY DEF Claim
  <1>i. PICK i \in Instances : i = conns[c].inst
    BY <1>0, Constants DEF HubInv, HubTypes, Placed
  <1>e. PICK e \in Announcements : e = Replacement(Own(c), c) /\ e.keys = Own(c) /\ e.conn = c
    <2>1. Own(c) \in SUBSET Keys
      BY <1>0, OwnKeys
    <2>2. /\ Replacement(Own(c), c) \in Announcements
          /\ Replacement(Own(c), c).keys = Own(c) /\ Replacement(Own(c), c).conn = c
      BY <2>1 DEF Replacement, Announcements
    <2> QED BY <2>2
  <1>1. /\ owner' = Given(owner, Own(c), c) /\ net' = Sent(net, i, e)
        /\ conns' = Phased(Marked({}, Rivals(c, Own(c))), c, "claimed")
    BY <1>i, <1>e DEF Claim, Calm, Phased
  <1>2. Own(c) \subseteq Keys
    BY <1>0, OwnKeys
  <1>3. PICK D : D = Rivals(c, Own(c)) /\ c \notin D
    <2>1. c \notin Rivals(c, Own(c))
      BY DEF Rivals
    <2> QED BY <2>1
  <1>4. /\ conns'[c].inst = conns[c].inst /\ conns'[c].pending = conns[c].pending /\ conns'[c].nodes = conns[c].nodes
        /\ conns'[c].phase = "claimed" /\ Own(c)' = Own(c)
        /\ \A d \in Conns \ {c} : /\ Steady(d)
                                  /\ (conns'[d].contested <=> conns[d].contested \/ d \in D)
    <2>1. conns' = Phased(Marked({}, D), c, "claimed")
      BY <1>1, <1>3
    <2>2. Proceeded(c, "claimed", {}, D)
      BY <1>0, <1>3, <2>1, PhasedSteady
    <2> QED BY <2>2 DEF Proceeded
  <1>5. \A k \in Keys : owner'[k] = IF k \in Own(c) THEN c ELSE owner[k]
    BY <1>1 DEF Given
  <1>6. /\ net \in [Instances -> Seq(Announcements)]
        /\ \A j \in Instances : net'[j] = IF j = i THEN net[j] ELSE Append(net[j], e)
        /\ net' \in [Instances -> Seq(Announcements)]
    <2>1. net \in [Instances -> Seq(Announcements)]
      BY DEF Following, Quiet
    <2>2. \A j \in Instances : net'[j] = IF j = i THEN net[j] ELSE Append(net[j], e)
      BY <1>1 DEF Sent, Full, Calm
    <2>3. net' = [j \in Instances |-> net'[j]]
      BY <1>1 DEF Sent
    <2>4. ASSUME NEW j \in Instances PROVE net'[j] \in Seq(Announcements)
      <3>1. net[j] \in Seq(Announcements) /\ Append(net[j], e) \in Seq(Announcements)
        BY <1>e, <2>1
      <3> QED BY <2>2, <3>1
    <2> QED BY <2>1, <2>2, <2>3, <2>4
  <1>7. Quiet'
    <2>1. \A d \in Conns : conns'[d].pending = conns[d].pending
      BY <1>4 DEF Steady, Same
    <2> QED BY <1>6, <1>u, <2>1 DEF Following, Quiet, Busy
  <1>8. Follows(c)'
    <2>1. "claimed" \notin Live /\ "claimed" \notin Served
      BY DEF Live, Served
    <2>2. Routed(c)'
      <3>1. Routed(c)
        BY <1>0 DEF Follows
      <3> QED BY <1>0, <1>4, <1>u, <2>1, <3>1 DEF Routed
    <2>3. Leased(c)'
      <3>1. Leased(c)
        BY <1>0 DEF Follows
      <3>2. \A k \in Keys : owner'[k] = c => k \in Own(c)
        BY <1>5, <3>1 DEF Leased
      <3>3. Holds(c, Own(c))'
        BY <1>2, <1>4, <1>5 DEF Holds
      <3> QED BY <1>4, <3>2, <3>3 DEF Leased
    <2>4. Stored(c)'
      <3>1. \A n \in Nodes : devices[n] # c
        BY <1>0 DEF Follows, Stored, Served, Gone
      <3> QED BY <1>4, <1>u, <3>1 DEF Stored
    <2> QED BY <1>4, <2>1, <2>2, <2>3, <2>4 DEF Follows, Announced
  <1>9. ASSUME NEW d \in Conns \ {c} PROVE Follows(d)'
    <2>1. Follows(d) /\ Steady(d) /\ Own(d) \subseteq Keys /\ (conns'[d].contested <=> conns[d].contested \/ d \in D)
      BY <1>0, <1>4, OwnKeys DEF Following
    <2>2. \A k \in Keys : owner'[k] = d => owner[k] = d
      BY <1>5
    <2>3. ASSUME NEW k \in Keys, owner[k] = d
          PROVE  owner'[k] = d \/ conns'[d].contested \/ conns[d].phase \in Over
      <3>1. k \in Own(d) /\ conns[d].phase \notin {"unused", "upgraded"}
        BY <2>1, <2>3 DEF Follows, Leased
      <3>2. CASE k \in Own(c) /\ conns[d].phase \notin Over
        <4>1. d \in Rivals(c, Own(c))
          BY <3>1, <3>2 DEF Rivals
        <4> QED BY <1>3, <2>1, <4>1
      <3>3. CASE k \notin Own(c)
        BY <1>5, <2>3, <3>3
      <3> QED BY <3>2, <3>3
    <2>4. Routed(d)' /\ Leased(d)' /\ Stored(d)'
      BY <1>u, <2>1, <2>2, <2>3, OthersFollow
    <2>5. Announced(d)'
      <3>1. Own(d)' = Own(d) /\ conns'[d].inst = conns[d].inst
        BY <2>1 DEF Own, Steady, Same
      <3> SUFFICES ASSUME conns'[d].phase \in Served, ~conns'[d].closed, NEW k \in Own(d) PROVE Told(d, k)'
        BY <3>1 DEF Announced
      <3>2. conns[d].phase \in Served /\ Told(d, k) /\ k \in Keys
        BY <2>1 DEF Follows, Announced, Steady, Same
      <3>3. PICK j \in Instances : j = conns[d].inst
        BY <1>0, <3>2, Constants DEF HubInv, HubTypes, Placed, Served
      <3>4. CASE owner[k] = d
        <4>1. CASE k \notin Own(c)
          BY <1>5, <3>2, <3>4, <4>1 DEF Told
        <4>2. CASE k \in Own(c) /\ j = i
          <5>1. Replacing(c, d, k)'
            BY <1>4, <3>1, <3>3, <1>i, <4>2 DEF Replacing
          <5> QED BY <5>1 DEF Told
        <4>3. CASE k \in Own(c) /\ j # i
          <5>1. net'[j] = Append(net[j], e)
            BY <1>6, <4>3
          <5>2. Warned(d, k)'
            <6>1. k \in e.keys /\ e.conn # d
              BY <1>e, <4>3
            <6>2. conns'[d].inst = j
              BY <3>1, <3>3
            <6> QED BY <1>6, <3>3, <5>1, <6>1, <6>2, WarnedAppended
          <5> QED BY <5>2 DEF Told
        <4> QED BY <4>1, <4>2, <4>3
      <3>5. CASE Warned(d, k)
        <4>1. CASE j = i
          <5>1. net'[conns[d].inst] = net[conns[d].inst]
            BY <1>6, <3>3, <4>1
          <5> QED BY <3>1, <3>5, <5>1, WarnedStays DEF Told
        <4>2. CASE j # i
          <5>1. net'[j] = Append(net[j], e)
            BY <1>6, <4>2
          <5> QED BY <1>e, <1>6, <3>1, <3>3, <3>5, <5>1, WarnedAppended DEF Told
        <4> QED BY <4>1, <4>2
      <3>6. ASSUME NEW f \in Conns \ {d}, Replacing(f, d, k) PROVE Told(d, k)'
        <4>1. f # c
          BY <1>0, <3>6 DEF Replacing
        <4>2. Same(f)
          BY <1>4, <4>1 DEF Steady
        <4> QED BY <3>1, <3>6, <4>2, ReplacingStays DEF Told
      <3> QED BY <3>2, <3>4, <3>5, <3>6 DEF Told
    <2> QED BY <2>4, <2>5 DEF Follows
  <1> QED BY <1>7, <1>8, <1>9 DEF Following

LEMMA RegisterFollows ==
    ASSUME HubInv, Calm, Following, NEW c \in Conns, Register(c) PROVE Following'
  <1>0. HubTypes /\ conns[c] \in Conn /\ conns \in [Conns -> Conn] /\ Follows(c) /\ conns[c].phase = "claimed" /\ c # None
        /\ "registered" \in Phases /\ Own(c) \subseteq Keys
    BY Constants, PhaseNames, OwnKeys DEF HubInv, HubTypes, Following, Register
  <1>i. PICK i \in Instances : i = conns[c].inst
    BY <1>0, Constants DEF HubInv, HubTypes, Placed
  <1>1. PICK C, D :
           /\ C = {hub[i][k] : k \in Own(c)} \ {None, c} /\ D = Rivals(c, Own(c))
           /\ c \notin C /\ c \notin D
           /\ conns' = Phased(Marked(C, D), c, "registered")
    <2> DEFINE C == {hub[i][k] : k \in Own(c)} \ {None, c}
    <2>1. conns' = Phased(Marked(C, Rivals(c, Own(c))), c, "registered")
      BY <1>i DEF Register, Phased
    <2>2. c \notin C /\ c \notin Rivals(c, Own(c))
      BY DEF Rivals
    <2> QED BY <2>1, <2>2
  <1>u. UNCHANGED <<conf, devices, owner, net, draining, tasks, deployment>> /\ ~draining[i]
        /\ hub' = [hub EXCEPT ![i] = Given(@, Own(c), c)]
    BY <1>i DEF Register
  <1>2. \A j \in Instances, k \in Keys : hub'[j][k] = IF j = i /\ k \in Own(c) THEN c ELSE hub[j][k]
    <2>1. hub \in [Instances -> [Keys -> Conns \cup {None}]]
      BY <1>0 DEF HubTypes
    <2>2. \A k \in Keys : Given(hub[i], Own(c), c)[k] = IF k \in Own(c) THEN c ELSE hub[i][k]
      BY DEF Given
    <2> QED BY <1>u, <2>1, <2>2
  <1>3. /\ conns'[c].inst = conns[c].inst /\ conns'[c].pending = conns[c].pending /\ conns'[c].nodes = conns[c].nodes
        /\ conns'[c].phase = "registered" /\ Own(c)' = Own(c) /\ (conns'[c].contested <=> conns[c].contested)
        /\ \A d \in Conns \ {c} : /\ Steady(d)
                                  /\ (conns'[d].closed <=> conns[d].closed \/ d \in C)
                                  /\ (conns'[d].contested <=> conns[d].contested \/ d \in D)
    <2>1. Proceeded(c, "registered", C, D)
      BY <1>0, <1>1, PhasedSteady
    <2> QED BY <2>1 DEF Proceeded
  <1>4. Quiet'
    <2>1. \A d \in Conns : conns'[d].pending = conns[d].pending
      BY <1>3 DEF Steady, Same
    <2> QED BY <1>u, <2>1, QuietStays DEF Following
  <1>5. Follows(c)'
    <2>1. "registered" \in Live /\ "registered" \notin Served
      BY DEF Live, Served
    <2>2. Routed(c)'
      <3>1. Routed(c)
        BY <1>0 DEF Follows
      <3>2. Owns(c)'
        BY <1>0, <1>2, <1>3, <1>i DEF Owns
      <3>3. \A j \in Instances, k \in Keys : hub'[j][k] = c => k \in Own(c)
        BY <1>2, <3>1 DEF Routed
      <3>4. ~draining'[conns'[c].inst]
        BY <1>3, <1>i, <1>u
      <3>5. Own(c) # {}
        BY <1>0, <3>1 DEF Routed
      <3> QED BY <1>3, <3>2, <3>3, <3>4, <3>5 DEF Routed
    <2>3. Leased(c)'
      <3>1. Leased(c)
        BY <1>0 DEF Follows
      <3>2. \A k \in Keys : owner'[k] = c => k \in Own(c)
        BY <1>u, <3>1 DEF Leased
      <3>3. ~conns[c].contested => Holds(c, Own(c))'
        BY <1>0, <1>3, <1>u, <3>1 DEF Leased, Holds
      <3> QED BY <1>3, <3>2, <3>3 DEF Leased
    <2>4. Stored(c)'
      <3>1. \A n \in Nodes : devices[n] # c
        BY <1>0 DEF Follows, Stored, Served, Gone
      <3> QED BY <1>3, <1>u, <3>1 DEF Stored
    <2> QED BY <1>3, <2>1, <2>2, <2>3, <2>4 DEF Follows, Announced
  <1>6. ASSUME NEW d \in Conns \ {c} PROVE Follows(d)'
    <2>1. Follows(d) /\ Steady(d) /\ Own(d) \subseteq Keys /\ (conns'[d].contested <=> conns[d].contested \/ d \in D)
          /\ (conns'[d].closed <=> conns[d].closed \/ d \in C) /\ d # None
      BY <1>0, <1>3, OwnKeys, Constants DEF Following
    <2>2. \A j \in Instances, k \in Keys : hub'[j][k] = d => hub[j][k] = d
      BY <1>2
    <2>3. ASSUME NEW k \in Own(d), conns[d].phase \in Live, hub[conns[d].inst][k] = d
          PROVE  hub'[conns[d].inst][k] = d \/ (conns'[d].closed /\ conns'[d].contested)
      <3>1. conns[d].inst \in Instances /\ k \in Keys
        BY <1>0, <2>1, <2>3, Constants DEF HubInv, HubTypes, Placed, Live
      <3>2. CASE conns[d].inst = i /\ k \in Own(c)
        <4>1. d \in C
          BY <1>1, <2>1, <2>3, <3>2
        <4>2. conns[d].phase \notin Over \cup {"upgraded"}
          BY <2>3 DEF Live, Over
        <4>3. d \in D
          BY <1>1, <2>3, <3>2, <4>2 DEF Rivals
        <4> QED BY <2>1, <4>1, <4>3
      <3>3. CASE ~(conns[d].inst = i /\ k \in Own(c))
        BY <1>2, <2>3, <3>1, <3>3
      <3> QED BY <3>2, <3>3
    <2>4. Routed(d)' /\ Leased(d)' /\ Stored(d)'
      BY <1>u, <2>1, <2>2, <2>3, OthersFollow
    <2>5. Announced(d)'
      <3>1. Own(d)' = Own(d) /\ conns'[d].inst = conns[d].inst
        BY <2>1 DEF Own, Steady, Same
      <3> SUFFICES ASSUME conns'[d].phase \in Served, ~conns'[d].closed, NEW k \in Own(d) PROVE Told(d, k)'
        BY <3>1 DEF Announced
      <3>2. conns[d].phase \in Served /\ ~conns[d].closed /\ Told(d, k) /\ k \in Keys
        BY <2>1 DEF Follows, Announced, Steady, Same
      <3>3. conns[d].phase \in Live
        BY <3>2 DEF Served, Live
      <3>4. hub[conns[d].inst][k] = d
        BY <2>1, <3>2, <3>3 DEF Follows, Routed, Owns
      <3>5. ~Replacing(c, d, k)
        <4> SUFFICES ASSUME conns[d].inst = i, k \in Own(c) PROVE FALSE
          BY <1>i DEF Replacing
        <4>1. d \in C
          BY <1>1, <2>1, <3>4
        <4> QED BY <2>1, <4>1
      <3>6. ASSUME NEW f \in Conns \ {d}, Replacing(f, d, k) PROVE Told(d, k)'
        <4>1. Same(f)
          BY <1>3, <3>5, <3>6 DEF Steady
        <4> QED BY <3>1, <3>6, <4>1, ReplacingStays DEF Told
      <3>7. Warned(d, k) => Warned(d, k)'
        BY <1>u, <3>1, WarnedStays
      <3> QED BY <1>u, <3>2, <3>6, <3>7 DEF Told
    <2> QED BY <2>4, <2>5 DEF Follows
  <1> QED BY <1>4, <1>5, <1>6 DEF Following

LEMMA EventFollows ==
    ASSUME HubInv, Calm, Following, NEW i \in Instances, HandleEvent(i) PROVE Following'
  <1>0. HubTypes /\ net \in [Instances -> Seq(Announcements)] /\ net[i] # <<>>
    BY DEF HubInv, Following, Quiet, HandleEvent
  <1>1. PICK e \in Announcements : e = Head(net[i])
    <2>1. net[i] \in Seq(Announcements)
      BY <1>0
    <2> QED BY <1>0, <2>1
  <1>2. PICK C : C = {hub[i][k] : k \in e.keys} \ {None, e.conn} /\ conns' = Marked(C, {})
    <2>1. e.kind # "machine_nodes"
      BY DEF Announcements
    <2> QED BY <1>1, <2>1 DEF HandleEvent
  <1>3. UNCHANGED <<conf, devices, owner, hub, draining, tasks, deployment>> /\ net' = [net EXCEPT ![i] = Tail(@)]
    <2>1. e.kind # "machine_nodes"
      BY DEF Announcements
    <2> QED BY <1>1, <2>1 DEF HandleEvent
  <1>4. \A d \in Conns : Steady(d) /\ (conns'[d].closed <=> conns[d].closed \/ d \in C)
    BY <1>0, <1>2, MarkedSteady
  <1>5. Quiet'
    <2>1. net' \in [Instances -> Seq(Announcements)]
      <3>1. net[i] \in Seq(Announcements)
        BY <1>0
      <3>2. Tail(net[i]) \in Seq(Announcements)
        BY <1>0, <3>1
      <3> QED BY <1>0, <1>3, <3>2
    <2> QED BY <1>3, <1>4, <2>1 DEF Following, Quiet, Busy, Steady, Same
  <1>6. ASSUME NEW d \in Conns PROVE Follows(d)'
    <2>1. Follows(d) /\ Steady(d) /\ Own(d) \subseteq Keys /\ (conns'[d].closed <=> conns[d].closed \/ d \in C) /\ d # None
      BY <1>0, <1>4, OwnKeys, Constants DEF Following
    <2>2. Routed(d)' /\ Leased(d)' /\ Stored(d)'
      BY <1>3, <2>1, OthersFollow
    <2>3. Announced(d)'
      <3>1. Own(d)' = Own(d) /\ conns'[d].inst = conns[d].inst
        BY <2>1 DEF Own, Steady, Same
      <3> SUFFICES ASSUME conns'[d].phase \in Served, ~conns'[d].closed, NEW k \in Own(d) PROVE Told(d, k)'
        BY <3>1 DEF Announced
      <3>2. conns[d].phase \in Served /\ ~conns[d].closed /\ Told(d, k) /\ k \in Keys
        BY <2>1 DEF Follows, Announced, Steady, Same
      <3>3. conns[d].phase \in Live
        BY <3>2 DEF Served, Live
      <3>4. hub[conns[d].inst][k] = d
        BY <2>1, <3>2, <3>3 DEF Follows, Routed, Owns
      <3>5. PICK j \in Instances : j = conns[d].inst
        BY <1>0, <3>3, Constants DEF HubInv, HubTypes, Placed, Live
      <3>6. ASSUME Warned(d, k) PROVE Warned(d, k)'
        <4>1. CASE j # i
          <5>1. net'[j] = net[j]
            BY <1>0, <1>3, <4>1
          <5> QED BY <3>1, <3>5, <3>6, <5>1, WarnedStays
        <4>2. CASE j = i
          <5>1. net'[j] = Tail(net[j]) /\ net[j] # <<>> /\ conns'[d].inst = j
            BY <1>0, <1>3, <3>1, <3>5, <4>2
          <5>2. Warned(d, k)' \/ (k \in Head(net[j]).keys /\ Head(net[j]).conn # d)
            BY <1>0, <3>5, <3>6, <5>1, WarnedTail
          <5>3. ~(k \in e.keys /\ e.conn # d)
            <6> SUFFICES ASSUME k \in e.keys, e.conn # d PROVE FALSE
              OBVIOUS
            <6>1. d \in C
              BY <1>2, <2>1, <3>4, <3>5, <4>2
            <6> QED BY <2>1, <6>1
          <5> QED BY <1>1, <4>2, <5>2, <5>3
        <4> QED BY <4>1, <4>2
      <3>7. ASSUME NEW f \in Conns \ {d}, Replacing(f, d, k) PROVE Told(d, k)'
        <4>1. Same(f)
          BY <1>4 DEF Steady
        <4> QED BY <3>1, <3>7, <4>1, ReplacingStays DEF Told
      <3> QED BY <1>3, <3>2, <3>6, <3>7 DEF Told
    <2> QED BY <2>2, <2>3 DEF Follows
  <1> QED BY <1>5, <1>6 DEF Following

LEMMA DrainFollows ==
    ASSUME HubInv, Calm, Following, NEW i \in Instances, Drain(i) PROVE Following'
  <1>0. HubTypes
    BY DEF HubInv
  <1>1. PICK C : C = {hub[i][k] : k \in Keys} \ {None} /\ conns' = Marked(C, {})
    BY DEF Drain
  <1>2. UNCHANGED <<conf, devices, owner, net, hub, tasks, deployment>> /\ draining' = [draining EXCEPT ![i] = TRUE]
    BY DEF Drain
  <1>3. \A d \in Conns : Steady(d) /\ (conns'[d].closed <=> conns[d].closed \/ d \in C)
    BY <1>0, <1>1, MarkedSteady
  <1>4. Quiet'
    <2>1. \A d \in Conns : conns'[d].pending = conns[d].pending
      BY <1>3 DEF Steady, Same
    <2> QED BY <1>2, <2>1, QuietStays DEF Following
  <1>5. ASSUME NEW d \in Conns PROVE Follows(d)'
    <2>1. Follows(d) /\ Steady(d) /\ Own(d) \subseteq Keys /\ (conns'[d].closed <=> conns[d].closed \/ d \in C) /\ d # None
      BY <1>0, <1>3, OwnKeys, Constants DEF Following
    <2>2. ASSUME conns[d].phase \in Live, draining'[conns[d].inst]
          PROVE  draining[conns[d].inst] \/ conns'[d].closed
      <3>1. CASE conns[d].inst = i /\ ~conns[d].closed
        <4>1. Owns(d) /\ Own(d) # {}
          BY <2>1, <2>2, <3>1 DEF Follows, Routed, Live
        <4>2. PICK k \in Own(d) : hub[i][k] = d
          BY <3>1, <4>1 DEF Owns
        <4>3. d \in C
          BY <1>1, <2>1, <4>2
        <4> QED BY <2>1, <4>3
      <3>2. CASE conns[d].closed
        BY <2>1, <3>2
      <3>3. CASE conns[d].inst # i
        BY <1>0, <1>2, <2>2, <3>3 DEF HubTypes
      <3> QED BY <3>1, <3>2, <3>3
    <2>3. Routed(d)' /\ Leased(d)' /\ Stored(d)'
      BY <1>2, <2>1, <2>2, OthersFollow
    <2>4. \A e \in Conns : Same(e)
      BY <1>3 DEF Steady
    <2>5. Announced(d)'
      BY <1>2, <2>1, <2>4, OthersTold
    <2> QED BY <2>3, <2>5 DEF Follows
  <1> QED BY <1>4, <1>5 DEF Following

LEMMA RestartFollows ==
    ASSUME HubInv, Calm, Following, NEW i \in Instances, Restart(i) PROVE Following'
  <1>0. HubTypes /\ conns \in [Conns -> Conn] /\ None \notin Conns
    BY Constants DEF HubInv, HubTypes
  <1>u. UNCHANGED <<conf, devices, owner, deployment>>
    BY DEF Restart
  <1>1. \A d \in Conns : Steady(d)
    <2>1. ASSUME NEW d \in Conns PROVE Steady(d)
      <3>1. conns[d] \in Conn /\ conns[d].pending = {}
        BY <1>0 DEF Following, Quiet
      <3>2. conns'[d] = [conns[d] EXCEPT !.pending = {}] \/ conns'[d] = conns[d]
        BY DEF Restart
      <3>3. CASE conns'[d] = conns[d]
        BY <3>3 DEF Steady, Same
      <3>4. CASE conns'[d] = [conns[d] EXCEPT !.pending = {}]
        BY <3>1, <3>4 DEF Steady, Same, Conn
      <3> QED BY <3>2, <3>3, <3>4
    <2> QED BY <2>1
  <1>2. \A d \in Conns : conns[d].inst = i => conns[d].phase \in Over
    BY DEF Restart
  <1>3. /\ \A k \in Keys : hub'[i][k] = None
        /\ \A r \in Threads : tasks'[i][r] = Idle
        /\ ~draining'[i]
        /\ net' = [net EXCEPT ![i] = <<>>]
        /\ \A j \in Instances \ {i} : hub'[j] = hub[j] /\ tasks'[j] = tasks[j] /\ draining'[j] = draining[j] /\ net'[j] = net[j]
    BY <1>0 DEF Restart, Emptied, HubTypes
  <1>4. Quiet'
    <2>1. net' \in [Instances -> Seq(Announcements)]
      <3>1. net \in [Instances -> Seq(Announcements)]
        BY DEF Following, Quiet
      <3>2. <<>> \in Seq(Announcements)
        OBVIOUS
      <3> QED BY <1>3, <3>1, <3>2
    <2>2. ASSUME NEW j \in Instances, NEW r \in Threads PROVE ~Busy(j, r)'
      <3>1. CASE j = i
        BY <1>3, <3>1 DEF Busy, Idle
      <3>2. CASE j # i
        BY <1>3, <3>2 DEF Busy, Following, Quiet
      <3> QED BY <3>1, <3>2
    <2>3. \A d \in Conns : conns'[d].pending = {}
      BY <1>1 DEF Steady, Same, Following, Quiet
    <2> QED BY <2>1, <2>2, <2>3 DEF Quiet
  <1>5. ASSUME NEW d \in Conns PROVE Follows(d)'
    <2>1. Follows(d) /\ Steady(d) /\ Own(d) \subseteq Keys /\ d # None
      BY <1>0, <1>1, OwnKeys DEF Following
    <2>2. conns[d].phase \in Live => conns[d].inst \in Instances \ {i}
      <3>1. conns[d].phase \in Live => conns[d].phase \notin Over
        BY DEF Live, Over
      <3> QED BY <1>0, <1>2, <3>1, Constants DEF HubInv, HubTypes, Placed, Live
    <2>3. \A j \in Instances, k \in Keys : hub'[j][k] = d => hub[j][k] = d
      BY <1>3, <2>1
    <2>4. \A k \in Own(d) : conns[d].phase \in Live /\ hub[conns[d].inst][k] = d => hub'[conns[d].inst][k] = d
      BY <1>3, <2>2
    <2>5. conns[d].phase \in Live /\ draining'[conns[d].inst] => draining[conns[d].inst]
      BY <1>3, <2>2
    <2>6. Routed(d)' /\ Leased(d)' /\ Stored(d)'
      BY <1>u, <2>1, <2>3, <2>4, <2>5, OthersFollow
    <2>7. Announced(d)'
      <3>1. Own(d)' = Own(d) /\ conns'[d].inst = conns[d].inst
        BY <2>1 DEF Own, Steady, Same
      <3> SUFFICES ASSUME conns'[d].phase \in Served, ~conns'[d].closed, NEW k \in Own(d) PROVE Told(d, k)'
        BY <3>1 DEF Announced
      <3>2. conns[d].phase \in Served /\ ~conns[d].closed /\ Told(d, k) /\ k \in Keys
        BY <2>1 DEF Follows, Announced, Steady, Same
      <3>3. conns[d].phase \in Live
        BY <3>2 DEF Served, Live
      <3>4. net'[conns[d].inst] = net[conns[d].inst]
        BY <1>3, <2>2, <3>3
      <3>5. Warned(d, k) => Warned(d, k)'
        BY <3>1, <3>4, WarnedStays
      <3>6. ASSUME NEW f \in Conns \ {d}, Replacing(f, d, k) PROVE Told(d, k)'
        <4>1. Same(f)
          BY <1>1 DEF Steady
        <4> QED BY <3>1, <3>6, <4>1, ReplacingStays DEF Told
      <3> QED BY <1>u, <3>2, <3>5, <3>6 DEF Told
    <2> QED BY <2>6, <2>7 DEF Follows
  <1> QED BY <1>4, <1>5 DEF Following

LEMMA StutterFollows ==
    ASSUME Following, UNCHANGED vars PROVE Following'
  <1>1. Quiet'
    BY DEF vars, Following, Quiet, Busy
  <1>2. ASSUME NEW d \in Conns PROVE Follows(d)'
    <2>0. Follows(d) /\ UNCHANGED <<conf, devices, owner, net, hub, draining, conns, tasks>>
      BY DEF Following, vars
    <2>1. Routed(d)'
      BY <2>0 DEF Follows, Routed, Owns, Own
    <2>2. Leased(d)'
      BY <2>0 DEF Follows, Leased, Holds, Own
    <2>3. Stored(d)'
      BY <2>0 DEF Follows, Stored
    <2>4. Announced(d)'
      BY <2>0 DEF Follows, Announced, Told, Warned, Replacing, Own
    <2> QED BY <2>1, <2>2, <2>3, <2>4 DEF Follows
  <1> QED BY <1>1, <1>2 DEF Following

(* No step changes the deployment. *)
LEMMA SameDeployment == [Next]_vars => UNCHANGED deployment
  <1> SUFFICES ASSUME [Next]_vars PROVE UNCHANGED deployment
    OBVIOUS
  <1>1. ASSUME NEW c \in Conns, Handshake(c) PROVE UNCHANGED deployment
    BY <1>1 DEF Handshake, Accept, Claim, Register, Withdraw, Verify
  <1>2. ASSUME NEW c \in Conns, Serve(c) PROVE UNCHANGED deployment
    BY <1>2 DEF Serve, Hangup, Stop, Receive, Apply, StoreDevices
  <1>3. ASSUME NEW c \in Conns, Depart(c) \/ Renew(c) \/ RenewFails(c) PROVE UNCHANGED deployment
    BY <1>3 DEF Depart, Unregister, Release, Clear, Renew, RenewFails, NotRenewed
  <1>4. ASSUME NEW i \in Instances, NEW r \in Threads, Synchronise(i, r) PROVE UNCHANGED deployment
    BY <1>4 DEF Synchronise, Purge, Snapshot, Pick, ClaimNodes, Install, ReleaseRemoved, ClearRemoved, Retry
  <1>5. ASSUME NEW i, NEW m, Reconcile(i, m) PROVE UNCHANGED deployment
    BY <1>5 DEF Reconcile
  <1>6. ASSUME NEW i, HandleEvent(i) \/ LoseEvent(i) \/ Drain(i) \/ Restart(i) \/ Crash(i) PROVE UNCHANGED deployment
    BY <1>6 DEF HandleEvent, LoseEvent, Drain, Restart, Crash
  <1>7. ASSUME NEW i, Administer(i) PROVE UNCHANGED deployment
    BY <1>7 DEF Administer, AssignNode, UnassignNode, DisconnectMachine
  <1>8. ASSUME NEW k, Expire(k) PROVE UNCHANGED deployment
    BY <1>8 DEF Expire
  <1>9. CASE UNCHANGED vars
    BY <1>9 DEF vars
  <1> QED BY <1>1, <1>2, <1>3, <1>4, <1>5, <1>6, <1>7, <1>8, <1>9 DEF Next

LEMMA FollowInvNext == HubInv /\ FollowInv /\ [Next]_vars => FollowInv'
  <1> SUFFICES ASSUME HubInv, FollowInv, [Next]_vars, Calm' PROVE Following'
    BY DEF FollowInv
  <1>0. Calm /\ Following
    BY SameDeployment DEF Calm, Coordinated, Roles, faults, FollowInv
  <1>i. deployment.instances \subseteq Instances
    BY Constants DEF HubInv, HubTypes
  <1>1. ASSUME NEW c \in Conns, Handshake(c) PROVE Following'
    BY <1>0, <1>1, AcceptFollows, ClaimFollows, RegisterFollows, WithdrawFollows, VerifyFollows DEF Handshake
  <1>2. ASSUME NEW c \in Conns, Serve(c) \/ Depart(c) \/ Renew(c) \/ RenewFails(c) PROVE Following'
    BY <1>0, <1>2, ServeFollows, UnregisterFollows, ReleaseFollows, ClearFollows DEF Depart, Renew, RenewFails
  <1>3. ASSUME NEW i \in Instances, NEW r \in Threads, Synchronise(i, r) PROVE FALSE
    <2>1. tasks[i][r].pc = "idle"
      BY <1>0 DEF Following, Quiet, Busy
    <2> QED BY <1>3, <2>1 DEF Synchronise, Purge, Snapshot, Pick, ClaimNodes, Install, ReleaseRemoved, ClearRemoved, Retry
  <1>4. ASSUME NEW i, NEW m, Reconcile(i, m) PROVE FALSE
    BY <1>0, <1>4 DEF Reconcile, Calm
  <1>5. ASSUME NEW i \in deployment.instances, HandleEvent(i) \/ Drain(i) \/ Restart(i) PROVE Following'
    BY <1>0, <1>5, <1>i, EventFollows, DrainFollows, RestartFollows
  <1>6. ASSUME NEW i, LoseEvent(i) \/ Administer(i) \/ Crash(i) PROVE FALSE
    BY <1>0, <1>6 DEF LoseEvent, Administer, AssignNode, UnassignNode, DisconnectMachine, Crash, Calm
  <1>7. ASSUME NEW k, Expire(k) PROVE FALSE
    BY <1>0, <1>7 DEF Expire, Calm
  <1>8. CASE UNCHANGED vars
    BY <1>0, <1>8, StutterFollows
  <1> QED BY <1>1, <1>2, <1>3, <1>4, <1>5, <1>6, <1>7, <1>8 DEF Next

(* Panels that share a working Redis, with machines and legacy agents, drains, restarts and revoked credentials:      *)
(* whoever loses a lease while it is served is told by an event on its way to it or by the connection about to        *)
(* register in its hub (the check after register in webSocket), and a connection nobody competed with leaves no       *)
(* lease, no hub entry and no device snapshot (unregisterAndClear, releaseUnregisteredClaim).                         *)
THEOREM LeasesStayFollowed == Spec => []LeasesFollowed
  <1>1. Init => FollowInv
    BY FollowInvInit
  <1>2. HubInv /\ FollowInv /\ [Next]_vars => FollowInv'
    BY FollowInvNext
  <1>3. HubInv /\ FollowInv => LeasesFollowed
    <2> SUFFICES ASSUME HubInv, Following PROVE LossAnnounced /\ NothingLeft
      BY DEF FollowInv, LeasesFollowed, Calm
    <2>1. LossAnnounced
      BY LossesAnnounced DEF Following, Follows
    <2>2. NothingLeft
      <3> SUFFICES ASSUME NEW c \in Conns, conns[c].phase = "ended", ~conns[c].contested
                   PROVE  /\ \A k \in Keys : owner[k] # c
                          /\ \A k \in Keys, i \in Instances : hub[i][k] # c
                          /\ \A n \in Nodes : devices[n] # c
        BY DEF NothingLeft
      <3>1. \A k \in Keys : owner[k] # c
        BY DEF Following, Follows, Leased
      <3>2. \A k \in Keys, i \in Instances : hub[i][k] # c
        <4> SUFFICES ASSUME NEW k \in Keys, NEW i \in Instances, hub[i][k] = c PROVE FALSE
          OBVIOUS
        <4>1. k \in Own(c)
          BY DEF Following, Follows, Routed
        <4>2. conns[c].phase \in Live
          BY <4>1 DEF HubInv, HubGood
        <4> QED BY <4>2 DEF Live
      <3>3. \A n \in Nodes : devices[n] # c
        BY DEF Following, Follows, Stored
      <3> QED BY <3>1, <3>2, <3>3
    <2> QED BY <2>1, <2>2
  <1> QED BY <1>1, <1>2, <1>3, HubAlways, PTL DEF Spec
=============================================================================
