---------------------------- MODULE DeviceState ----------------------------
(***************************************************************************)
(* Device state: which addresses each user is online from, kept in Redis   *)
(* by node, and the count of them kept in the database.  Several panels    *)
(* replace and clear entries at once; a step is one round trip to Redis,   *)
(* and an operation may fail after any of them.                            *)
(*                                                                         *)
(* Three indexes follow the entries: the addresses per user and node       *)
(* (fields), the users of a node and the nodes of a user.  A replacement   *)
(* is fenced by the node's generation.  The count is written at most once  *)
(* per throttle period; what comes too early is put off to a flush, and    *)
(* another flush is due when the first entry counted ends.                 *)
(***************************************************************************)
EXTENDS Integers, FiniteSets, FiniteSetsExt

CONSTANTS
    Guests,         \* users
    Relays,         \* nodes
    Phones,         \* addresses
    Panels,         \* operations in progress, of all panels
    Window,         \* OnlineWindow
    Throttle,       \* databaseThrottle
    Patience,       \* how long an operation may take
    LastTick,       \* bound: the last moment
    MaxCalls,       \* bound: operations that change entries
    MaxFailures     \* bound: operations that fail half-way

ASSUME DeviceConstants ==
    /\ {Window, Throttle} \subseteq Nat \ {0} /\ {LastTick, MaxCalls, MaxFailures} \subseteq Nat
    /\ Patience \in 0..(Throttle - 1)

VARIABLES
    devices,        \* entries of a user: node, address, when it was seen
    fields,         \* addresses per user and node
    nodeUsers, userNodes,
    generation,     \* fence of each node
    throttled,      \* until when a user's count may not be written
    pending, expiring,  \* when a flush is due
    online,         \* users.online_count
    panels,         \* what each operation is doing
    tick, calls, failures,
    dropped         \* users whose change an operation left without a count (ghost)

deviceVars == <<devices, fields, nodeUsers, userNodes, generation, throttled, pending, expiring, online,
                panels, tick, calls, failures, dropped>>
entryVars == <<devices, fields, nodeUsers, userNodes>>
summaryVars == <<throttled, pending, expiring, online>>
boundVars == <<tick, calls, failures>>

Unset == -1
Ready == [at |-> "ready"]
LiveAt(u, now) == {e \in devices[u] : e.seen > now - Window}
OnlineAt(u, now) == {e.phone : e \in LiveAt(u, now)}

Goes(p, next) == panels' = [panels EXCEPT ![p] = next]
Begins(p, next) == panels[p] = Ready /\ Goes(p, next)
Notify(us, now, flush) == IF us = {} THEN Ready ELSE [at |-> "reserve", who |-> us, now |-> now, flush |-> flush]

------------------------------------------------------------------------------
\* Replacing and clearing entries.
bumpNodeGeneration(n) == generation' = [generation EXCEPT ![n] = @ + 1]
Called == calls < MaxCalls /\ calls' = calls + 1 /\ UNCHANGED <<tick, failures>>

ReplaceNodeDevices(p, n, seen, all) ==
    /\ Called /\ bumpNodeGeneration(n)
    /\ Begins(p, [at |-> IF all THEN "scan" ELSE "script", node |-> n, gen |-> generation'[n], clear |-> FALSE,
                  todo |-> seen, who |-> DOMAIN seen, now |-> tick])
    /\ UNCHANGED <<entryVars, summaryVars, dropped>>

ClearNodeDevices(p, n) ==
    /\ Called /\ bumpNodeGeneration(n)
    /\ Begins(p, [at |-> "scan", node |-> n, gen |-> generation'[n], clear |-> TRUE,
                  todo |-> [u \in {} |-> {}], who |-> {}, now |-> tick])
    /\ UNCHANGED <<entryVars, summaryVars, dropped>>

\* The users the node's index lists and the report does not are emptied.
scanSetIDs(p) ==
    LET w == panels[p]
        us == DOMAIN w.todo \cup nodeUsers[w.node]
    IN  /\ w.at = "scan"
        /\ Goes(p, [w EXCEPT !.at = "script", !.who = IF w.clear THEN {} ELSE us,
                             !.todo = [u \in us |-> IF u \in DOMAIN w.todo THEN w.todo[u] ELSE {}]])
        /\ UNCHANGED <<entryVars, generation, summaryVars, boundVars, dropped>>

Without(f, u) == [x \in (DOMAIN f) \ {u} |-> f[x]]

\* One user's script.  A generation that moved on stops the operation: a replacement fails as it
\* stands, a clearing goes on to count those it emptied.
replaceNodeDevicesScript(p) ==
    LET w == panels[p]
        n == w.node
    IN  /\ w.at = "script" /\ DOMAIN w.todo # {}
        /\ IF generation[n] # w.gen
           THEN /\ Goes(p, IF w.clear THEN Notify(w.who, w.now, {}) ELSE Ready)
                /\ dropped' = IF w.clear THEN dropped ELSE dropped \cup w.who
                /\ UNCHANGED entryVars
           ELSE LET u == CHOOSE x \in DOMAIN w.todo : TRUE
                    ips == w.todo[u]
                    old == {e \in devices[u] : e.node = n /\ e.phone \in fields[u][n]}
                IN  /\ devices' = [devices EXCEPT ![u] =
                            {e \in @ \ old : e.node # n \/ e.phone \notin ips}
                            \cup {[node |-> n, phone |-> i, seen |-> w.now] : i \in ips}]
                    /\ fields' = [fields EXCEPT ![u][n] = ips]
                    /\ nodeUsers' = [nodeUsers EXCEPT ![n] = IF ips = {} THEN @ \ {u} ELSE @ \cup {u}]
                    /\ userNodes' = [userNodes EXCEPT ![u] = IF ips = {} THEN @ \ {n} ELSE @ \cup {n}]
                    /\ Goes(p, [w EXCEPT !.todo = Without(@, u),
                                         !.who = IF w.clear /\ old # {} THEN @ \cup {u} ELSE @])
                    /\ UNCHANGED dropped
        /\ UNCHANGED <<generation, summaryVars, boundVars>>

\* After the last script a clearing deletes the node's index, and the counts follow.
ScriptsDone(p) ==
    LET w == panels[p] IN
    /\ w.at = "script" /\ DOMAIN w.todo = {}
    /\ nodeUsers' = IF w.clear THEN [nodeUsers EXCEPT ![w.node] = {}] ELSE nodeUsers
    /\ Goes(p, Notify(w.who, w.now, {}))
    /\ UNCHANGED <<devices, fields, userNodes, generation, summaryVars, boundVars, dropped>>

\* A user's entries are cleared without a fence: the nodes are read, then all of them emptied.
ClearUserDevices(p, u) ==
    /\ Called
    /\ Begins(p, [at |-> "wipe", user |-> u, who |-> {u}, nodes |-> userNodes[u], now |-> tick])
    /\ UNCHANGED <<entryVars, generation, summaryVars, dropped>>

WipeUser(p) ==
    LET w == panels[p]
        u == w.user
    IN  /\ w.at = "wipe"
        /\ devices' = [devices EXCEPT ![u] = {}] /\ userNodes' = [userNodes EXCEPT ![u] = {}]
        /\ fields' = [fields EXCEPT ![u] = [n \in Relays |-> IF n \in w.nodes THEN {} ELSE @[n]]]
        /\ nodeUsers' = [n \in Relays |-> IF n \in w.nodes THEN nodeUsers[n] \ {u} ELSE nodeUsers[n]]
        /\ Goes(p, Notify({u}, w.now, {}))
        /\ UNCHANGED <<generation, summaryVars, boundVars, dropped>>

------------------------------------------------------------------------------
\* Counting.
DueBy(t, now) == {u \in Guests : t[u] # Unset /\ t[u] <= now}
schedulePending(us, now) == pending' = [u \in Guests |-> IF u \in us THEN now + Throttle ELSE pending[u]]

FlushPending(p) ==
    /\ DueBy(pending, tick) \cup DueBy(expiring, tick) # {}
    /\ Begins(p, Notify(DueBy(pending, tick) \cup DueBy(expiring, tick), tick,
                        {<<"pending", u>> : u \in DueBy(pending, tick)} \cup {<<"expiry", u>> : u \in DueBy(expiring, tick)}))
    /\ UNCHANGED <<entryVars, generation, summaryVars, boundVars, dropped>>

\* Users whose throttle period is over are counted now.
ReserveWrites(p) ==
    LET w == panels[p]
        now == {u \in w.who : throttled[u] <= tick}
    IN  /\ w.at = "reserve"
        /\ throttled' = [u \in Guests |-> IF u \in now THEN tick + Throttle ELSE throttled[u]]
        /\ Goes(p, [at |-> "defer", who |-> now, late |-> w.who \ now, now |-> w.now, flush |-> w.flush])
        /\ UNCHANGED <<entryVars, generation, pending, expiring, online, boundVars, dropped>>

\* Mutant: users counted too recently are forgotten.
DeferNobody(p) ==
    LET w == panels[p] IN
    /\ w.at = "defer"
    /\ pending' = pending
    /\ Goes(p, IF w.who = {} THEN [w EXCEPT !.at = "flushed"] ELSE [w EXCEPT !.at = "list"])
    /\ UNCHANGED <<entryVars, generation, throttled, expiring, online, boundVars, dropped>>

DeferOthers(p) ==
    LET w == panels[p] IN
    /\ w.at = "defer"
    /\ schedulePending(w.late, w.now)
    /\ Goes(p, IF w.who = {} THEN [w EXCEPT !.at = "flushed"] ELSE [w EXCEPT !.at = "list"])
    /\ UNCHANGED <<entryVars, generation, throttled, expiring, online, boundVars, dropped>>

StaleEntries(u, now) == devices[u] \ LiveAt(u, now)

listUserDevices(p) ==
    LET w == panels[p]
        us == w.who
    IN  /\ w.at = "list"
        /\ Goes(p, [at |-> "clean", who |-> us, now |-> w.now, flush |-> w.flush,
                    count |-> [u \in us |-> Cardinality(OnlineAt(u, w.now))],
                    next |-> [u \in us |-> IF LiveAt(u, w.now) = {} THEN Unset
                                           ELSE Min({e.seen : e \in LiveAt(u, w.now)}) + Window],
                    stale |-> [u \in us |-> {[node |-> e.node, phone |-> e.phone] : e \in StaleEntries(u, w.now)}],
                    gone |-> [u \in us |-> {e.node : e \in devices[u]} \ {e.node : e \in LiveAt(u, w.now)}]])
        /\ dropped' = dropped \ us
        /\ UNCHANGED <<entryVars, generation, summaryVars, boundVars>>

\* The entries seen to be stale are deleted by name, whatever became of them since.
cleanupStaleFields(p) ==
    LET w == panels[p]
        Gone(u) == IF u \in w.who THEN w.gone[u] ELSE {}
        Old(u) == IF u \in w.who THEN w.stale[u] ELSE {}
        Named(e) == [node |-> e.node, phone |-> e.phone]
    IN  /\ w.at = "clean"
        /\ devices' = [u \in Guests |-> {e \in devices[u] : Named(e) \notin Old(u)}]
        /\ fields' = [u \in Guests |-> [n \in Relays |-> IF n \in Gone(u) THEN {} ELSE
                         {i \in fields[u][n] : [node |-> n, phone |-> i] \notin Old(u)}]]
        /\ nodeUsers' = [n \in Relays |-> {u \in nodeUsers[n] : n \notin Gone(u)}]
        /\ userNodes' = [u \in Guests |-> userNodes[u] \ Gone(u)]
        /\ Goes(p, [at |-> "expire", who |-> w.who, now |-> w.now, flush |-> w.flush,
                    count |-> w.count, next |-> w.next])
        /\ UNCHANGED <<generation, summaryVars, boundVars, dropped>>

scheduleExpiries(p) ==
    LET w == panels[p] IN
    /\ w.at = "expire"
    /\ expiring' = [u \in Guests |-> IF u \in w.who /\ w.next[u] # Unset THEN w.next[u] ELSE expiring[u]]
    /\ Goes(p, [w EXCEPT !.at = "write"])
    /\ UNCHANGED <<entryVars, generation, throttled, pending, online, boundVars, dropped>>

UpdateUserDeviceSummaries(p) ==
    LET w == panels[p] IN
    /\ w.at = "write"
    /\ online' = [u \in Guests |-> IF u \in w.who THEN w.count[u] ELSE online[u]]
    /\ Goes(p, [w EXCEPT !.at = "inactive"])
    /\ UNCHANGED <<entryVars, generation, throttled, pending, expiring, boundVars, dropped>>

clearInactiveExpiries(p) ==
    LET w == panels[p] IN
    /\ w.at = "inactive"
    /\ expiring' = [u \in Guests |-> IF u \in w.who /\ w.next[u] = Unset THEN Unset ELSE expiring[u]]
    /\ Goes(p, [w EXCEPT !.at = "flushed"])
    /\ UNCHANGED <<entryVars, generation, throttled, pending, online, boundVars, dropped>>

\* What a flush was due for is struck off, unless it was put off again meanwhile.
removeDuePending(p) ==
    LET w == panels[p]
        Struck(kind, t) == [u \in Guests |-> IF <<kind, u>> \in w.flush /\ t[u] <= w.now THEN Unset ELSE t[u]]
    IN  /\ w.at = "flushed"
        /\ pending' = Struck("pending", pending) /\ expiring' = Struck("expiry", expiring)
        /\ Goes(p, Ready)
        /\ UNCHANGED <<entryVars, generation, throttled, online, boundVars, dropped>>

------------------------------------------------------------------------------
\* A round trip fails or the panel dies: the operation ends there.  Users about to be counted are
\* put off if Redis still answers.
OperationFails(p) ==
    LET w == panels[p] IN
    /\ w # Ready /\ failures < MaxFailures /\ failures' = failures + 1
    /\ Goes(p, Ready) /\ dropped' = dropped \cup w.who \cup (IF w.at = "defer" THEN w.late ELSE {})
                                     \cup (IF w.at \in {"scan", "script"} THEN DOMAIN w.todo ELSE {})
    /\ \/ UNCHANGED pending
       \/ w.at \in {"reserve", "list", "clean", "expire", "write"} /\ schedulePending(w.who, w.now)
    /\ UNCHANGED <<entryVars, generation, throttled, expiring, online, tick, calls>>

\* An operation is over before a throttle period is.
DeviceTick ==
    /\ tick < LastTick /\ tick' = tick + 1
    /\ \A p \in Panels : panels[p] # Ready => tick < panels[p].now + Patience
    /\ UNCHANGED <<entryVars, generation, summaryVars, panels, calls, failures, dropped>>

DevicesInit ==
    /\ devices = [u \in Guests |-> {}] /\ fields = [u \in Guests |-> [n \in Relays |-> {}]]
    /\ nodeUsers = [n \in Relays |-> {}] /\ userNodes = [u \in Guests |-> {}]
    /\ generation = [n \in Relays |-> 0] /\ throttled = [u \in Guests |-> 0]
    /\ pending = [u \in Guests |-> Unset] /\ expiring = [u \in Guests |-> Unset]
    /\ online = [u \in Guests |-> 0] /\ panels = [p \in Panels |-> Ready]
    /\ tick = 0 /\ calls = 0 /\ failures = 0 /\ dropped = {}

DevicesNext ==
    \/ \E p \in Panels :
        \/ \E n \in Relays, us \in SUBSET Guests, all \in BOOLEAN :
             \E seen \in [us -> SUBSET Phones] : ReplaceNodeDevices(p, n, seen, all)
        \/ \E n \in Relays : ClearNodeDevices(p, n)
        \/ \E u \in Guests : ClearUserDevices(p, u)
        \/ scanSetIDs(p) \/ replaceNodeDevicesScript(p) \/ ScriptsDone(p) \/ WipeUser(p)
        \/ FlushPending(p) \/ ReserveWrites(p) \/ DeferOthers(p) \/ listUserDevices(p) \/ cleanupStaleFields(p)
        \/ scheduleExpiries(p) \/ UpdateUserDeviceSummaries(p) \/ clearInactiveExpiries(p) \/ removeDuePending(p)
        \/ OperationFails(p)
    \/ DeviceTick

DevicesSpec == DevicesInit /\ [][DevicesNext]_deviceVars

------------------------------------------------------------------------------
\* Properties

\* The count in the database is the truth or is about to be corrected (service.go notifyUsers,
\* FlushPending): a user shown online always has a flush to come, wherever an operation stopped; and
\* when no operation is under way and no flush is due or put off, the count is the number of
\* addresses online, unless an operation failed or was superseded after changing them.
SummariesHonest ==
    \A u \in Guests :
        /\ online[u] > 0 => pending[u] # Unset \/ expiring[u] # Unset
        /\ (/\ \A p \in Panels : panels[p] = Ready
            /\ pending[u] = Unset /\ u \notin DueBy(expiring, tick) /\ u \notin dropped)
           => online[u] = Cardinality(OnlineAt(u, tick))
=============================================================================
