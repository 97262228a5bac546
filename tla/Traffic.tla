------------------------------- MODULE Traffic -------------------------------
(***************************************************************************)
(* Traffic: what the nodes report is counted against the users, and the    *)
(* counters go back to zero on the plan's day or when an administrator     *)
(* says so.  A node repeats a report whose answer it did not get, and an   *)
(* administrator's client repeats a reset.                                 *)
(*                                                                         *)
(* Upload and download are one amount.  Time is a day in a calendar of     *)
(* short months; a plan's day of the month is the day its user expires.    *)
(***************************************************************************)
EXTENDS Integers, Sequences, FiniteSets, FiniteSetsExt

CONSTANTS
    Riders,         \* users
    Gates,          \* nodes
    Reports,        \* what a node may report: an id and an amount per user
    Rates,          \* rates of a node, in units of Scale
    Scale,          \* trafficRateScale
    MaxCount,       \* the largest int64
    MonthDays,      \* the length of each month of the year
    LastDay,        \* bound: the last day
    ReceiptLife,    \* days a receipt is kept
    ResetKeys,      \* idempotency keys of manual resets
    MaxMoves        \* bound: reports without an id, and edits

ASSUME TrafficConstants ==
    /\ {Scale, MaxCount, ReceiptLife} \subseteq Nat \ {0} /\ Rates \subseteq Nat /\ Max(Rates) \in Rates
    /\ IsFiniteSet(Riders)
    /\ MonthDays \in Seq(Nat \ {0}) /\ MonthDays # <<>>
    /\ \A r \in Reports : r.traffic \in [Riders -> Nat]

VARIABLES
    riders,         \* users: traffic used, group, ban, expiry, next reset
    gates,          \* nodes: rate, group, on or off, their own total
    receipts,       \* node_report_receipts
    resets,         \* traffic_reset_logs
    method,         \* the plan's or the system's reset method
    day,
    moves,
    counted,        \* each report counted so far, with its day (ghost)
    told,           \* reports a node was told are in (ghost)
    charged,        \* what each user was charged, all told (ghost)
    reckoned        \* when and how a user's next reset was reckoned (ghost)

trafficVars == <<riders, gates, receipts, resets, method, day, moves, counted, told, charged, reckoned>>

Never == -1
Of(r) == {u \in Riders : r.traffic[u] > 0}

------------------------------------------------------------------------------
\* The calendar: months are numbered on through the years.
Length(m) == MonthDays[(m % Len(MonthDays)) + 1]
Start(m) == SumFunction([i \in 0..(m - 1) |-> Length(i)])
MonthOf(d) == CHOOSE m \in 0..d : Start(m) <= d /\ d < Start(m + 1)
YearStart(m) == m - (m % Len(MonthDays))
DayOf(d) == d - Start(MonthOf(d))

\* The day of the month of the expiry, or the month's last day if the month is shorter.
calendarAnchor(m, expiry) == Start(m) + Min({DayOf(expiry), Length(m) - 1})
annualAnchor(m, expiry) == calendarAnchor(YearStart(m) + (MonthOf(expiry) % Len(MonthDays)), expiry)

CalculateNextTrafficReset(how, expiry, now) ==
    LET m == MonthOf(now)
        After(this, next) == IF this > now THEN this ELSE next
    IN  IF expiry = Never THEN Never
        ELSE CASE how = 0 -> Start(m + 1)
               [] how = 1 -> After(calendarAnchor(m, expiry), calendarAnchor(m + 1, expiry))
               [] how = 2 -> Never
               [] how = 3 -> Start(YearStart(m) + Len(MonthDays))
               [] how = 4 -> After(annualAnchor(m, expiry), annualAnchor(m + Len(MonthDays), expiry))

NextFor(expiry) == CalculateNextTrafficReset(method, expiry, day)
Reckon(us, how) == reckoned' = [u \in Riders |-> IF u \in us THEN [at |-> day, how |-> how] ELSE reckoned[u]]

------------------------------------------------------------------------------
\* Reports.
weightedTraffic(value, rate) == (value * rate) \div Scale

authorizeReportedUsers(g, us) == gates[g].on /\ \A u \in us : riders[u].group = gates[g].group
Weighted(g, r) == [u \in Riders |-> weightedTraffic(r.traffic[u], gates[g].rate)]
RawTotal(r) == SumFunction(r.traffic)
Fits(g, r) ==
    /\ \A u \in Riders : riders[u].used + Weighted(g, r)[u] <= MaxCount
    /\ gates[g].total + RawTotal(r) <= MaxCount

applyTraffic(g, r) ==
    /\ riders' = [u \in Riders |-> [riders[u] EXCEPT !.used = riders[u].used + Weighted(g, r)[u]]]
    /\ gates' = [gates EXCEPT ![g].total = @ + RawTotal(r)]

ReceiptsOf(g, r) == {c \in receipts : c.gate = g /\ c.id = r.id}
\* Mutant: receipts are kept for the day only.
KeptForTheDay(g, r) == {c \in receipts : c.at = day}

Kept(g, r) == {c \in receipts : day - c.at <= ReceiptLife \/ (c.gate = g /\ c.id = r.id)}
AgainAfter(g, r) == \A c \in counted : c.gate = g /\ c.id = r.id => day - c.at <= ReceiptLife

\* A report with an id: its traffic is counted the first time, its devices are stored every time
\* (outside the transaction: that may fail, and then the node is told so).  The same id with other
\* traffic and, the first time, a user of another group or a counter that would overflow refuse it
\* as a whole.
ApplyNodeReport(g, r, answered) ==
    /\ AgainAfter(g, r)
    /\ \A c \in ReceiptsOf(g, r) : c.traffic = r.traffic
    /\ gates[g].on
    /\ IF ReceiptsOf(g, r) # {} THEN UNCHANGED <<riders, gates>> /\ receipts' = Kept(g, r)
       ELSE /\ authorizeReportedUsers(g, Of(r)) /\ Fits(g, r) /\ applyTraffic(g, r)
            /\ receipts' = Kept(g, r) \cup {[gate |-> g, id |-> r.id, traffic |-> r.traffic, at |-> day]}
    /\ told' = IF answered THEN told \cup {<<g, r.id>>} ELSE told
    /\ counted' = IF \E c \in counted : c.gate = g /\ c.id = r.id THEN counted
                  ELSE counted \cup {[gate |-> g, id |-> r.id, at |-> day]}
    /\ charged' = IF \E c \in counted : c.gate = g /\ c.id = r.id THEN charged
                  ELSE [u \in Riders |-> charged[u] + Weighted(g, r)[u]]
    /\ UNCHANGED <<resets, method, day, moves, reckoned>>

xboardNodeReport(g, r) == \E answered \in BOOLEAN : ApplyNodeReport(g, r, answered)

\* The push of an old node carries no id: it counts whenever it comes.
xboardNodePush(g, r) ==
    /\ moves < MaxMoves /\ moves' = moves + 1
    /\ authorizeReportedUsers(g, Of(r)) /\ Fits(g, r) /\ applyTraffic(g, r)
    /\ charged' = [u \in Riders |-> charged[u] + Weighted(g, r)[u]]
    /\ UNCHANGED <<receipts, resets, method, day, counted, told, reckoned>>

SaveNodeRuntime(g) ==
    /\ moves < MaxMoves /\ moves' = moves + 1
    /\ \E rate \in Rates, group \in {1, 2}, on \in BOOLEAN :
          gates' = [gates EXCEPT ![g] = [gates[g] EXCEPT !.rate = rate, !.group = group, !.on = on]]
    /\ UNCHANGED <<riders, receipts, resets, method, day, counted, told, charged, reckoned>>

saveNodeRuntime(g) == SaveNodeRuntime(g)

------------------------------------------------------------------------------
\* Resets.
Zeroed(u, next) == [riders EXCEPT ![u] = [riders[u] EXCEPT !.used = 0, !.count = riders[u].count + 1, !.next = next]]
Logged(u, key, due) ==
    resets' = Append(resets, [user |-> u, before |-> riders[u].used, key |-> key, due |-> due,
                              count |-> riders[u].count + 1])

Due(u) ==
    /\ ~riders[u].banned /\ riders[u].expiry # Never /\ riders[u].expiry > day
    /\ riders[u].next # Never /\ riders[u].next <= day

\* The scheduler's run takes the earliest ones first.
ProcessDueTrafficResets ==
    /\ \E u \in Riders :
        /\ Due(u) /\ \A v \in Riders : Due(v) => riders[u].next <= riders[v].next
        /\ riders' = Zeroed(u, NextFor(riders[u].expiry))
        /\ Logged(u, Never, riders[u].next) /\ Reckon({u}, method)
    /\ UNCHANGED <<gates, receipts, method, day, moves, counted, told, charged>>

resetDueTraffic == ProcessDueTrafficResets

\* A key that was used answers with the reset it made.
findAdminUserTrafficReset(key) == {i \in DOMAIN resets : resets[i].key = key}
ResetAdminUserTraffic(u, key) ==
    /\ findAdminUserTrafficReset(key) = {}
    /\ ~riders[u].banned /\ (riders[u].expiry = Never \/ riders[u].expiry > day)
    /\ riders' = Zeroed(u, NextFor(riders[u].expiry))
    /\ Logged(u, key, Never) /\ Reckon({u}, method)
    /\ UNCHANGED <<gates, receipts, method, day, moves, counted, told, charged>>

resetAdminUserTraffic(u, key) == ResetAdminUserTraffic(u, key)
legacyResetAdminUserTraffic(u, key) == ResetAdminUserTraffic(u, key)

\* A change of the reset method reckons anew for those who are neither banned nor expired.
Reschedule(how) ==
    LET us == {u \in Riders : ~riders[u].banned /\ (riders[u].expiry = Never \/ riders[u].expiry > day)} IN
    /\ moves < MaxMoves /\ moves' = moves + 1 /\ how # method /\ method' = how
    /\ riders' = [u \in Riders |-> IF u \notin us THEN riders[u]
                    ELSE [riders[u] EXCEPT !.next = CalculateNextTrafficReset(how, riders[u].expiry, day)]]
    /\ Reckon(us, how)
    /\ UNCHANGED <<gates, receipts, resets, day, counted, told, charged>>

\* The plan's method, or the one that plans without their own follow.
reschedulePlanUsers(how) == Reschedule(how)
rescheduleSystemTrafficResetUsers(how) == Reschedule(how)

\* A subscription is renewed, or its user banned, pardoned or moved.
UpdateRider(u) ==
    /\ moves < MaxMoves /\ moves' = moves + 1
    /\ \/ \E d \in (day + 1)..LastDay :
            /\ riders' = [riders EXCEPT ![u] = [riders[u] EXCEPT !.expiry = d, !.next = NextFor(d)]]
            /\ Reckon({u}, method)
       \/ riders' = [riders EXCEPT ![u].banned = ~@] /\ UNCHANGED reckoned
       \/ riders' = [riders EXCEPT ![u].group = 3 - @] /\ UNCHANGED reckoned
    /\ UNCHANGED <<gates, receipts, resets, method, day, counted, told, charged>>

Midnight == /\ day < LastDay /\ day' = day + 1
            /\ UNCHANGED <<riders, gates, receipts, resets, method, moves, counted, told, charged, reckoned>>

------------------------------------------------------------------------------
TrafficInit(how, d) ==
    /\ method = how /\ day = 0 /\ moves = 0
    /\ riders = [u \in Riders |-> [used |-> 0, group |-> 1, banned |-> FALSE, expiry |-> d,
                                   next |-> CalculateNextTrafficReset(how, d, 0), count |-> 0]]
    /\ gates = [g \in Gates |-> [rate |-> Max(Rates), group |-> 1, on |-> TRUE, total |-> 0]]
    /\ receipts = {} /\ resets = <<>> /\ counted = {} /\ told = {}
    /\ charged = [u \in Riders |-> 0]
    /\ reckoned = [u \in Riders |-> [at |-> 0, how |-> how]]

CountingNext ==
    \/ \E g \in Gates, r \in Reports : xboardNodePush(g, r) \/ xboardNodeReport(g, r)
    \/ \E g \in Gates : saveNodeRuntime(g)
    \/ \E u \in Riders, k \in ResetKeys : resetAdminUserTraffic(u, k) \/ legacyResetAdminUserTraffic(u, k)
    \/ resetDueTraffic \/ Midnight

CalendarNext ==
    \/ \E how \in 0..4 : reschedulePlanUsers(how) \/ rescheduleSystemTrafficResetUsers(how)
    \/ \E u \in Riders : UpdateRider(u)
    \/ \E u \in Riders, k \in ResetKeys : resetAdminUserTraffic(u, k) \/ legacyResetAdminUserTraffic(u, k)
    \/ resetDueTraffic \/ Midnight

\* Whatever the method and the expiry the users begin with.
TrafficSpec ==
    /\ \E how \in 0..4, d \in {Never} \cup 1..LastDay : TrafficInit(how, d)
    /\ [][CountingNext \/ CalendarNext]_trafficVars

------------------------------------------------------------------------------
\* Properties

\* The days a reset method names, from the calendar alone.
Anchor(d, how, expiry) ==
    CASE how = 0 -> DayOf(d) = 0
      [] how = 1 -> DayOf(d) = DayOf(expiry) \/ (DayOf(expiry) > DayOf(d) /\ d + 1 = Start(MonthOf(d) + 1))
      [] how = 3 -> d = Start(YearStart(MonthOf(d)))
      [] how = 4 -> /\ MonthOf(d) % Len(MonthDays) = MonthOf(expiry) % Len(MonthDays)
                    /\ DayOf(d) = DayOf(expiry) \/ (DayOf(expiry) > DayOf(d) /\ d + 1 = Start(MonthOf(d) + 1))

\* Traffic is counted once and never lost (runtime.go ApplyNodeReport, plans.go
\* ProcessDueTrafficResets, admin_user_operations.go): what a user used since the last reset and what
\* the resets wiped is what the distinct reports charged, however often a report or a reset is
\* repeated and whatever rates, groups and bans do in between; a report the node was told is in was
\* counted; and a user's next reset is the first day, after it was reckoned,
\* that the method names.
TrafficAccounted ==
    /\ \A u \in Riders :
        riders[u].used + SumFunctionOnSet([i \in DOMAIN resets |-> resets[i].before], {i \in DOMAIN resets : resets[i].user = u})
            = charged[u]
    /\ \A i, j \in DOMAIN resets : i # j => resets[i].key = Never \/ resets[i].key # resets[j].key
    /\ \A t \in told : \E c \in counted : <<c.gate, c.id>> = t
    /\ \A u \in Riders : riders[u].next # Never =>
        LET k == reckoned[u] IN
        /\ riders[u].next > k.at
        /\ Anchor(riders[u].next, k.how, riders[u].expiry)
        /\ \A d \in (k.at + 1)..(riders[u].next - 1) : ~Anchor(d, k.how, riders[u].expiry)
=============================================================================
