-------------------------- MODULE DiagnosticsLease --------------------------
(***************************************************************************)
(* The in-memory diagnostic lease service (internal/diagnostics/lease.go)  *)
(* and the admin handler that starts a session                             *)
(* (internal/httpapi/admin_diagnostics_handlers.go).                       *)
(*                                                                         *)
(* Every method of MemoryLeaseService runs under one mutex, so it is one   *)
(* action.  The start handler is not: it reads the session, decides        *)
(* whether the log storage must be healthy, and calls StartSession later;  *)
(* it is two actions with the request's decision kept in between.          *)
(*                                                                         *)
(* A zero sid stands for an absent map entry (sessions, idempotency), a    *)
(* zero version for an absent snapshot binding and a zero revision for an  *)
(* absent acknowledgement: the code numbers all of them from one.          *)
(***************************************************************************)
EXTENDS Integers, FiniteSets, Sequences

CONSTANTS
  Customers,             \* diagnostic_id values
  Nodes,                 \* runtime nodes that pull snapshots
  Keys,                  \* operator_id:idempotency_key pairs
  Requests,              \* request_id values a node uses
  Admins,                \* concurrent executions of the start handler
  MaxConcurrentSessions,
  MaxSessionDuration,
  SnapshotBindingTTL,
  IdempotencyTTL,
  SessionTombstoneTTL,
  MaxSid,                \* bound: sessions created in a behaviour
  MaxNow                 \* bound: last clock value

ASSUME LeaseConstants ==
  /\ MaxConcurrentSessions \in Nat \ {0}
  /\ MaxSessionDuration \in Nat \ {0}
  /\ {SnapshotBindingTTL, IdempotencyTTL, SessionTombstoneTTL} \subseteq Nat
  /\ MaxSid \in Nat
  /\ MaxNow \in Nat

VARIABLES
  now,            \* the clock the service is called with
  sessions,       \* diagnostic_id -> session
  idempotency,    \* key -> entry
  bindings,       \* node -> request_id -> snapshot binding
  controlVersion,
  lastSid,        \* source of fresh session ids (uuid.NewString)
  pending,        \* start handlers between the health decision and StartSession
  issued,         \* history: <<node, sid, revision>> handed out in a snapshot
  unchecked       \* history: sids created by a handler that skipped CheckHealth

vars == <<now, sessions, idempotency, bindings, controlVersion, lastSid,
          pending, issued, unchecked>>

-----------------------------------------------------------------------------
States == {"pending", "partial", "active", "stopping", "stopped", "expired"}

Ack == [rev : Nat, eff : BOOLEAN]
NoAck == [rev |-> 0, eff |-> FALSE]

Session == [sid : 0 .. MaxSid, rev : Nat, enabled : BOOLEAN, state : States,
            targets : SUBSET Nodes, acks : [Nodes -> Ack], expires : Nat]

NoSession == [sid |-> 0, rev |-> 0, enabled |-> FALSE, state |-> "expired",
              targets |-> {}, acks |-> [n \in Nodes |-> NoAck], expires |-> 0]

Entry == [cust : SUBSET Customers, sid : 0 .. MaxSid, at : Nat]
NoEntry == [cust |-> {}, sid |-> 0, at |-> 0]

\* revs[sid] is the revision the snapshot carried for the session, or 0.
Binding == [version : Nat, revs : [1 .. MaxSid -> Nat], at : Nat]
NoBinding == [version |-> 0, revs |-> [i \in 1 .. MaxSid |-> 0], at |-> 0]

Handler == [stage : {"idle", "ready"}, key : SUBSET Keys,
            cust : SUBSET Customers, skipped : BOOLEAN]
Idle == [stage |-> "idle", key |-> {}, cust |-> {}, skipped |-> FALSE]

TypeOK ==
  /\ now \in Nat
  /\ sessions \in [Customers -> Session]
  /\ idempotency \in [Keys -> Entry]
  /\ bindings \in [Nodes -> [Requests -> Binding]]
  /\ controlVersion \in Nat \ {0}
  /\ lastSid \in 0 .. MaxSid
  /\ pending \in [Admins -> Handler]
  /\ issued \subseteq Nodes \X (1 .. MaxSid) \X Nat
  /\ unchecked \subseteq 1 .. MaxSid

\* NewMemoryLeaseService
Init ==
  /\ now = 0
  /\ sessions = [c \in Customers |-> NoSession]
  /\ idempotency = [k \in Keys |-> NoEntry]
  /\ bindings = [n \in Nodes |-> [r \in Requests |-> NoBinding]]
  /\ controlVersion = 1
  /\ lastSid = 0
  /\ pending = [a \in Admins |-> Idle]
  /\ issued = {}
  /\ unchecked = {}

-----------------------------------------------------------------------------
(* cleanupExpired: what each of the three maps is after the sweep.         *)

Expire(s) ==
  IF s.enabled /\ now > s.expires
  THEN [s EXCEPT !.enabled = FALSE, !.state = "expired"]
  ELSE s

CleanSession(s) ==
  LET e == Expire(s)
  IN  IF ~e.enabled /\ now - e.expires > SessionTombstoneTTL
      THEN NoSession ELSE e

CleanSessions == [c \in Customers |-> CleanSession(sessions[c])]

CleanBindings ==
  [n \in Nodes |-> [r \in Requests |->
     IF now - bindings[n][r].at > SnapshotBindingTTL
     THEN NoBinding ELSE bindings[n][r]]]

CleanIdempotency ==
  [k \in Keys |-> IF now - idempotency[k].at > IdempotencyTTL
                  THEN NoEntry ELSE idempotency[k]]

\* The session counts as running: StartSession's test, strict at the deadline.
Running(s) == s.enabled /\ now < s.expires

-----------------------------------------------------------------------------
(* The state a session is in, from its acknowledgements.                   *)

AllStopped(s) ==
  \A n \in s.targets :
     s.acks[n].rev # 0 /\ ~s.acks[n].eff /\ s.acks[n].rev >= s.rev

Effective(s) ==
  {n \in s.targets : s.acks[n].eff /\ s.acks[n].rev = s.rev}

\* Mutant: one effective target is enough for active.
DerivedStateAny(s) ==
  CASE ~s.enabled /\ AllStopped(s)  -> "stopped"
    [] ~s.enabled /\ ~AllStopped(s) -> "stopping"
    [] s.enabled /\ Effective(s) # {} -> "active"
    [] OTHER                        -> "pending"

\* updateSessionState
DerivedState(s) ==
  CASE ~s.enabled /\ AllStopped(s)                -> "stopped"
    [] ~s.enabled /\ ~AllStopped(s)               -> "stopping"
    [] s.enabled /\ Effective(s) = s.targets      -> "active"
    [] s.enabled /\ Effective(s) # s.targets
                 /\ Effective(s) # {}             -> "partial"
    [] OTHER                                      -> "pending"

-----------------------------------------------------------------------------
Tick == 
  /\ now < MaxNow
  /\ now' = now + 1
  /\ UNCHANGED <<sessions, idempotency, bindings, controlVersion, lastSid,
                 pending, issued, unchecked>>

\* startDiagnosticsSession up to the health decision.  GetSession does not
\* sweep, and its caller asks After(expires): a session at its deadline still
\* counts as existing.  A failed CheckHealth answers with an error and leaves
\* no trace, so only the passing outcome is an action.
BeginStart(a, k, c) ==
  LET s == sessions[c]
      isNewLease == s.sid = 0 \/ ~s.enabled \/ now > s.expires
  IN  /\ pending[a] = Idle
      /\ pending' = [pending EXCEPT ![a] =
           [stage |-> "ready", key |-> {k}, cust |-> {c},
            skipped |-> ~isNewLease]]
      /\ UNCHANGED <<now, sessions, idempotency, bindings, controlVersion,
                     lastSid, issued, unchecked>>

\* A key that names another customer: ErrIdempotencyConflict.
KeyConflict(k, c) ==
  CleanIdempotency[k].sid # 0 /\ c \notin CleanIdempotency[k].cust

\* The key already names the customer's present session, running or not.
KeyReplay(k, c) ==
  /\ CleanIdempotency[k].sid # 0
  /\ c \in CleanIdempotency[k].cust
  /\ CleanSessions[c].sid = CleanIdempotency[k].sid

\* Mutant: only fully acknowledged sessions are counted.
ActiveCountAcked ==
  Cardinality({c \in Customers : CleanSessions[c].state = "active"})

ActiveCount == Cardinality({c \in Customers : Running(CleanSessions[c])})

\* StartSession answering with an error or with the session the key names.
StartAnswered(a, k, c) ==
  /\ \/ KeyConflict(k, c)
     \/ KeyReplay(k, c)
     \/ ~Running(CleanSessions[c]) /\ ActiveCount >= MaxConcurrentSessions
  /\ sessions' = CleanSessions
  /\ idempotency' = CleanIdempotency
  /\ UNCHANGED <<controlVersion, lastSid, unchecked>>

\* Mutant: joining a running session renews its deadline.
StartJoinedRenews(a, k, c) ==
  /\ ~KeyConflict(k, c) /\ ~KeyReplay(k, c)
  /\ Running(CleanSessions[c])
  /\ sessions' = [CleanSessions EXCEPT ![c].expires = now + MaxSessionDuration]
  /\ idempotency' = [CleanIdempotency EXCEPT ![k] =
       [cust |-> {c}, sid |-> CleanSessions[c].sid, at |-> now]]
  /\ UNCHANGED <<controlVersion, lastSid, unchecked>>

\* A customer with a running session gets it back under the new key.
StartJoined(a, k, c) ==
  /\ ~KeyConflict(k, c) /\ ~KeyReplay(k, c)
  /\ Running(CleanSessions[c])
  /\ sessions' = CleanSessions
  /\ idempotency' = [CleanIdempotency EXCEPT ![k] =
       [cust |-> {c}, sid |-> CleanSessions[c].sid, at |-> now]]
  /\ UNCHANGED <<controlVersion, lastSid, unchecked>>

StartCreated(a, k, c, targets) ==
  /\ ~KeyConflict(k, c) /\ ~KeyReplay(k, c)
  /\ ~Running(CleanSessions[c])
  /\ ActiveCount < MaxConcurrentSessions
  /\ lastSid < MaxSid
  /\ controlVersion' = controlVersion + 1
  /\ lastSid' = lastSid + 1
  /\ sessions' = [CleanSessions EXCEPT ![c] =
       [sid |-> lastSid + 1, rev |-> 1, enabled |-> TRUE, state |-> "pending",
        targets |-> targets, acks |-> [n \in Nodes |-> NoAck],
        expires |-> now + MaxSessionDuration]]
  /\ idempotency' = [CleanIdempotency EXCEPT ![k] =
       [cust |-> {c}, sid |-> lastSid + 1, at |-> now]]
  /\ unchecked' = unchecked \cup (IF pending[a].skipped THEN {lastSid + 1} ELSE {})

\* The rest of startDiagnosticsSession: the node targets are read from the
\* store, then StartSession runs under the mutex.
StartSession(a) ==
  /\ pending[a].stage = "ready"
  /\ \E k \in pending[a].key, c \in pending[a].cust :
       \/ StartAnswered(a, k, c)
       \/ StartJoined(a, k, c)
       \/ \E targets \in SUBSET Nodes : StartCreated(a, k, c, targets)
  /\ bindings' = CleanBindings
  /\ pending' = [pending EXCEPT ![a] = Idle]
  /\ UNCHANGED <<now, issued>>

\* The session with the stop recorded: a new revision, switched off.
Stop(s) ==
  LET t == [s EXCEPT !.rev = s.rev + 1, !.enabled = FALSE]
  IN  [t EXCEPT !.state = DerivedState(t)]

\* StopSession neither sweeps nor looks at the deadline.
StopSession(c, sid) ==
  /\ sessions[c].sid = sid /\ sid # 0
  /\ sessions[c].enabled
  /\ controlVersion' = controlVersion + 1
  /\ sessions' = [sessions EXCEPT ![c] = Stop(sessions[c])]
  /\ UNCHANGED <<now, idempotency, bindings, lastSid, pending, issued, unchecked>>

\* A session goes into the snapshot of a targeted node; not strict at the
\* deadline.
InSnapshot(s, n) == s.enabled /\ now <= s.expires /\ n \in s.targets

BuildNodeSnapshot(n, r) ==
  LET shown == {c \in Customers : InSnapshot(CleanSessions[c], n)}
  IN  /\ sessions' = CleanSessions
      /\ idempotency' = CleanIdempotency
      /\ bindings' = [CleanBindings EXCEPT ![n][r] =
           [version |-> controlVersion, at |-> now,
            revs |-> [i \in 1 .. MaxSid |->
              IF \E c \in shown : CleanSessions[c].sid = i
              THEN CleanSessions[CHOOSE c \in shown : CleanSessions[c].sid = i].rev
              ELSE 0]]]
      /\ issued' = issued \cup
           {<<n, CleanSessions[c].sid, CleanSessions[c].rev>> : c \in shown}
      /\ UNCHANGED <<now, controlVersion, lastSid, pending, unchecked>>

\* One entry of an ACK: the session it reports on, at which revision, and
\* whether the node applied it.
Report == [sid : 1 .. MaxSid, rev : 1 .. 2, eff : BOOLEAN]

\* Mutant: the binding is not consulted.
AcceptedUnbound(b, reports) == DOMAIN reports

\* The reports are applied in order until the first one the binding does not
\* cover; the entries before it stay applied.
Accepted(b, reports) ==
  {i \in DOMAIN reports :
     \A j \in 1 .. i : b.revs[reports[j].sid] = reports[j].rev}

Latest(I) == CHOOSE i \in I : \A j \in I : j <= i

AckSession(s, n, reports, ok) ==
  LET mine == {i \in ok : reports[i].sid = s.sid}
      last == reports[Latest(mine)]
      t == [s EXCEPT !.acks[n] = [rev |-> last.rev, eff |-> last.eff]]
  IN  IF mine = {} THEN s ELSE [t EXCEPT !.state = DerivedState(t)]

ProcessNodeAck(n, r, version, reports) ==
  LET b == bindings[n][r]
  IN  /\ b.version # 0
      /\ now - b.at <= SnapshotBindingTTL
      /\ b.version = version
      /\ sessions' = [c \in Customers |->
           AckSession(sessions[c], n, reports, Accepted(b, reports))]
      /\ UNCHANGED <<now, idempotency, bindings, controlVersion, lastSid,
                     pending, issued, unchecked>>

\* The panel process restarts: the service is built anew, and the requests in
\* progress are gone.  Session ids stay unique, and so does the epoch that a
\* late ACK would have to match.
Restart ==
  /\ sessions' = [c \in Customers |-> NoSession]
  /\ idempotency' = [k \in Keys |-> NoEntry]
  /\ bindings' = [n \in Nodes |-> [r \in Requests |-> NoBinding]]
  /\ controlVersion' = 1
  /\ pending' = [a \in Admins |-> Idle]
  /\ UNCHANGED <<now, lastSid, issued, unchecked>>

AckReports == {<<p>> : p \in Report} \cup {<<p, q>> : p, q \in Report}

Next ==
  \/ Tick
  \/ Restart
  \/ \E a \in Admins, k \in Keys, c \in Customers : BeginStart(a, k, c)
  \/ \E a \in Admins : StartSession(a)
  \/ \E c \in Customers, sid \in 1 .. MaxSid : StopSession(c, sid)
  \/ \E n \in Nodes, r \in Requests : BuildNodeSnapshot(n, r)
  \/ \E n \in Nodes, r \in Requests, v \in 1 .. controlVersion,
        reports \in AckReports : ProcessNodeAck(n, r, v, reports)

Spec == Init /\ [][Next]_vars

-----------------------------------------------------------------------------
(* What the service promises.                                              *)

\* ProcessNodeAck: an acknowledgement is recorded only for a targeted node
\* that was handed this very session and revision in a snapshot, whatever
\* sessions and revisions an ACK names and however late it comes.
AckEvidence ==
  \A c \in Customers, n \in Nodes :
    LET s == sessions[c]
    IN  s.acks[n].rev # 0 =>
          n \in s.targets /\ <<n, s.sid, s.acks[n].rev>> \in issued

\* The inductive strengthening of AckEvidence: session ids come from a counter
\* that is never reset, so a binding or a past snapshot can only speak of the
\* session that carried the id, and only to a node that session targets.
SidsFresh ==
  /\ \A c \in Customers : sessions[c].sid <= lastSid
  /\ \A c \in Customers : sessions[c].enabled => sessions[c].sid # 0
  /\ \A c, d \in Customers :
       sessions[c].sid = sessions[d].sid => c = d \/ sessions[c].sid = 0
  /\ \A t \in issued : t[2] <= lastSid

BindingEvidence ==
  \A n \in Nodes, r \in Requests, i \in 1 .. MaxSid :
    bindings[n][r].revs[i] # 0 => <<n, i, bindings[n][r].revs[i]>> \in issued

IssuedToTargets ==
  \A c \in Customers, t \in issued :
    t[2] = sessions[c].sid => t[1] \in sessions[c].targets

LeaseInv == TypeOK /\ SidsFresh /\ BindingEvidence /\ IssuedToTargets /\ AckEvidence

\* updateSessionState: the state shown to the operator is never better than
\* the acknowledgements on record.  Active means every target applied the
\* current revision, partial some but not all, stopped that all of them let go.
ReportedStateTrue ==
  \A c \in Customers :
    LET s == sessions[c]
    IN  /\ s.state = "active" => s.enabled /\ Effective(s) = s.targets
        /\ s.state = "partial" =>
             s.enabled /\ Effective(s) \notin {{}, s.targets}
        /\ s.state = "stopped" => ~s.enabled /\ AllStopped(s)

\* StartSession: the limit on concurrent sessions holds however starts,
\* stops, expiries and restarts interleave.
ConcurrencyLimit ==
  Cardinality({c \in Customers : Running(sessions[c])}) <= MaxConcurrentSessions

\* StartSession, StopSession, cleanupExpired: one session keeps its deadline,
\* is never switched on again and never loses a revision; a running session
\* is replaced or dropped by nothing but a restart of the panel.
LeaseStep ==
  \A c \in Customers :
    LET s == sessions[c]
        t == sessions'[c]
    IN  /\ s.sid # 0 /\ t.sid = s.sid =>
             /\ t.expires = s.expires
             /\ t.rev >= s.rev
             /\ t.enabled => s.enabled
        /\ Running(s) /\ t.sid # s.sid => t.sid = 0 /\ controlVersion' = 1

\* StartSession: within its lifetime a key goes on naming the session it was
\* first answered with for as long as that session is the customer's.
KeyStep ==
  \A k \in Keys, c \in Customers :
    LET e == idempotency[k]
        f == idempotency'[k]
    IN  /\ e.sid # 0 /\ c \in e.cust /\ sessions[c].sid = e.sid
        /\ now - e.at <= IdempotencyTTL
        /\ f.sid # 0
        /\ sessions'[c].sid = e.sid
        => f = e

\* What no step may do to a session or to the answer a key stands for.
LeaseHistory == [][LeaseStep /\ KeyStep]_vars

\* design.md 5.3 and the comment in startDiagnosticsSession: the log storage's
\* health is read before a new lease is started.
NewLeaseHealthChecked == unchecked = {}

=============================================================================
