----------------------- MODULE DiagnosticsLeaseProofs -----------------------
(* Proofs about DiagnosticsLease, for every value of its constants. *)
EXTENDS DiagnosticsLease, FiniteSetTheorems, TLAPS

\* The sweep keeps the types of the three maps.
LEMMA CleanType ==
  ASSUME TypeOK
  PROVE  /\ CleanSessions \in [Customers -> Session]
         /\ CleanBindings \in [Nodes -> [Requests -> Binding]]
         /\ CleanIdempotency \in [Keys -> Entry]
<1>1. NoSession \in Session
  BY LeaseConstants DEF NoSession, Session, NoAck, Ack, States
<1>2. \A c \in Customers : CleanSession(sessions[c]) \in Session
  BY <1>1 DEF TypeOK, CleanSession, Expire, Session, States
<1>3. NoBinding \in Binding /\ NoEntry \in Entry
  BY LeaseConstants DEF NoBinding, Binding, NoEntry, Entry
<1> QED
  BY <1>2, <1>3 DEF TypeOK, CleanSessions, CleanBindings, CleanIdempotency

\* What the sweep does to one session: it drops it, or switches it off, and
\* changes nothing else.
LEMMA CleanShape ==
  ASSUME TypeOK, NEW c \in Customers
  PROVE  \/ CleanSessions[c] = NoSession
         \/ /\ CleanSessions[c].sid = sessions[c].sid
            /\ CleanSessions[c].rev = sessions[c].rev
            /\ CleanSessions[c].targets = sessions[c].targets
            /\ CleanSessions[c].acks = sessions[c].acks
            /\ CleanSessions[c].expires = sessions[c].expires
            /\ CleanSessions[c].enabled => sessions[c].enabled
<1> USE DEF TypeOK
<1>1. CleanSessions[c] = CleanSession(sessions[c])
  BY DEF CleanSessions
<1>2. sessions[c] \in Session
  OBVIOUS
<1>3. CASE Expire(sessions[c]) = sessions[c]
  BY <1>1, <1>2, <1>3 DEF CleanSession, Session
<1>4. CASE Expire(sessions[c]) =
             [sessions[c] EXCEPT !.enabled = FALSE, !.state = "expired"]
  BY <1>1, <1>2, <1>4 DEF CleanSession, Session
<1> QED
  BY <1>3, <1>4 DEF Expire

\* updateSessionState yields one of the six states.
LEMMA DerivedType ==
  ASSUME NEW s
  PROVE  DerivedState(s) \in States
BY DEF DerivedState, States

\* An ACK entry changes a session's acknowledgement of one node and its state.
LEMMA AckType ==
  ASSUME NEW s \in Session, NEW n \in Nodes, NEW reports \in AckReports,
         NEW ok \in SUBSET DOMAIN reports
  PROVE  /\ AckSession(s, n, reports, ok) \in Session
         /\ AckSession(s, n, reports, ok).sid = s.sid
         /\ AckSession(s, n, reports, ok).rev = s.rev
         /\ AckSession(s, n, reports, ok).enabled = s.enabled
         /\ AckSession(s, n, reports, ok).targets = s.targets
         /\ AckSession(s, n, reports, ok).expires = s.expires
<1> DEFINE mine == {i \in ok : reports[i].sid = s.sid}
           last == reports[Latest(mine)]
           t == [s EXCEPT !.acks[n] = [rev |-> last.rev, eff |-> last.eff]]
<1>1. CASE mine = {}
  BY <1>1 DEF AckSession
<1>2. CASE mine # {}
  <2>1. DOMAIN reports \in {{1}, {1, 2}} /\ \A i \in DOMAIN reports : reports[i] \in Report
    BY DEF AckReports
  <2>2. Latest(mine) \in mine
    <3>1. \E i \in mine : \A j \in mine : j <= i
      BY <1>2, <2>1
    <3> QED  BY <3>1 DEF Latest
  <2>3. last \in Report
    BY <2>1, <2>2
  <2>4. [rev |-> last.rev, eff |-> last.eff] \in Ack
    BY <2>3 DEF Report, Ack
  <2>5. t \in Session
    BY <2>4 DEF Session
  <2>6. AckSession(s, n, reports, ok) = [t EXCEPT !.state = DerivedState(t)]
    BY <1>2 DEF AckSession
  <2>7. DerivedState(t) \in States
    BY DerivedType
  <2> HIDE DEF mine, last
  <2> QED
    BY <2>4, <2>5, <2>6, <2>7 DEF Session
<1> QED
  BY <1>1, <1>2

\* What an ACK leaves on record for a node: the entry that was there, or an
\* entry of the ACK that the binding covers; other nodes keep theirs.
LEMMA AckRecord ==
  ASSUME NEW s \in Session, NEW n \in Nodes, NEW m \in Nodes,
         NEW b \in Binding, NEW reports \in AckReports
  PROVE  LET a == AckSession(s, n, reports, Accepted(b, reports)).acks[m]
         IN  \/ a = s.acks[m]
             \/ /\ m = n
                /\ s.sid \in 1 .. MaxSid
                /\ b.revs[s.sid] = a.rev
<1> DEFINE ok == Accepted(b, reports)
           mine == {i \in ok : reports[i].sid = s.sid}
           last == reports[Latest(mine)]
           t == [s EXCEPT !.acks[n] = [rev |-> last.rev, eff |-> last.eff]]
<1>1. CASE mine = {}
  BY <1>1 DEF AckSession
<1>2. CASE mine # {}
  <2>1. DOMAIN reports \in {{1}, {1, 2}} /\ \A i \in DOMAIN reports : reports[i] \in Report
    BY DEF AckReports
  <2>2. Latest(mine) \in mine
    <3>1. mine \subseteq DOMAIN reports
      BY DEF Accepted
    <3>2. \E i \in mine : \A j \in mine : j <= i
      BY <1>2, <2>1, <3>1
    <3> QED  BY <3>2 DEF Latest
  <2>3. last \in Report /\ last.sid = s.sid /\ b.revs[last.sid] = last.rev
    <3>1. Latest(mine) \in DOMAIN reports /\ Latest(mine) \in 1 .. Latest(mine)
      BY <2>1, <2>2 DEF Accepted
    <3> QED
      BY <2>1, <2>2, <3>1 DEF Accepted
  <2>4. AckSession(s, n, reports, ok) = [t EXCEPT !.state = DerivedState(t)]
    BY <1>2 DEF AckSession
  <2>5. s.acks \in [Nodes -> Ack] /\ DOMAIN s = {"sid", "rev", "enabled", "state", "targets", "acks", "expires"}
    BY DEF Session
  <2> HIDE DEF mine, last, ok
  <2>6. AckSession(s, n, reports, ok).acks = t.acks
    BY <2>4 DEF Session
  <2>7. t.acks = [s.acks EXCEPT ![n] = [rev |-> last.rev, eff |-> last.eff]]
    BY DEF Session
  <2> QED
    BY <2>3, <2>5, <2>6, <2>7 DEF Report, ok
<1> QED
  BY <1>1, <1>2

-----------------------------------------------------------------------------
\* The initial state satisfies the invariant.
LEMMA LeaseInit == Init => LeaseInv
<1> SUFFICES ASSUME Init PROVE LeaseInv
  OBVIOUS
<1>1. NoSession \in Session /\ NoBinding \in Binding /\ NoEntry \in Entry /\ Idle \in Handler
  BY LeaseConstants DEF NoSession, Session, NoAck, Ack, States, NoBinding, Binding,
                        NoEntry, Entry, Idle, Handler
<1>2. TypeOK
  BY <1>1, LeaseConstants DEF Init, TypeOK
<1>3. SidsFresh /\ IssuedToTargets
  BY DEF Init, SidsFresh, IssuedToTargets, NoSession
<1>4. BindingEvidence
  BY DEF Init, BindingEvidence, NoBinding
<1>5. AckEvidence
  BY DEF Init, AckEvidence, NoSession, NoAck
<1> QED
  BY <1>2, <1>3, <1>4, <1>5 DEF LeaseInv

\* After the sweep the invariant holds of the swept maps.
LEMMA CleanInv ==
  ASSUME LeaseInv
  PROVE  /\ \A c \in Customers : CleanSessions[c].sid <= lastSid
         /\ \A c \in Customers : CleanSessions[c].enabled => CleanSessions[c].sid # 0
         /\ \A c, d \in Customers :
              CleanSessions[c].sid = CleanSessions[d].sid =>
                c = d \/ CleanSessions[c].sid = 0
         /\ \A c \in Customers, t \in issued :
              t[2] = CleanSessions[c].sid => t[1] \in CleanSessions[c].targets
         /\ \A c \in Customers, n \in Nodes :
              CleanSessions[c].acks[n].rev # 0 =>
                /\ n \in CleanSessions[c].targets
                /\ <<n, CleanSessions[c].sid, CleanSessions[c].acks[n].rev>> \in issued
         /\ \A n \in Nodes, r \in Requests, i \in 1 .. MaxSid :
              CleanBindings[n][r].revs[i] # 0 =>
                <<n, i, CleanBindings[n][r].revs[i]>> \in issued
<1> USE DEF LeaseInv
<1>1. lastSid \in Nat /\ \A t \in issued : t[2] # 0
  BY LeaseConstants DEF TypeOK
<1>2. \A c \in Customers :
        /\ CleanSessions[c].sid <= lastSid
        /\ CleanSessions[c].enabled => CleanSessions[c].sid # 0
        /\ \A t \in issued :
              t[2] = CleanSessions[c].sid => t[1] \in CleanSessions[c].targets
        /\ \A n \in Nodes : CleanSessions[c].acks[n].rev # 0 =>
              /\ n \in CleanSessions[c].targets
              /\ <<n, CleanSessions[c].sid, CleanSessions[c].acks[n].rev>> \in issued
  <2> TAKE c \in Customers
  <2>1. CASE CleanSessions[c] = NoSession
    BY <1>1, <2>1 DEF NoSession, NoAck
  <2>2. CASE CleanSessions[c] # NoSession
    BY <2>2, CleanShape DEF SidsFresh, IssuedToTargets, AckEvidence
  <2> QED  BY <2>1, <2>2
<1>3. \A n \in Nodes, r \in Requests, i \in 1 .. MaxSid :
        CleanBindings[n][r].revs[i] # 0 =>
          <<n, i, CleanBindings[n][r].revs[i]>> \in issued
  BY DEF CleanBindings, BindingEvidence, NoBinding
<1>4. \A c \in Customers : CleanSessions[c].sid \in {0, sessions[c].sid}
  BY CleanShape DEF NoSession
<1>5. \A c, d \in Customers :
        CleanSessions[c].sid = CleanSessions[d].sid =>
          c = d \/ CleanSessions[c].sid = 0
  BY <1>4 DEF SidsFresh
<1> QED
  BY <1>2, <1>3, <1>5

\* Every action keeps the invariant.
LEMMA LeaseNext == LeaseInv /\ [Next]_vars => LeaseInv'
<1> SUFFICES ASSUME LeaseInv, [Next]_vars PROVE LeaseInv'
  OBVIOUS
<1> USE LeaseConstants
<1>t. TypeOK /\ SidsFresh /\ BindingEvidence /\ IssuedToTargets /\ AckEvidence
  BY DEF LeaseInv
<1>c. /\ CleanSessions \in [Customers -> Session]
      /\ CleanBindings \in [Nodes -> [Requests -> Binding]]
      /\ CleanIdempotency \in [Keys -> Entry]
  BY <1>t, CleanType
<1>1. CASE Tick
  BY <1>t, <1>1 DEF Tick, LeaseInv, TypeOK, SidsFresh, BindingEvidence,
                    IssuedToTargets, AckEvidence
<1>2. CASE Restart
  <2>1. NoSession \in Session /\ NoBinding \in Binding /\ NoEntry \in Entry /\ Idle \in Handler
    BY DEF NoSession, Session, NoAck, Ack, States, NoBinding, Binding,
           NoEntry, Entry, Idle, Handler
  <2>2. TypeOK'
    BY <1>t, <1>2, <2>1 DEF Restart, TypeOK
  <2>3. \A t \in issued : t[2] # 0 /\ t[2] <= lastSid
    BY <1>t DEF TypeOK, SidsFresh
  <2>4. SidsFresh' /\ BindingEvidence' /\ IssuedToTargets' /\ AckEvidence'
    BY <1>t, <1>2, <2>3 DEF Restart, SidsFresh, BindingEvidence, IssuedToTargets,
                            AckEvidence, NoSession, NoBinding, NoAck, TypeOK
  <2> QED  BY <2>2, <2>4 DEF LeaseInv
<1>3. ASSUME NEW a \in Admins, NEW k \in Keys, NEW c \in Customers, BeginStart(a, k, c)
      PROVE  LeaseInv'
  <2>1. [stage |-> "ready", key |-> {k}, cust |-> {c},
         skipped |-> ~(sessions[c].sid = 0 \/ ~sessions[c].enabled
                       \/ now > sessions[c].expires)] \in Handler
    BY DEF Handler
  <2>2. TypeOK'
    BY <1>t, <1>3, <2>1 DEF BeginStart, TypeOK
  <2> QED
    BY <1>t, <1>3, <2>2 DEF BeginStart, LeaseInv, SidsFresh, BindingEvidence,
                            IssuedToTargets, AckEvidence
<1>4. ASSUME NEW a \in Admins, StartSession(a)
      PROVE  LeaseInv'
  <2>1. PICK k \in pending[a].key, c \in pending[a].cust :
          \/ StartAnswered(a, k, c)
          \/ StartJoined(a, k, c)
          \/ \E targets \in SUBSET Nodes : StartCreated(a, k, c, targets)
    BY <1>4 DEF StartSession
  <2>2. /\ k \in Keys /\ c \in Customers /\ bindings' = CleanBindings
        /\ pending' \in [Admins -> Handler] /\ issued' = issued /\ now' = now
    BY <1>t, <1>4, <2>1 DEF StartSession, TypeOK, Handler, Idle
  <2>3. BindingEvidence'
    BY <2>2, CleanInv DEF BindingEvidence
  <2>4. CASE StartAnswered(a, k, c) \/ StartJoined(a, k, c)
    <3>1. /\ sessions' = CleanSessions /\ lastSid' = lastSid
          /\ unchecked' = unchecked /\ controlVersion' = controlVersion
      BY <2>4 DEF StartAnswered, StartJoined
    <3>2. idempotency' \in [Keys -> Entry]
      <4>1. CleanSessions[c].sid \in 0 .. MaxSid
        BY <1>c, <2>2 DEF Session
      <4>2. [cust |-> {c}, sid |-> CleanSessions[c].sid, at |-> now] \in Entry
        BY <1>t, <2>2, <4>1 DEF TypeOK, Entry
      <4> QED  BY <1>c, <2>2, <2>4, <4>2 DEF StartAnswered, StartJoined
    <3>3. TypeOK'
      BY <1>t, <1>c, <2>2, <3>1, <3>2 DEF TypeOK
    <3>4. SidsFresh' /\ IssuedToTargets' /\ AckEvidence'
      BY <1>t, <2>2, <3>1, CleanInv DEF SidsFresh, IssuedToTargets, AckEvidence
    <3> QED  BY <2>3, <3>3, <3>4 DEF LeaseInv
  <2>5. ASSUME NEW targets \in SUBSET Nodes, StartCreated(a, k, c, targets)
        PROVE  LeaseInv'
    <3> DEFINE new == [sid |-> lastSid + 1, rev |-> 1, enabled |-> TRUE,
                       state |-> "pending", targets |-> targets,
                       acks |-> [n \in Nodes |-> NoAck],
                       expires |-> now + MaxSessionDuration]
    <3>1. lastSid \in Nat /\ lastSid' = lastSid + 1 /\ lastSid' \in 0 .. MaxSid
      BY <1>t, <2>5 DEF StartCreated, TypeOK
    <3>2. new \in Session
      BY <1>t, <3>1, <2>5 DEF TypeOK, Session, States, NoAck, Ack
    <3>3. sessions' = [CleanSessions EXCEPT ![c] = new]
      BY <2>5 DEF StartCreated
    <3>4. [cust |-> {c}, sid |-> lastSid + 1, at |-> now] \in Entry
      BY <1>t, <2>2, <3>1 DEF TypeOK, Entry
    <3>5. unchecked' \subseteq 1 .. MaxSid
      <4>1. unchecked' \subseteq unchecked \cup {lastSid + 1}
        BY <2>5, Zenon DEF StartCreated
      <4>2. lastSid + 1 \in 1 .. MaxSid
        BY <3>1
      <4> QED  BY <1>t, <4>1, <4>2 DEF TypeOK
    <3>6. TypeOK'
      BY <1>t, <1>c, <2>2, <2>5, <3>1, <3>2, <3>3, <3>4, <3>5 DEF TypeOK, StartCreated
    <3>7. \A t \in issued : t[2] <= lastSid /\ t[2] # lastSid + 1 /\ t[2] \in Nat
      BY <1>t, <3>1 DEF SidsFresh, TypeOK
    <3>8. \A d \in Customers : sessions'[d] = IF d = c THEN new ELSE CleanSessions[d]
      BY <1>c, <2>2, <3>3
    <3>9. \A d \in Customers : CleanSessions[d].sid \in Nat
      BY <1>c DEF Session
    <3>10. SidsFresh' /\ IssuedToTargets' /\ AckEvidence'
      BY <2>2, <3>1, <3>7, <3>8, <3>9, CleanInv
         DEF SidsFresh, IssuedToTargets, AckEvidence, NoAck
    <3> QED  BY <2>3, <3>6, <3>10 DEF LeaseInv
  <2> QED  BY <2>1, <2>4, <2>5
<1>5. ASSUME NEW c \in Customers, NEW sid \in 1 .. MaxSid, StopSession(c, sid)
      PROVE  LeaseInv'
  <2> DEFINE s == [sessions[c] EXCEPT !.rev = sessions[c].rev + 1, !.enabled = FALSE]
             u == Stop(sessions[c])
  <2>1. sessions[c] \in Session /\ DerivedState(s) \in States
    BY <1>t, DerivedType DEF TypeOK
  <2>2. /\ u \in Session /\ u.sid = sessions[c].sid /\ u.targets = sessions[c].targets
        /\ u.acks = sessions[c].acks /\ ~u.enabled
    <3>1. /\ s \in Session /\ s.sid = sessions[c].sid /\ s.acks = sessions[c].acks
          /\ s.targets = sessions[c].targets /\ ~s.enabled
      <4>1. sessions[c].rev + 1 \in Nat
        BY <2>1 DEF Session
      <4> QED  BY <2>1, <4>1 DEF Session
    <3>2. u = [s EXCEPT !.state = DerivedState(s)]
      BY DEF Stop
    <3> HIDE DEF s, u
    <3> QED  BY <2>1, <3>1, <3>2 DEF Session
  <2>3. sessions' = [sessions EXCEPT ![c] = u]
    BY <1>5 DEF StopSession
  <2> HIDE DEF u
  <2>4. TypeOK'
    BY <1>t, <1>5, <2>2, <2>3 DEF StopSession, TypeOK
  <2>5. SidsFresh' /\ BindingEvidence' /\ IssuedToTargets' /\ AckEvidence'
    BY <1>t, <1>5, <2>2, <2>3 DEF StopSession, TypeOK, SidsFresh, BindingEvidence,
                                  IssuedToTargets, AckEvidence
  <2> QED  BY <2>4, <2>5 DEF LeaseInv
<1>6. ASSUME NEW n \in Nodes, NEW r \in Requests, BuildNodeSnapshot(n, r)
      PROVE  LeaseInv'
  <2> DEFINE shown == {c \in Customers : InSnapshot(CleanSessions[c], n)}
             revs == [i \in 1 .. MaxSid |->
               IF \E c \in shown : CleanSessions[c].sid = i
               THEN CleanSessions[CHOOSE c \in shown : CleanSessions[c].sid = i].rev
               ELSE 0]
             b == [version |-> controlVersion, at |-> now, revs |-> revs]
  <2>1. /\ sessions' = CleanSessions /\ idempotency' = CleanIdempotency
        /\ bindings' = [CleanBindings EXCEPT ![n][r] = b]
        /\ issued' = issued \cup
             {<<n, CleanSessions[c].sid, CleanSessions[c].rev>> : c \in shown}
        /\ UNCHANGED <<now, controlVersion, lastSid, pending, unchecked>>
    BY <1>6 DEF BuildNodeSnapshot
  <2>2. \A c \in shown :
          /\ CleanSessions[c].sid \in 1 .. MaxSid /\ CleanSessions[c].rev \in Nat
          /\ n \in CleanSessions[c].targets /\ CleanSessions[c].sid <= lastSid
    BY <1>c, CleanInv DEF InSnapshot, Session
  <2>3. \A i \in 1 .. MaxSid :
          /\ revs[i] \in Nat
          /\ revs[i] # 0 => <<n, i, revs[i]>> \in issued'
    BY <2>1, <2>2
  <2>4. b \in Binding
    BY <1>t, <2>3 DEF TypeOK, Binding
  <2> HIDE DEF b, revs
  <2>5. TypeOK'
    BY <1>t, <1>c, <2>1, <2>2, <2>4 DEF TypeOK
  <2>6. BindingEvidence'
    <3>1. ASSUME NEW m \in Nodes, NEW q \in Requests
          PROVE  bindings'[m][q] = IF m = n /\ q = r THEN b ELSE CleanBindings[m][q]
      BY <1>c, <2>1
    <3>2. b.revs = revs
      BY DEF b
    <3>3. \A m \in Nodes, q \in Requests, i \in 1 .. MaxSid :
            CleanBindings[m][q].revs[i] # 0 =>
              <<m, i, CleanBindings[m][q].revs[i]>> \in issued'
      BY <2>1, CleanInv
    <3> QED  BY <2>3, <3>1, <3>2, <3>3 DEF BindingEvidence
  <2>7. SidsFresh'
    BY <1>t, <2>1, <2>2, CleanInv DEF SidsFresh
  <2>8. IssuedToTargets'
    <3>1. ASSUME NEW c \in Customers, NEW d \in shown,
                 CleanSessions[d].sid = CleanSessions[c].sid
          PROVE  n \in CleanSessions[c].targets
      <4>1. d = c
        BY <2>2, <3>1, CleanInv
      <4> QED  BY <2>2, <4>1
    <3> QED  BY <2>1, <3>1, CleanInv DEF IssuedToTargets
  <2>9. AckEvidence'
    BY <2>1, CleanInv DEF AckEvidence
  <2> QED  BY <2>5, <2>6, <2>7, <2>8, <2>9 DEF LeaseInv
<1>7. ASSUME NEW n \in Nodes, NEW r \in Requests, NEW v \in 1 .. controlVersion,
             NEW reports \in AckReports, ProcessNodeAck(n, r, v, reports)
      PROVE  LeaseInv'
  <2> DEFINE b == bindings[n][r]
             ok == Accepted(b, reports)
  <2>1. b \in Binding /\ ok \in SUBSET DOMAIN reports
    BY <1>t DEF TypeOK, Accepted
  <2>2. sessions' = [c \in Customers |-> AckSession(sessions[c], n, reports, ok)]
    BY <1>7 DEF ProcessNodeAck
  <2>3. \A c \in Customers :
          /\ sessions'[c] \in Session
          /\ sessions'[c].sid = sessions[c].sid
          /\ sessions'[c].enabled = sessions[c].enabled
          /\ sessions'[c].targets = sessions[c].targets
    BY <1>t, <2>1, <2>2, AckType DEF TypeOK
  <2>4. TypeOK'
    BY <1>t, <1>7, <2>2, <2>3 DEF ProcessNodeAck, TypeOK
  <2>5. SidsFresh' /\ BindingEvidence' /\ IssuedToTargets'
    BY <1>t, <1>7, <2>3 DEF ProcessNodeAck, SidsFresh, BindingEvidence, IssuedToTargets
  <2>6. ASSUME NEW c \in Customers, NEW m \in Nodes, sessions'[c].acks[m].rev # 0
        PROVE  /\ m \in sessions'[c].targets
               /\ <<m, sessions'[c].sid, sessions'[c].acks[m].rev>> \in issued'
    <3>1. issued' = issued
      BY <1>7 DEF ProcessNodeAck
    <3>2. CASE sessions'[c].acks[m] = sessions[c].acks[m]
      BY <1>t, <2>3, <2>6, <3>1, <3>2 DEF AckEvidence
    <3>3. CASE /\ m = n /\ sessions[c].sid \in 1 .. MaxSid
               /\ b.revs[sessions[c].sid] = sessions'[c].acks[m].rev
      <4>1. <<m, sessions[c].sid, sessions'[c].acks[m].rev>> \in issued
        BY <1>t, <2>6, <3>3 DEF BindingEvidence
      <4> QED  BY <1>t, <2>3, <3>1, <4>1 DEF IssuedToTargets
    <3> QED
      BY <1>t, <2>1, <2>2, <3>2, <3>3, AckRecord DEF TypeOK
  <2> QED  BY <2>4, <2>5, <2>6 DEF LeaseInv, AckEvidence
<1>8. CASE UNCHANGED vars
  BY <1>t, <1>8 DEF vars, LeaseInv, TypeOK, SidsFresh, BindingEvidence,
                    IssuedToTargets, AckEvidence
<1> QED
  BY <1>1, <1>2, <1>3, <1>4, <1>5, <1>6, <1>7, <1>8 DEF Next

\* lease.go: the service's maps keep their types and every acknowledgement on
\* record is for a targeted node that was sent that session at that revision,
\* for any number of customers, nodes, keys and requests.
THEOREM AckEvidenceHolds == Spec => [](TypeOK /\ AckEvidence)
<1>1. LeaseInv => TypeOK /\ AckEvidence
  BY DEF LeaseInv
<1> QED
  BY LeaseInit, LeaseNext, <1>1, PTL DEF Spec

-----------------------------------------------------------------------------
(* The reported state, the limit on sessions, and what no step may do.     *)

StateTrue(s) ==
  /\ s.state = "active" => s.enabled /\ Effective(s) = s.targets
  /\ s.state = "partial" => s.enabled /\ Effective(s) \notin {{}, s.targets}
  /\ s.state = "stopped" => ~s.enabled /\ AllStopped(s)

\* A session whose state was derived anew tells the truth.
LEMMA DerivedTrue ==
  ASSUME NEW t \in Session
  PROVE  StateTrue([t EXCEPT !.state = DerivedState(t)])
<1> DEFINE s == [t EXCEPT !.state = DerivedState(t)]
<1>1. /\ s.state = DerivedState(t) /\ s.enabled = t.enabled /\ s.targets = t.targets
      /\ s.acks = t.acks /\ s.rev = t.rev
  BY DEF Session
<1> HIDE DEF s
<1>2. Effective(s) = Effective(t) /\ (AllStopped(t) => AllStopped(s))
  BY <1>1 DEF Effective, AllStopped
<1>3. /\ DerivedState(t) = "active" => t.enabled /\ Effective(t) = t.targets
      /\ DerivedState(t) = "partial" => t.enabled /\ Effective(t) # t.targets /\ Effective(t) # {}
      /\ DerivedState(t) = "stopped" => ~t.enabled /\ AllStopped(t)
  <2> DEFINE e == t.enabled
             A == AllStopped(t)
             F == Effective(t)
  <2>1. e \in BOOLEAN
    BY DEF Session
  <2> HIDE DEF A, F, e
  <2>2. DerivedState(t) = CASE ~e /\ A -> "stopped"
                            [] ~e /\ ~A -> "stopping"
                            [] e /\ F = t.targets -> "active"
                            [] e /\ F # t.targets /\ F # {} -> "partial"
                            [] OTHER -> "pending"
    BY DEF DerivedState, A, F, e
  <2>3. /\ DerivedState(t) = "active" => e /\ F = t.targets
        /\ DerivedState(t) = "partial" => e /\ F # t.targets /\ F # {}
        /\ DerivedState(t) = "stopped" => ~e /\ A
    BY <2>1, <2>2
  <2> QED  BY <2>3 DEF e, A, F
<1>q. StateTrue(s)
  BY <1>1, <1>2, <1>3 DEF StateTrue
<1> QED
  BY <1>q DEF s

\* Sweeping a session leaves its state true.
LEMMA CleanTrue ==
  ASSUME TypeOK, NEW c \in Customers, StateTrue(sessions[c])
  PROVE  StateTrue(CleanSessions[c])
<1>1. CleanSessions[c] = CleanSession(sessions[c]) /\ sessions[c] \in Session
  BY DEF CleanSessions, TypeOK
<1>2. CleanSessions[c] = sessions[c] \/ CleanSessions[c].state = "expired"
  BY <1>1 DEF CleanSession, Expire, NoSession, Session
<1> QED
  BY <1>2 DEF StateTrue

LEMMA StateNext ==
  ASSUME LeaseInv, ReportedStateTrue, [Next]_vars
  PROVE  ReportedStateTrue'
<1>t. TypeOK /\ \A c \in Customers : sessions[c] \in Session /\ StateTrue(sessions[c])
  BY DEF LeaseInv, ReportedStateTrue, TypeOK, StateTrue
<1>c. \A c \in Customers : StateTrue(CleanSessions[c])
  BY <1>t, CleanTrue
<1> SUFFICES \A c \in Customers : StateTrue(sessions'[c])
  BY DEF ReportedStateTrue, StateTrue, Effective, AllStopped
<1>1. CASE UNCHANGED sessions
  BY <1>t, <1>1
<1>2. CASE Restart
  BY <1>2 DEF Restart, StateTrue, NoSession
<1>3. ASSUME NEW a \in Admins, StartSession(a)
      PROVE  \A c \in Customers : StateTrue(sessions'[c])
  <2>1. PICK k \in pending[a].key, c \in pending[a].cust :
          \/ StartAnswered(a, k, c)
          \/ StartJoined(a, k, c)
          \/ \E targets \in SUBSET Nodes : StartCreated(a, k, c, targets)
    BY <1>3 DEF StartSession
  <2>2. CASE StartAnswered(a, k, c) \/ StartJoined(a, k, c)
    BY <1>c, <2>2 DEF StartAnswered, StartJoined
  <2>3. ASSUME NEW targets \in SUBSET Nodes, StartCreated(a, k, c, targets)
        PROVE  \A d \in Customers : StateTrue(sessions'[d])
    <3> DEFINE new == [sid |-> lastSid + 1, rev |-> 1, enabled |-> TRUE,
                       state |-> "pending", targets |-> targets,
                       acks |-> [n \in Nodes |-> NoAck],
                       expires |-> now + MaxSessionDuration]
    <3>1. StateTrue(new)
      BY DEF StateTrue
    <3>2. sessions' = [CleanSessions EXCEPT ![c] = new]
      BY <2>3 DEF StartCreated
    <3> HIDE DEF new
    <3>3. \A d \in Customers : sessions'[d] \in {new, CleanSessions[d]}
      BY <3>2 DEF CleanSessions
    <3> QED  BY <1>c, <3>1, <3>3
  <2> QED  BY <2>1, <2>2, <2>3
<1>4. ASSUME NEW c \in Customers, NEW sid \in 1 .. MaxSid, StopSession(c, sid)
      PROVE  \A d \in Customers : StateTrue(sessions'[d])
  <2> DEFINE t == [sessions[c] EXCEPT !.rev = sessions[c].rev + 1, !.enabled = FALSE]
  <2>1. sessions[c] \in Session /\ sessions \in [Customers -> Session]
    BY <1>t DEF TypeOK
  <2>2. t \in Session
    <3>1. sessions[c].rev + 1 \in Nat
      BY <2>1 DEF Session
    <3> QED  BY <2>1, <3>1 DEF Session
  <2>3. Stop(sessions[c]) = [t EXCEPT !.state = DerivedState(t)]
    BY DEF Stop
  <2> HIDE DEF t
  <2>4. StateTrue(Stop(sessions[c]))
    BY <2>2, <2>3, DerivedTrue
  <2>5. sessions' = [sessions EXCEPT ![c] = Stop(sessions[c])]
    BY <1>4 DEF StopSession
  <2> QED  BY <1>t, <2>1, <2>4, <2>5
<1>5. ASSUME NEW n \in Nodes, NEW r \in Requests, BuildNodeSnapshot(n, r)
      PROVE  \A c \in Customers : StateTrue(sessions'[c])
  BY <1>c, <1>5 DEF BuildNodeSnapshot
<1>6. ASSUME NEW n \in Nodes, NEW r \in Requests, NEW v \in 1 .. controlVersion,
             NEW reports \in AckReports, ProcessNodeAck(n, r, v, reports),
             NEW c \in Customers
      PROVE  StateTrue(sessions'[c])
  <2> DEFINE ok == Accepted(bindings[n][r], reports)
             s == sessions[c]
             mine == {i \in ok : reports[i].sid = s.sid}
             last == reports[Latest(mine)]
             t == [s EXCEPT !.acks[n] = [rev |-> last.rev, eff |-> last.eff]]
  <2>1. sessions'[c] = AckSession(s, n, reports, ok)
    BY <1>6 DEF ProcessNodeAck
  <2>2. CASE mine = {}
    BY <1>t, <2>1, <2>2 DEF AckSession
  <2>3. CASE mine # {}
    <3>1. sessions'[c] = [t EXCEPT !.state = DerivedState(t)]
      BY <2>1, <2>3 DEF AckSession
    <3>2. t \in Session
      <4>1. DOMAIN reports \in {{1}, {1, 2}} /\ \A i \in DOMAIN reports : reports[i] \in Report
        BY DEF AckReports
      <4>2. Latest(mine) \in mine
        <5>1. mine \subseteq DOMAIN reports
          BY DEF Accepted
        <5>2. \E i \in mine : \A j \in mine : j <= i
          BY <2>3, <4>1, <5>1
        <5> QED  BY <5>2 DEF Latest
      <4>3. last \in Report
        BY <4>1, <4>2 DEF Accepted
      <4>4. [rev |-> last.rev, eff |-> last.eff] \in Ack
        BY <4>3 DEF Report, Ack
      <4> QED  BY <1>t, <4>4 DEF Session
    <3> HIDE DEF t
    <3> QED  BY <3>1, <3>2, DerivedTrue
  <2> QED  BY <2>2, <2>3
<1>7. CASE Tick \/ (\E a \in Admins, k \in Keys, c \in Customers : BeginStart(a, k, c))
  BY <1>1, <1>7 DEF Tick, BeginStart
<1>8. CASE UNCHANGED vars
  BY <1>1, <1>8 DEF vars
<1> QED
  BY <1>2, <1>3, <1>4, <1>5, <1>6, <1>7, <1>8 DEF Next

\* updateSessionState: whatever acknowledgements arrive, in whatever order, the
\* state an operator sees is never better than what the targets confirmed.
THEOREM ReportsTrue == Spec => []ReportedStateTrue
<1>1. Init => ReportedStateTrue
  BY DEF Init, ReportedStateTrue, NoSession
<1>2. LeaseInv /\ ReportedStateTrue /\ [Next]_vars => ReportedStateTrue'
  BY StateNext
<1> QED
  BY LeaseInit, LeaseNext, <1>1, <1>2, PTL DEF Spec

-----------------------------------------------------------------------------
\* The sessions that count as running are finitely many and within the limit.
RunningSet == {c \in Customers : Running(sessions[c])}
LimitInv == IsFiniteSet(RunningSet) /\ Cardinality(RunningSet) <= MaxConcurrentSessions

\* The sweep neither starts nor stops a running session.
LEMMA CleanRunning ==
  ASSUME TypeOK, NEW c \in Customers
  PROVE  /\ Running(CleanSessions[c]) <=> Running(sessions[c])
         /\ Running(sessions[c]) => CleanSessions[c] = sessions[c]
<1>1. /\ CleanSessions[c] = CleanSession(sessions[c]) /\ sessions[c] \in Session
      /\ now \in Nat
  BY DEF CleanSessions, TypeOK
<1>2. sessions[c].expires \in Nat /\ sessions[c].enabled \in BOOLEAN
  BY <1>1 DEF Session
<1>3. CASE sessions[c].enabled /\ now < sessions[c].expires
  <2>1. Expire(sessions[c]) = sessions[c]
    BY <1>1, <1>2, <1>3 DEF Expire
  <2> QED  BY <1>1, <1>3, <2>1 DEF CleanSession, Running
<1>4. CASE ~(sessions[c].enabled /\ now < sessions[c].expires)
  BY <1>1, <1>2, <1>4 DEF CleanSession, Expire, Running, NoSession, Session
<1> QED  BY <1>3, <1>4 DEF Running

\* Fewer running sessions keep the limit.
LEMMA LimitShrinks ==
  ASSUME LimitInv, RunningSet' \subseteq RunningSet
  PROVE  LimitInv'
BY FS_Subset, FS_CardinalityType, LeaseConstants DEF LimitInv

LEMMA LimitNext ==
  ASSUME LeaseInv, LimitInv, [Next]_vars
  PROVE  LimitInv'
<1>t. TypeOK /\ sessions \in [Customers -> Session] /\ now \in Nat
  BY DEF LeaseInv, TypeOK
<1>c. RunningSet = {c \in Customers : Running(CleanSessions[c])}
  BY <1>t, CleanRunning DEF RunningSet
<1>1. CASE UNCHANGED <<now, sessions>>
  BY <1>1, LimitShrinks DEF RunningSet, Running
<1>2. CASE Tick
  <2>1. \A c \in Customers : sessions[c].expires \in Nat
    BY <1>t DEF Session
  <2> QED  BY <1>2, <1>t, <2>1, LimitShrinks DEF Tick, RunningSet, Running
<1>3. CASE Restart
  BY <1>3, LimitShrinks DEF Restart, RunningSet, Running, NoSession
<1>4. CASE sessions' = CleanSessions /\ now' = now
  BY <1>c, <1>4, LimitShrinks DEF RunningSet, Running
<1>5. ASSUME NEW a \in Admins, StartSession(a)
      PROVE  LimitInv'
  <2>1. PICK k \in pending[a].key, c \in pending[a].cust :
          \/ StartAnswered(a, k, c)
          \/ StartJoined(a, k, c)
          \/ \E targets \in SUBSET Nodes : StartCreated(a, k, c, targets)
    BY <1>5 DEF StartSession
  <2>2. now' = now
    BY <1>5 DEF StartSession
  <2>3. CASE StartAnswered(a, k, c) \/ StartJoined(a, k, c)
    BY <1>4, <2>2, <2>3 DEF StartAnswered, StartJoined
  <2>4. ASSUME NEW targets \in SUBSET Nodes, StartCreated(a, k, c, targets)
        PROVE  LimitInv'
    <3>1. Cardinality(RunningSet) < MaxConcurrentSessions
      BY <1>c, <2>4 DEF StartCreated, ActiveCount
    <3>2. \A d \in Customers \ {c} : sessions'[d] = CleanSessions[d]
      BY <2>4 DEF StartCreated, CleanSessions
    <3>3. RunningSet' \subseteq RunningSet \cup {c}
      BY <1>c, <2>2, <3>2 DEF RunningSet, Running
    <3>4. /\ IsFiniteSet(RunningSet \cup {c})
          /\ Cardinality(RunningSet \cup {c}) <= Cardinality(RunningSet) + 1
          /\ Cardinality(RunningSet \cup {c}) \in Nat /\ Cardinality(RunningSet) \in Nat
      <4>1. IsFiniteSet(RunningSet) /\ Cardinality(RunningSet) \in Nat
        BY FS_CardinalityType DEF LimitInv
      <4>2. /\ IsFiniteSet(RunningSet \cup {c})
            /\ Cardinality(RunningSet \cup {c}) =
                 IF c \in RunningSet THEN Cardinality(RunningSet) ELSE Cardinality(RunningSet) + 1
        BY <4>1, FS_AddElement
      <4> QED  BY <4>1, <4>2
    <3>5. /\ IsFiniteSet(RunningSet') /\ Cardinality(RunningSet') \in Nat
          /\ Cardinality(RunningSet') <= Cardinality(RunningSet \cup {c})
      BY <3>3, <3>4, FS_Subset, FS_CardinalityType
    <3> QED  BY <3>1, <3>4, <3>5, LeaseConstants DEF LimitInv
  <2> QED  BY <2>1, <2>3, <2>4
<1>6. ASSUME NEW c \in Customers, NEW sid \in 1 .. MaxSid, StopSession(c, sid)
      PROVE  LimitInv'
  <2>1. \A d \in Customers \ {c} : sessions'[d] = sessions[d]
    BY <1>t, <1>6 DEF StopSession
  <2>2. now' = now /\ c \in Customers
    BY <1>6 DEF StopSession
  <2>3. ~sessions'[c].enabled
    <3>1. sessions'[c] = Stop(sessions[c]) /\ sessions[c] \in Session
      BY <1>t, <1>6 DEF StopSession
    <3> QED  BY <3>1 DEF Stop, Session
  <2>4. RunningSet' \subseteq RunningSet
    BY <2>1, <2>2, <2>3 DEF RunningSet, Running
  <2> QED  BY <2>4, LimitShrinks
<1>7. ASSUME NEW n \in Nodes, NEW r \in Requests, BuildNodeSnapshot(n, r)
      PROVE  LimitInv'
  BY <1>4, <1>7 DEF BuildNodeSnapshot
<1>8. ASSUME NEW n \in Nodes, NEW r \in Requests, NEW v \in 1 .. controlVersion,
             NEW reports \in AckReports, ProcessNodeAck(n, r, v, reports)
      PROVE  LimitInv'
  <2> DEFINE ok == Accepted(bindings[n][r], reports)
  <2>1. ok \in SUBSET DOMAIN reports /\ now' = now
    BY <1>8 DEF ProcessNodeAck, Accepted
  <2>2. \A c \in Customers : sessions'[c] = AckSession(sessions[c], n, reports, ok)
    BY <1>8 DEF ProcessNodeAck
  <2> HIDE DEF ok
  <2>3. \A c \in Customers : sessions'[c].enabled = sessions[c].enabled /\ sessions'[c].expires = sessions[c].expires
    BY <1>t, <2>1, <2>2, AckType
  <2>4. RunningSet' \subseteq RunningSet
    BY <2>1, <2>3 DEF RunningSet, Running
  <2> QED  BY <2>4, LimitShrinks
<1>9. CASE (\E a \in Admins, k \in Keys, c \in Customers : BeginStart(a, k, c)) \/ UNCHANGED vars
  BY <1>1, <1>9 DEF BeginStart, vars
<1> QED
  BY <1>2, <1>3, <1>5, <1>6, <1>7, <1>8, <1>9 DEF Next

\* StartSession: the limit on concurrent sessions holds for any number of
\* customers and any interleaving of starts, stops, expiries and restarts.
THEOREM LimitHolds == Spec => []ConcurrencyLimit
<1>1. Init => LimitInv
  <2> SUFFICES ASSUME Init PROVE LimitInv
    OBVIOUS
  <2>1. RunningSet = {}
    BY DEF Init, RunningSet, Running, NoSession
  <2> QED  BY <2>1, FS_EmptySet, LeaseConstants DEF LimitInv
<1>2. LeaseInv /\ LimitInv /\ [Next]_vars => LimitInv'
  BY LimitNext
<1>3. LimitInv => ConcurrencyLimit
  BY DEF LimitInv, ConcurrencyLimit, RunningSet
<1> QED
  BY LeaseInit, LeaseNext, <1>1, <1>2, <1>3, PTL DEF Spec

-----------------------------------------------------------------------------
\* An idempotency entry names one customer.
KeysSingle == \A k \in Keys : \A c, d \in idempotency[k].cust : c = d

\* What a start does to one key: the swept entry stays, or it is given to a
\* customer it does not already stand for.
LEMMA StartKeys ==
  ASSUME TypeOK, NEW a \in Admins, StartSession(a), NEW k \in Keys
  PROVE  \/ idempotency'[k] = CleanIdempotency[k]
         \/ \E c \in Customers :
              /\ ~KeyConflict(k, c) /\ ~KeyReplay(k, c)
              /\ idempotency'[k].cust = {c}
              /\ sessions'[c].sid \in {CleanSessions[c].sid, lastSid + 1}
<1>1. PICK l \in pending[a].key, c \in pending[a].cust :
        \/ StartAnswered(a, l, c)
        \/ StartJoined(a, l, c)
        \/ \E targets \in SUBSET Nodes : StartCreated(a, l, c, targets)
  BY DEF StartSession
<1>2. l \in Keys /\ c \in Customers
  BY <1>1 DEF TypeOK, Handler
<1>c. CleanIdempotency \in [Keys -> Entry] /\ CleanSessions \in [Customers -> Session]
  BY CleanType
<1>3. CASE k # l \/ StartAnswered(a, l, c)
  BY <1>1, <1>2, <1>3, <1>c DEF StartAnswered, StartJoined, StartCreated
<1>4. CASE k = l /\ StartJoined(a, l, c)
  BY <1>2, <1>4, <1>c DEF StartJoined
<1>5. ASSUME k = l, NEW targets \in SUBSET Nodes, StartCreated(a, l, c, targets)
      PROVE  /\ ~KeyConflict(k, c) /\ ~KeyReplay(k, c)
             /\ idempotency'[k].cust = {c}
             /\ sessions'[c].sid \in {CleanSessions[c].sid, lastSid + 1}
  <2>1. idempotency'[k] = [cust |-> {c}, sid |-> lastSid + 1, at |-> now]
    BY <1>2, <1>5, <1>c DEF StartCreated
  <2>2. sessions'[c] = [sid |-> lastSid + 1, rev |-> 1, enabled |-> TRUE, state |-> "pending",
                        targets |-> targets, acks |-> [n \in Nodes |-> NoAck],
                        expires |-> now + MaxSessionDuration]
    BY <1>2, <1>5, <1>c DEF StartCreated
  <2>3. ~KeyConflict(k, c) /\ ~KeyReplay(k, c)
    BY <1>5 DEF StartCreated
  <2> QED  BY <2>1, <2>2, <2>3
<1> QED  BY <1>1, <1>2, <1>3, <1>4, <1>5

LEMMA SingleNext ==
  ASSUME LeaseInv, KeysSingle, [Next]_vars
  PROVE  KeysSingle'
<1>t. TypeOK
  BY DEF LeaseInv
<1>c. \A k \in Keys : \A c, d \in CleanIdempotency[k].cust : c = d
  BY DEF KeysSingle, CleanIdempotency, NoEntry
<1>1. CASE UNCHANGED idempotency
  BY <1>1 DEF KeysSingle
<1>2. CASE Restart
  BY <1>2 DEF Restart, KeysSingle, NoEntry
<1>3. ASSUME NEW a \in Admins, StartSession(a)
      PROVE  KeysSingle'
  <2> SUFFICES ASSUME NEW k \in Keys
               PROVE  \A c, d \in idempotency'[k].cust : c = d
    BY DEF KeysSingle
  <2>1. CASE idempotency'[k] = CleanIdempotency[k]
    BY <1>c, <2>1
  <2>2. CASE \E c \in Customers : idempotency'[k].cust = {c}
    BY <2>2
  <2> QED  BY <1>t, <1>3, <2>1, <2>2, StartKeys
<1>4. ASSUME NEW n \in Nodes, NEW r \in Requests, BuildNodeSnapshot(n, r)
      PROVE  KeysSingle'
  BY <1>c, <1>4 DEF BuildNodeSnapshot, KeysSingle
<1>5. CASE \/ Tick
           \/ \E a \in Admins, k \in Keys, c \in Customers : BeginStart(a, k, c)
           \/ \E c \in Customers, sid \in 1 .. MaxSid : StopSession(c, sid)
           \/ \E n \in Nodes, r \in Requests, v \in 1 .. controlVersion,
                 reports \in AckReports : ProcessNodeAck(n, r, v, reports)
           \/ UNCHANGED vars
  BY <1>1, <1>5 DEF Tick, BeginStart, StopSession, ProcessNodeAck, vars
<1> QED
  BY <1>2, <1>3, <1>4, <1>5 DEF Next

\* One session, from one state to the next.
LEMMA SessionStep ==
  ASSUME LeaseInv, Next
  PROVE  LeaseStep
<1>t. TypeOK /\ SidsFresh /\ sessions \in [Customers -> Session] /\ lastSid \in Nat
  BY LeaseConstants DEF LeaseInv, TypeOK
<1>s. \A c \in Customers :
        /\ sessions[c].rev \in Nat /\ sessions[c].sid \in Nat /\ sessions[c].sid <= lastSid
        /\ sessions[c].enabled \in BOOLEAN
  BY <1>t DEF Session, SidsFresh
<1> DEFINE Ok(c, t) == /\ sessions[c].sid # 0 /\ t.sid = sessions[c].sid =>
                            /\ t.expires = sessions[c].expires
                            /\ t.rev >= sessions[c].rev
                            /\ t.enabled => sessions[c].enabled
                       /\ Running(sessions[c]) => t.sid = sessions[c].sid
<1>0. SUFFICES \A c \in Customers : Ok(c, sessions'[c]) \/ (sessions'[c].sid = 0 /\ controlVersion' = 1)
  BY DEF LeaseStep
<1>1. CASE UNCHANGED sessions
  BY <1>s, <1>1
<1>2. CASE Restart
  BY <1>2 DEF Restart, NoSession
<1>c. \A c \in Customers : Ok(c, CleanSessions[c])
  <2> TAKE c \in Customers
  <2>1. Running(sessions[c]) => CleanSessions[c] = sessions[c]
    BY <1>t, CleanRunning
  <2>2. CASE CleanSessions[c] = NoSession
    BY <1>s, <2>1, <2>2 DEF NoSession
  <2>3. CASE CleanSessions[c] # NoSession
    BY <1>s, <1>t, <2>3, CleanShape
  <2> QED  BY <2>2, <2>3
<1>3. ASSUME NEW a \in Admins, StartSession(a)
      PROVE  \A c \in Customers : Ok(c, sessions'[c])
  <2>1. PICK k \in pending[a].key, c \in pending[a].cust :
          \/ StartAnswered(a, k, c)
          \/ StartJoined(a, k, c)
          \/ \E targets \in SUBSET Nodes : StartCreated(a, k, c, targets)
    BY <1>3 DEF StartSession
  <2>2. CASE StartAnswered(a, k, c) \/ StartJoined(a, k, c)
    BY <1>c, <2>2 DEF StartAnswered, StartJoined
  <2>3. ASSUME NEW targets \in SUBSET Nodes, StartCreated(a, k, c, targets)
        PROVE  \A d \in Customers : Ok(d, sessions'[d])
    <3>1. \A d \in Customers \ {c} : sessions'[d] = CleanSessions[d]
      BY <2>3 DEF StartCreated, CleanSessions
    <3>2. c \in Customers
      BY <1>t, <2>1 DEF TypeOK, Handler
    <3>3. sessions'[c].sid = lastSid + 1 /\ ~Running(CleanSessions[c])
      BY <2>3, <3>2 DEF StartCreated, CleanSessions
    <3>4. ~Running(sessions[c])
      BY <1>t, <3>2, <3>3, CleanRunning
    <3>5. Ok(c, sessions'[c])
      BY <1>s, <1>t, <3>2, <3>3, <3>4
    <3> QED  BY <1>c, <3>1, <3>5
  <2> QED  BY <2>1, <2>2, <2>3
<1>4. ASSUME NEW c \in Customers, NEW sid \in 1 .. MaxSid, StopSession(c, sid)
      PROVE  \A d \in Customers : Ok(d, sessions'[d])
  <2>1. \A d \in Customers \ {c} : sessions'[d] = sessions[d]
    BY <1>t, <1>4 DEF StopSession
  <2>2. sessions'[c] = Stop(sessions[c]) /\ sessions[c] \in Session
    BY <1>t, <1>4 DEF StopSession
  <2>3. /\ sessions'[c].sid = sessions[c].sid /\ sessions'[c].rev = sessions[c].rev + 1
        /\ sessions'[c].expires = sessions[c].expires /\ ~sessions'[c].enabled
    BY <2>2 DEF Stop, Session
  <2> QED  BY <1>s, <2>1, <2>3
<1>5. ASSUME NEW n \in Nodes, NEW r \in Requests, BuildNodeSnapshot(n, r)
      PROVE  \A c \in Customers : Ok(c, sessions'[c])
  BY <1>c, <1>5 DEF BuildNodeSnapshot
<1>6. ASSUME NEW n \in Nodes, NEW r \in Requests, NEW v \in 1 .. controlVersion,
             NEW reports \in AckReports, ProcessNodeAck(n, r, v, reports)
      PROVE  \A c \in Customers : Ok(c, sessions'[c])
  <2> DEFINE ok == Accepted(bindings[n][r], reports)
  <2>1. ok \in SUBSET DOMAIN reports
    BY DEF Accepted
  <2>2. \A c \in Customers : sessions'[c] = AckSession(sessions[c], n, reports, ok)
    BY <1>6 DEF ProcessNodeAck
  <2> HIDE DEF ok
  <2>3. \A c \in Customers : /\ sessions'[c].sid = sessions[c].sid /\ sessions'[c].rev = sessions[c].rev
                             /\ sessions'[c].enabled = sessions[c].enabled
                             /\ sessions'[c].expires = sessions[c].expires
    BY <1>t, <2>1, <2>2, AckType
  <2> QED  BY <1>s, <2>3
<1>7. CASE Tick \/ (\E a \in Admins, k \in Keys, c \in Customers : BeginStart(a, k, c))
  BY <1>1, <1>7 DEF Tick, BeginStart
<1> HIDE DEF Ok
<1> QED
  BY <1>2, <1>3, <1>4, <1>5, <1>6, <1>7 DEF Next

\* One key, from one state to the next.
LEMMA EntryStep ==
  ASSUME LeaseInv, KeysSingle, Next
  PROVE  KeyStep
<1>t. TypeOK /\ SidsFresh /\ lastSid \in Nat
  BY LeaseConstants DEF LeaseInv, TypeOK
<1> SUFFICES ASSUME NEW k \in Keys, NEW c \in Customers,
                    idempotency[k].sid # 0, c \in idempotency[k].cust,
                    sessions[c].sid = idempotency[k].sid,
                    now - idempotency[k].at <= IdempotencyTTL,
                    idempotency'[k].sid # 0, sessions'[c].sid = idempotency[k].sid
             PROVE  idempotency'[k] = idempotency[k]
  BY DEF KeyStep
<1>c. CleanIdempotency[k] = idempotency[k]
  <2>1. now \in Nat /\ idempotency[k].at \in Nat /\ IdempotencyTTL \in Nat
    BY <1>t, LeaseConstants DEF TypeOK, Entry
  <2>2. ~(now - idempotency[k].at > IdempotencyTTL)
    BY <2>1
  <2> QED  BY <2>2 DEF CleanIdempotency
<1>1. CASE UNCHANGED idempotency
  BY <1>1
<1>2. CASE Restart
  BY <1>2 DEF Restart, NoEntry
<1>3. ASSUME NEW a \in Admins, StartSession(a)
      PROVE  idempotency'[k] = idempotency[k]
  <2> SUFFICES ASSUME NEW d \in Customers, ~KeyConflict(k, d), ~KeyReplay(k, d),
                      sessions'[d].sid \in {CleanSessions[d].sid, lastSid + 1}
               PROVE  FALSE
    BY <1>c, <1>t, <1>3, StartKeys
  <2>1. d \in idempotency[k].cust
    BY <1>c DEF KeyConflict
  <2>2. d = c
    BY <2>1 DEF KeysSingle
  <2>3. CleanSessions[c].sid # idempotency[k].sid
    BY <1>c, <2>1, <2>2 DEF KeyReplay
  <2>4. sessions[c].sid <= lastSid /\ sessions[c].sid \in Nat
    BY <1>t DEF SidsFresh, TypeOK, Session
  <2> QED  BY <1>t, <2>2, <2>3, <2>4
<1>4. ASSUME NEW n \in Nodes, NEW r \in Requests, BuildNodeSnapshot(n, r)
      PROVE  idempotency'[k] = idempotency[k]
  BY <1>c, <1>4 DEF BuildNodeSnapshot
<1>5. CASE \/ Tick
           \/ \E a \in Admins, l \in Keys, d \in Customers : BeginStart(a, l, d)
           \/ \E d \in Customers, sid \in 1 .. MaxSid : StopSession(d, sid)
           \/ \E n \in Nodes, r \in Requests, v \in 1 .. controlVersion,
                 reports \in AckReports : ProcessNodeAck(n, r, v, reports)
  BY <1>1, <1>5 DEF Tick, BeginStart, StopSession, ProcessNodeAck
<1> QED
  BY <1>2, <1>3, <1>4, <1>5 DEF Next

\* StartSession, StopSession, cleanupExpired: no step extends a lease, switches
\* it on again or takes back a revision, and a key stands by its answer.
THEOREM HistoryHolds == Spec => LeaseHistory
<1>1. Init => KeysSingle
  BY DEF Init, KeysSingle, NoEntry
<1>2. LeaseInv /\ KeysSingle /\ [Next]_vars => KeysSingle'
  BY SingleNext
<1>3. LeaseInv /\ KeysSingle /\ [Next]_vars => [LeaseStep /\ KeyStep]_vars
  BY SessionStep, EntryStep
<1> QED
  BY LeaseInit, LeaseNext, <1>1, <1>2, <1>3, PTL DEF Spec, LeaseHistory

=============================================================================
