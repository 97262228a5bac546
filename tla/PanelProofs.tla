----------------------------- MODULE PanelProofs ----------------------------
(***************************************************************************)
(* Theorems about the accounts of the panel and its outboxes: what opens   *)
(* an account is current, registration admits what it should, and the      *)
(* outboxes keep their promise, for any number of accounts, addresses,     *)
(* requests, workers and messages, and any times and limits; and about the *)
(* administrators' bulk jobs, with mails, exports and bans in one panel.   *)
(***************************************************************************)
EXTENDS Accounts, BulkJobs, SumTheorems, SequenceTheorems

Kinds == {"reset", "registration", "link", "ticket", "reminder", "notice", "command"}
Statuses == {"pending", "sent", "failed", "cancelled"}
Names == Users \cup Addresses \cup Updates \cup {Nobody}
OutRow == [kind : Kinds, user : Users \cup {Nobody}, key : Names, code : Nat, status : Statuses,
           attempt : Nat, wait : Nat, claim : Nat, lease : Nat, deliveries : Nat]
Code == [kind : {"reset", "registration", "link", "quick"}, key : Addresses \cup {Nobody},
         user : Users \cup {Nobody}, code : Nat, life : Nat, resend : Nat, pw : Nat, fails : Nat, lock : Nat]
Cred == [user : Users, pw : Nat, via : {"password", "session", "link", "registration"}]
Job == [stage : {"idle", "claimed", "sending", "sent", "refused"}, row : Nat, token : Nat]
Cooling == [what : {"ticket", "link", "ip"}, key : Names \cup Nat, left : Nat]
Asked == [op : {"none", "login", "legacyLogin", "change", "token", "quick", "reset", "link", "register"},
          user : Users \cup Invitations \cup {Nobody}, key : Addresses \cup {Nobody}, code : Nat, pw : Nat,
          old : BOOLEAN, tries : Nat]
Update == [by : Hooks \cup {Nobody}, done : BOOLEAN, lease : Nat]
Hook == [stage : {"idle", "claimed"}, update : Updates \cup {Nobody}]

PanelTypes ==
    /\ users \in [Users -> Account] /\ rows \in Seq(OutRow) /\ jobs \in [Workers -> Job]
    /\ codes \in SUBSET Code /\ cooldowns \in SUBSET Cooling
    /\ updates \in [Updates -> Update] /\ hooks \in [Hooks -> Hook]
    /\ creds \in SUBSET Cred /\ requests \in [Handlers -> Asked] /\ invitations \in SUBSET Invitations
    /\ wrong \in [1..MaxRows -> Nat]
    /\ accScope.addresses \subseteq Addresses /\ accScope.handlers \subseteq Handlers

-----------------------------------------------------------------------------
(* An account that does not exist has no address, and nothing is held for one. *)
Exists(u) == u \in Users /\ users[u].life # "absent"
AbsentBlank == \A u \in Users : users[u].life = "absent" => users[u].email = Nobody

CredGood(c) == /\ Exists(c.user) /\ ~users[c.user].banned
               /\ c.via # "session" => c.pw = users[c.user].pw
CredsGood == \A c \in creds : CredGood(c)

CodeGood(c) ==
    /\ c.kind \in {"link", "quick"} \/ (c.kind = "reset" /\ c.code # 0) => c.user # Nobody
    /\ c.kind # "registration" /\ c.user # Nobody => Exists(c.user)
    /\ c.kind \in {"reset", "link"} /\ c.user # Nobody => c.pw = users[c.user].pw
CodesGood == \A c \in codes : CodeGood(c)

Backs(c, r) == c.kind = r.kind /\ c.code = r.code /\ c.user = r.user /\ c.key = r.key
RowsBacked ==
    \A i \in DOMAIN rows : rows[i].kind \in {"reset", "link"} /\ Pending(rows[i]) =>
        \E c \in codes : Backs(c, rows[i])

RequestGood(r) ==
    /\ r.op \in {"login", "legacyLogin", "change", "token", "quick", "reset"} => Exists(r.user)
    /\ r.op = "link" => r.user \in Users \cup {Nobody}
    /\ r.op = "register" => r.user \in Invitations \cup {Nobody}
    /\ r.op \in {"reset", "link", "register"} => r.key \in Addresses
RequestsGood == \A h \in Handlers : RequestGood(requests[h])

-----------------------------------------------------------------------------
(* What a registration used up is gone for the next one. *)
InvitesSpent ==
    /\ \A u \in Users : users[u].invite \notin invitations
    /\ \A u, v \in Users : u # v /\ users[u].invite = users[v].invite => users[u].invite = Nobody
ProofsSpent ==
    /\ \A u \in Users : users[u].proof <= Len(rows)
    /\ \A u \in Users, c \in codes : c.kind = "registration" /\ users[u].proof = c.code => c.code = 0
    /\ \A u, v \in Users : u # v /\ users[u].proof = users[v].proof => users[u].proof = 0

(* The counter of the source covers the accounts registered in the window, and outlasts their time. *)
Newcomers == {u \in Users : users[u].fresh > 0}
SourceCounted ==
    /\ \A c, d \in cooldowns : c.what = "ip" /\ d.what = "ip" => c = d
    /\ \A c \in cooldowns : c.what = "ip" =>
        /\ c.key \in Nat /\ c.left \in 1..IPWindow
        /\ Cardinality(Newcomers) <= c.key
        /\ \A u \in Newcomers : users[u].fresh <= c.left
    /\ (\A c \in cooldowns : c.what # "ip") => Newcomers = {}
    /\ Cardinality(Newcomers) <= IPLimit

(* A guessed code is the number of the row that carries it, and the only one of its kind and address. *)
Guessed == {"reset", "registration"}
CodesNumbered ==
    /\ Len(rows) <= MaxRows
    /\ \A c \in codes : /\ c.code <= Len(rows)
                        /\ c.kind \in Guessed /\ c.code # 0 =>
                            rows[c.code].kind = c.kind /\ rows[c.code].key = c.key
CodesApart ==
    \A c, d \in codes : c.kind \in Guessed /\ c.kind = d.kind /\ c.key = d.key => c = d

(* Wrong guesses at a living code: before its own window it saw at most what the one it inherited *)
(* left, and its own window, once begun, outlasts it.                                             *)
Bound(c) ==
    CASE c.fails = 0 -> MaxGuesses - 1
      [] c.fails > 0 /\ c.lock < c.life -> c.fails - 1
      [] OTHER -> MaxGuesses - 1 + c.fails
GuessGood(c) ==
    /\ c.fails <= MaxGuesses /\ c.life <= CodeLife /\ (c.fails = 0 <=> c.lock = 0)
    /\ c.kind \in Guessed /\ c.code # 0 /\ c.life > 0 => wrong[c.code] <= Bound(c)
GuessesCounted ==
    /\ \A i \in 1..MaxRows : wrong[i] < 2 * MaxGuesses /\ (i > Len(rows) => wrong[i] = 0)
    /\ \A c \in codes : GuessGood(c)

-----------------------------------------------------------------------------
(* Every delivery of a row, made or still to be made, has an attempt of its own. *)
Carriers(i) == {w \in Workers : jobs[w].row = i /\ jobs[w].stage \in {"claimed", "sending"}}
RowCounted(i) ==
    /\ rows[i].deliveries + Cardinality(Carriers(i)) <= rows[i].attempt
    /\ rows[i].attempt <= MaxAttempts
    /\ rows[i].status = "sent" => rows[i].deliveries > 0
RowsCounted == \A i \in DOMAIN rows : RowCounted(i)

JobGood(w) ==
    IF jobs[w].stage = "idle" THEN jobs[w] = Idle
    ELSE /\ jobs[w].row \in DOMAIN rows
         /\ jobs[w].stage = "sent" => rows[jobs[w].row].deliveries > 0
JobsGood == \A w \in Workers : JobGood(w)

(* A command is answered in the transaction that completes its update. *)
Answered == \A i \in DOMAIN rows :
    rows[i].kind = "command" => rows[i].key \in Updates /\ updates[rows[i].key].done
HooksGood == \A h \in Hooks : hooks[h].stage = "claimed" => hooks[h].update \in Updates

OpensInv == AbsentBlank /\ CredsGood /\ CodesGood /\ RowsBacked /\ RequestsGood
AdmitsInv == InvitesSpent /\ ProofsSpent /\ SourceCounted /\ CodesNumbered /\ CodesApart /\ GuessesCounted
OutboxInv == RowsCounted /\ JobsGood /\ Answered /\ HooksGood
PanelInv == PanelTypes /\ OpensInv /\ AdmitsInv /\ OutboxInv
-----------------------------------------------------------------------------
(* Rows: a row keeps what it is; its status changes only while it is pending. *)
Identity(a, b) == b.kind = a.kind /\ b.user = a.user /\ b.key = a.key /\ b.code = a.code
Follows(a, b) == Identity(a, b) /\ (Pending(b) => Pending(a))
Touches(a, b) == /\ Identity(a, b) /\ b.attempt = a.attempt /\ b.deliveries = a.deliveries
                 /\ b.status = a.status \/ (Pending(a) /\ b.status \in {"failed", "cancelled"})
Touched(s, t) == /\ t \in Seq(OutRow) /\ Len(t) = Len(s)
                 /\ \A i \in 1..Len(s) : Touches(s[i], t[i])
Given(r) == Pending(r) /\ r.attempt = 0 /\ r.deliveries = 0

LEMMA Constants ==
    /\ MaxRows \in Nat /\ RetryDelay \in Nat /\ Cooldown \in Nat /\ MaxAttempts \in Nat /\ MaxAttempts > 0
    /\ ClaimLease \in Nat /\ ClaimLease > 0 /\ CodeLife \in Nat /\ CodeLife > 0
    /\ MaxPasswords \in Nat /\ MaxGuesses \in Nat /\ MaxGuesses > 0 /\ IPLimit \in Nat /\ IPLimit > 0
    /\ IPWindow \in Nat /\ IPWindow > 0 /\ FailureWindow \in Nat /\ FailureWindow >= CodeLife
    /\ Nobody \notin Users /\ Nobody \notin Addresses /\ Nobody \notin Invitations
  <1>1. \A n \in {MaxRows, MaxSwitches, RetryDelay, Margin, Cooldown} : n \in Nat BY OutboxConstants
  <1>2. \A n \in {MaxAttempts, ClaimLease, CodeLife} : n \in Nat /\ n # 0 BY OutboxConstants
  <1>3. \A n \in {MaxPasswords, MaxGuesses, IPLimit, IPWindow} : n \in Nat /\ n # 0 BY AccountConstants
  <1>. QED BY <1>1, <1>2, <1>3, OutboxConstants, AccountConstants

LEMMA SeqOfFunction ==
    ASSUME NEW S, NEW n \in Nat, NEW f, DOMAIN f = 1..n, \A i \in 1..n : f[i] \in S,
           f = [i \in 1..n |-> f[i]]
    PROVE  f \in Seq(S) /\ Len(f) = n
  OBVIOUS

LEMMA EndedRow ==
    ASSUME NEW r \in OutRow, NEW s \in Statuses
    PROVE  /\ Ended(r, s) \in OutRow /\ Ended(r, s).status = s /\ Identity(r, Ended(r, s))
           /\ Ended(r, s).attempt = r.attempt /\ Ended(r, s).deliveries = r.deliveries
  BY DEF Ended, OutRow, Identity

LEMMA EndedTouches ==
    ASSUME NEW r \in OutRow, Pending(r), NEW s \in {"failed", "cancelled"}
    PROVE  Ended(r, s) \in OutRow /\ Touches(r, Ended(r, s)) /\ ~Pending(Ended(r, s))
  <1>1. s \in Statuses /\ s # "pending" BY DEF Statuses
  <1>. QED BY <1>1, EndedRow DEF Touches, Pending

LEMMA TouchesSelf == ASSUME NEW r PROVE Touches(r, r) BY DEF Touches, Identity

LEMMA CancelTouches ==
    ASSUME NEW s \in Seq(OutRow), NEW gone
    PROVE  /\ Touched(s, Cancel(s, gone))
           /\ \A i \in 1..Len(s) : i \in gone => ~Pending(Cancel(s, gone)[i])
           /\ \A i \in 1..Len(s) : s[i].kind # "ticket" =>
                Cancel(s, gone)[i].status \in {s[i].status, "cancelled"}
           /\ \A i \in 1..Len(s) : i \notin gone => Cancel(s, gone)[i] = s[i]
  <1> DEFINE t == Cancel(s, gone)
             E(i) == Ended(s[i], IF s[i].kind = "ticket" THEN "failed" ELSE "cancelled")
  <1>1. DOMAIN s = 1..Len(s) /\ Len(s) \in Nat OBVIOUS
  <1>2. t = [i \in 1..Len(s) |-> IF i \in gone /\ Pending(s[i]) THEN E(i) ELSE s[i]]
    BY <1>1 DEF Cancel
  <1>3. ASSUME NEW i \in 1..Len(s)
        PROVE  /\ t[i] \in OutRow /\ Touches(s[i], t[i])
               /\ i \in gone => ~Pending(t[i])
               /\ s[i].kind # "ticket" => t[i].status \in {s[i].status, "cancelled"}
               /\ i \notin gone => t[i] = s[i]
    <2>1. s[i] \in OutRow OBVIOUS
    <2>2. CASE i \in gone /\ Pending(s[i])
      <3>1. t[i] = E(i) BY <1>2, <2>2
      <3>2. CASE s[i].kind = "ticket"
        <4>1. t[i] = Ended(s[i], "failed") BY <3>1, <3>2
        <4>. QED BY <4>1, <2>1, <2>2, <3>2, EndedTouches
      <3>3. CASE s[i].kind # "ticket"
        <4>1. t[i] = Ended(s[i], "cancelled") BY <3>1, <3>3
        <4>2. t[i].status = "cancelled" BY <4>1, <2>1, EndedRow DEF Statuses
        <4>. QED BY <4>1, <4>2, <2>1, <2>2, EndedTouches
      <3>. QED BY <3>2, <3>3
    <2>3. CASE ~(i \in gone /\ Pending(s[i]))
      <3>1. t[i] = s[i] BY <1>2, <2>3
      <3>. QED BY <3>1, <2>1, <2>3, TouchesSelf
    <2>. QED BY <2>2, <2>3
  <1>4. t \in Seq(OutRow) /\ Len(t) = Len(s)
    <2>. HIDE DEF t
    <2>1. DOMAIN t = 1..Len(s) /\ t = [i \in 1..Len(s) |-> t[i]] BY <1>2
    <2>. QED BY <1>1, <1>3, <2>1, SeqOfFunction
  <1>. HIDE DEF t
  <1>. QED BY <1>3, <1>4 DEF Touched, t

LEMMA RevokeTouches ==
    ASSUME NEW s \in Seq(OutRow), NEW u
    PROVE  /\ Touched(s, RevokedRows(s, u))
           /\ \A i \in 1..Len(s) : s[i].kind \in {"link", "reset"} /\ s[i].user = u
                                    => ~Pending(RevokedRows(s, u)[i])
  <1> DEFINE t == RevokedRows(s, u)
             Out(i) == s[i].kind \in {"link", "reset"} /\ s[i].user = u /\ Pending(s[i])
  <1>1. DOMAIN s = 1..Len(s) /\ Len(s) \in Nat OBVIOUS
  <1>2. t = [i \in 1..Len(s) |-> IF Out(i) THEN Ended(s[i], "cancelled") ELSE s[i]]
    BY <1>1 DEF RevokedRows
  <1>3. ASSUME NEW i \in 1..Len(s)
        PROVE  /\ t[i] \in OutRow /\ Touches(s[i], t[i])
               /\ s[i].kind \in {"link", "reset"} /\ s[i].user = u => ~Pending(t[i])
    <2>1. s[i] \in OutRow OBVIOUS
    <2>2. CASE Out(i)
      <3>1. t[i] = Ended(s[i], "cancelled") BY <1>2, <2>2
      <3>. QED BY <3>1, <2>1, <2>2, EndedTouches
    <2>3. CASE ~Out(i)
      <3>1. t[i] = s[i] BY <1>2, <2>3
      <3>. QED BY <3>1, <2>1, <2>3, TouchesSelf
    <2>. QED BY <2>2, <2>3
  <1>4. t \in Seq(OutRow) /\ Len(t) = Len(s)
    <2>. HIDE DEF t
    <2>1. DOMAIN t = 1..Len(s) /\ t = [i \in 1..Len(s) |-> t[i]] BY <1>2
    <2>. QED BY <1>1, <1>3, <2>1, SeqOfFunction
  <1>. HIDE DEF t
  <1>. QED BY <1>3, <1>4 DEF Touched, t

LEMMA TouchedSelf == ASSUME NEW s \in Seq(OutRow) PROVE Touched(s, s)
  BY TouchesSelf DEF Touched

LEMMA TouchedTwice ==
    ASSUME NEW s, NEW t, NEW v, Touched(s, t), Touched(t, v)
    PROVE  Touched(s, v)
  BY DEF Touched, Touches, Identity, Pending

LEMMA RecoveredTouches ==
    ASSUME rows \in Seq(OutRow)
    PROVE  /\ Touched(rows, Recovered)
           /\ \A i \in 1..Len(rows) : ~Exhausted(rows[i]) => Recovered[i] = rows[i]
  <1> DEFINE Out(i) == rows[i].kind \in {"ticket", "reminder"} /\ Exhausted(rows[i]) /\ Reached(rows[i].kind)
  <1>1. DOMAIN rows = 1..Len(rows) /\ Len(rows) \in Nat OBVIOUS
  <1>2. Recovered = [i \in 1..Len(rows) |-> IF Out(i) THEN Ended(rows[i], "failed") ELSE rows[i]]
    BY <1>1 DEF Recovered
  <1>3. ASSUME NEW i \in 1..Len(rows)
        PROVE  /\ Recovered[i] \in OutRow /\ Touches(rows[i], Recovered[i])
               /\ ~Exhausted(rows[i]) => Recovered[i] = rows[i]
    <2>1. rows[i] \in OutRow OBVIOUS
    <2>2. CASE Out(i)
      <3>1. Recovered[i] = Ended(rows[i], "failed") BY <1>2, <2>2
      <3>2. Exhausted(rows[i]) /\ Pending(rows[i]) BY <2>2 DEF Exhausted, Stale
      <3>. QED BY <3>1, <3>2, <2>1, EndedTouches
    <2>3. CASE ~Out(i)
      <3>1. Recovered[i] = rows[i] BY <1>2, <2>3
      <3>. QED BY <3>1, <2>1, TouchesSelf
    <2>. QED BY <2>2, <2>3
  <1>4. Recovered \in Seq(OutRow) /\ Len(Recovered) = Len(rows)
    <2>1. DOMAIN Recovered = 1..Len(rows) /\ Recovered = [i \in 1..Len(rows) |-> Recovered[i]] BY <1>2
    <2>. QED BY <1>1, <1>3, <2>1, SeqOfFunction
  <1>. QED BY <1>3, <1>4 DEF Touched

LEMMA RedirectedTouches ==
    ASSUME rows \in Seq(OutRow)
    PROVE  /\ Touched(rows, Redirected)
           /\ \A i \in 1..Len(rows) : Claimable(rows[i]) => Redirected[i] = rows[i]
  <1> DEFINE Lost(i) == rows[i].kind = "notice" /\ Pending(rows[i]) /\ rows[i].wait = 0 /\ ~Recipient(rows[i].user)
             Out(i) == rows[i].kind \in {"notice", "command"} /\ Exhausted(rows[i])
  <1>1. DOMAIN rows = 1..Len(rows) /\ Len(rows) \in Nat OBVIOUS
  <1>2. Redirected = [i \in 1..Len(rows) |->
                        IF Lost(i) THEN Ended(rows[i], "cancelled")
                        ELSE IF Out(i) THEN Ended(rows[i], "failed") ELSE rows[i]]
    BY <1>1 DEF Redirected
  <1>3. ASSUME NEW i \in 1..Len(rows)
        PROVE  /\ Redirected[i] \in OutRow /\ Touches(rows[i], Redirected[i])
               /\ Claimable(rows[i]) => Redirected[i] = rows[i]
    <2>1. rows[i] \in OutRow OBVIOUS
    <2>2. CASE Lost(i)
      <3>1. Redirected[i] = Ended(rows[i], "cancelled") BY <1>2, <2>2
      <3>2. ~Claimable(rows[i]) BY <2>2 DEF Claimable, Usable
      <3>. QED BY <3>1, <3>2, <2>1, <2>2, EndedTouches
    <2>3. CASE ~Lost(i) /\ Out(i)
      <3>1. Redirected[i] = Ended(rows[i], "failed") BY <1>2, <2>3
      <3>2. Pending(rows[i]) BY <2>3 DEF Exhausted, Stale
      <3>3. ~Claimable(rows[i]) BY <2>1, <2>3, Constants DEF Exhausted, Claimable, OutRow
      <3>. QED BY <3>1, <3>2, <3>3, <2>1, EndedTouches
    <2>4. CASE ~Lost(i) /\ ~Out(i)
      <3>1. Redirected[i] = rows[i] BY <1>2, <2>4
      <3>. QED BY <3>1, <2>1, TouchesSelf
    <2>. QED BY <2>2, <2>3, <2>4
  <1>4. Redirected \in Seq(OutRow) /\ Len(Redirected) = Len(rows)
    <2>1. DOMAIN Redirected = 1..Len(rows) /\ Redirected = [i \in 1..Len(rows) |-> Redirected[i]] BY <1>2
    <2>. QED BY <1>1, <1>3, <2>1, SeqOfFunction
  <1>. QED BY <1>3, <1>4 DEF Touched

Later(r) == [r EXCEPT !.wait = Less(@), !.lease = Less(@)]
LEMMA LessNat == ASSUME NEW n \in Nat PROVE Less(n) \in Nat /\ Less(n) <= n /\ (n > 0 => Less(n) = n - 1)
  BY DEF Less

LEMMA LaterTouches ==
    ASSUME rows \in Seq(OutRow), rows' = [i \in DOMAIN rows |-> Later(rows[i])]
    PROVE  Touched(rows, rows')
  <1>1. DOMAIN rows = 1..Len(rows) /\ Len(rows) \in Nat OBVIOUS
  <1>2. ASSUME NEW i \in 1..Len(rows)
        PROVE  rows'[i] \in OutRow /\ Touches(rows[i], rows'[i])
    <2>1. rows[i] \in OutRow OBVIOUS
    <2>2. Less(rows[i].wait) \in Nat /\ Less(rows[i].lease) \in Nat BY <2>1, LessNat DEF OutRow
    <2>3. rows'[i] = Later(rows[i]) BY <1>1
    <2>4. Later(rows[i]) = [rows[i] EXCEPT !.wait = Less(rows[i].wait), !.lease = Less(rows[i].lease)] BY <2>1 DEF Later
    <2>5. PICK r \in OutRow, w \in Nat, l \in Nat :
              r = rows[i] /\ w = Less(rows[i].wait) /\ l = Less(rows[i].lease)
      BY <2>1, <2>2
    <2>6. [r EXCEPT !.wait = w, !.lease = l] \in OutRow /\ Touches(r, [r EXCEPT !.wait = w, !.lease = l])
      BY DEF OutRow, Touches, Identity
    <2>7. rows'[i] = [r EXCEPT !.wait = w, !.lease = l] BY <2>3, <2>4, <2>5
    <2>. QED BY <2>5, <2>6, <2>7
  <1>3. DOMAIN rows' = 1..Len(rows) /\ rows' = [i \in 1..Len(rows) |-> rows'[i]] BY <1>1
  <1>4. rows' \in Seq(OutRow) /\ Len(rows') = Len(rows) BY <1>1, <1>2, <1>3, SeqOfFunction
  <1>. QED BY <1>2, <1>4 DEF Touched

(* A claimed row, and one whose failure was recorded. *)
LEMMA ClaimRow ==
    ASSUME NEW r \in OutRow
    PROVE  /\ Claim(r) \in OutRow /\ Identity(r, Claim(r)) /\ Claim(r).status = r.status
           /\ Claim(r).attempt = r.attempt + 1 /\ Claim(r).deliveries = r.deliveries
  <1>1. Claim(r) = [r EXCEPT !.attempt = r.attempt + 1, !.claim = r.attempt + 1, !.lease = ClaimLease] BY DEF Claim, OutRow
  <1>2. Claim(r) = [kind |-> r.kind, user |-> r.user, key |-> r.key, code |-> r.code, status |-> r.status,
                    attempt |-> r.attempt + 1, wait |-> r.wait, claim |-> r.attempt + 1,
                    lease |-> ClaimLease, deliveries |-> r.deliveries]
    BY <1>1 DEF OutRow
  <1>3. r.attempt + 1 \in Nat /\ ClaimLease \in Nat BY Constants DEF OutRow
  <1>. QED BY <1>2, <1>3 DEF OutRow, Identity

LEMMA FailedRow ==
    ASSUME NEW r \in OutRow, Pending(r)
    PROVE  Failed(r) \in OutRow /\ Touches(r, Failed(r))
  <1>1. CASE Failed(r) = Ended(r, "failed") BY <1>1, EndedTouches
  <1>2. CASE Failed(r) = [r EXCEPT !.wait = RetryDelay, !.claim = 0, !.lease = 0]
    <2>1. Failed(r) = [kind |-> r.kind, user |-> r.user, key |-> r.key, code |-> r.code, status |-> r.status,
                       attempt |-> r.attempt, wait |-> RetryDelay, claim |-> 0,
                       lease |-> 0, deliveries |-> r.deliveries]
      BY <1>2 DEF OutRow
    <2>2. RetryDelay \in Nat BY Constants
    <2>. QED BY <2>1, <2>2 DEF OutRow, Touches, Identity
  <1>. QED BY <1>1, <1>2 DEF Failed

LEMMA TookRow ==
    ASSUME NEW r \in OutRow
    PROVE  LET t == [r EXCEPT !.deliveries = @ + 1] IN
           /\ t \in OutRow /\ Identity(r, t) /\ t.status = r.status
           /\ t.attempt = r.attempt /\ t.deliveries = r.deliveries + 1
  BY DEF OutRow, Identity

(* One row of a table replaced. *)
LEMMA OneRow ==
    ASSUME NEW s \in Seq(OutRow), NEW i \in 1..Len(s), NEW r \in OutRow
    PROVE  LET t == [s EXCEPT ![i] = r] IN
           /\ t \in Seq(OutRow) /\ Len(t) = Len(s) /\ t[i] = r
           /\ \A j \in 1..Len(s) : j # i => t[j] = s[j]
  OBVIOUS

-----------------------------------------------------------------------------
(* The promise of the outboxes, from what a step does to the rows. *)
MailOf(t) == [i \in DOMAIN t |-> Message(t[i], i)]

LEMMA MailIs ==
    ASSUME NEW t \in Seq(OutRow)
    PROVE  /\ DOMAIN MailOf(t) = 1..Len(t) /\ Len(MailOf(t)) = Len(t) /\ Len(t) \in Nat
           /\ \A i \in 1..Len(t) : MailOf(t)[i] = Message(t[i], i)
  <1>1. MailOf(t) = [i \in 1..Len(t) |-> Message(t[i], i)] /\ Len(t) \in Nat BY DEF MailOf
  <1>. HIDE DEF MailOf
  <1>. QED BY <1>1

LEMMA SameOccasion ==
    ASSUME NEW a, NEW b, NEW i, Identity(a, b)
    PROVE  Occasion(b, i) = Occasion(a, i)
  BY DEF Identity, Occasion

LEMMA EndStep ==
    ASSUME rows \in Seq(OutRow), rows' \in Seq(OutRow), Len(rows') = Len(rows),
           \A i \in 1..Len(rows) :
                /\ Identity(rows[i], rows'[i]) /\ rows'[i].deliveries = rows[i].deliveries
                /\ rows'[i].status # rows[i].status => Pending(rows[i])
                /\ rows'[i].status = "sent" => rows[i].deliveries > 0
    PROVE  Promise!Next
  <1>1. Mail = MailOf(rows) /\ Mail' = MailOf(rows') BY DEF Mail, MailOf
  <1>2. /\ DOMAIN Mail = 1..Len(rows) /\ DOMAIN Mail' = 1..Len(rows)
        /\ \A i \in 1..Len(rows) : Mail[i] = Message(rows[i], i) /\ Mail'[i] = Message(rows'[i], i)
    BY <1>1, MailIs
  <1>3. ASSUME NEW i \in 1..Len(rows)
        PROVE  \E status \in {"pending", "sent", "failed", "cancelled"} :
                /\ status # Mail[i].status => Mail[i].status = "pending"
                /\ status = "sent" => Mail[i].deliveries > 0
                /\ Mail'[i] = [Mail[i] EXCEPT !.status = status]
    <2>1. rows[i] \in OutRow /\ rows'[i] \in OutRow OBVIOUS
    <2>2. rows'[i].status \in {"pending", "sent", "failed", "cancelled"} BY <2>1 DEF OutRow, Statuses
    <2>3. Mail[i] = [status |-> rows[i].status, deliveries |-> rows[i].deliveries, occasion |-> Occasion(rows[i], i)]
      BY <1>2 DEF Message
    <2>4. Occasion(rows'[i], i) = Occasion(rows[i], i) BY SameOccasion
    <2>5. Mail'[i] = [status |-> rows'[i].status, deliveries |-> rows[i].deliveries, occasion |-> Occasion(rows[i], i)]
      BY <1>2, <2>4 DEF Message
    <2>6. Mail'[i] = [Mail[i] EXCEPT !.status = rows'[i].status] BY <2>3, <2>5
    <2>7. Mail[i].status = rows[i].status /\ Mail[i].deliveries = rows[i].deliveries BY <2>3
    <2>. QED BY <2>2, <2>6, <2>7 DEF Pending
  <1>4. Promise!End BY <1>2, <1>3 DEF Promise!End
  <1>. QED BY <1>4 DEF Promise!Next

LEMMA HandStep ==
    ASSUME rows \in Seq(OutRow), NEW k \in 1..Len(rows), rows[k].deliveries < MaxAttempts,
           rows' = [rows EXCEPT ![k].deliveries = @ + 1]
    PROVE  Promise!Next
  <1> DEFINE r == [rows[k] EXCEPT !.deliveries = @ + 1]
  <1>1. Mail = MailOf(rows) /\ Mail' = MailOf(rows') BY DEF Mail, MailOf
  <1>2. rows[k] \in OutRow OBVIOUS
  <1>3. rows' = [rows EXCEPT ![k] = r] OBVIOUS
  <1>4. r \in OutRow /\ Identity(rows[k], r) /\ r.status = rows[k].status /\ r.deliveries = rows[k].deliveries + 1
    BY <1>2, TookRow
  <1>. HIDE DEF r
  <1>5. /\ rows' \in Seq(OutRow) /\ Len(rows') = Len(rows) /\ rows'[k] = r
        /\ \A j \in 1..Len(rows) : j # k => rows'[j] = rows[j]
    BY <1>3, <1>4, OneRow
  <1>6. /\ DOMAIN Mail = 1..Len(rows) /\ DOMAIN Mail' = 1..Len(rows)
        /\ \A i \in 1..Len(rows) : Mail[i] = Message(rows[i], i) /\ Mail'[i] = Message(rows'[i], i)
    BY <1>1, <1>5, MailIs
  <1>7. Mail[k] = [status |-> rows[k].status, deliveries |-> rows[k].deliveries, occasion |-> Occasion(rows[k], k)]
    BY <1>6 DEF Message
  <1>8. Occasion(r, k) = Occasion(rows[k], k) BY <1>4, SameOccasion
  <1>9. Mail'[k] = [status |-> rows[k].status, deliveries |-> rows[k].deliveries + 1, occasion |-> Occasion(rows[k], k)]
    BY <1>4, <1>5, <1>6, <1>8 DEF Message
  <1>10. Mail'[k] = [Mail[k] EXCEPT !.deliveries = @ + 1] BY <1>7, <1>9
  <1>11. \A j \in 1..Len(rows) : j # k => Mail'[j] = Mail[j] BY <1>5, <1>6
  <1>12. Mail' = [i \in 1..Len(rows) |-> Mail'[i]] /\ Mail = [i \in 1..Len(rows) |-> Mail[i]]
    BY <1>5 DEF Mail
  <1>13. Mail' = [Mail EXCEPT ![k] = [Mail[k] EXCEPT !.deliveries = @ + 1]]
    BY <1>6, <1>10, <1>11, <1>12
  <1>14. Mail[k].deliveries < MaxAttempts BY <1>7
  <1>15. Promise!Deliver(k) BY <1>13, <1>14 DEF Promise!Deliver
  <1>16. k \in DOMAIN Mail BY <1>6
  <1>. QED BY <1>15, <1>16 DEF Promise!Next

LEMMA QueueStep ==
    ASSUME rows \in Seq(OutRow), rows' \in Seq(OutRow), Len(rows') > Len(rows),
           \A i \in 1..Len(rows) :
                /\ Identity(rows[i], rows'[i]) /\ rows'[i].deliveries = rows[i].deliveries
                /\ rows'[i].status = rows[i].status \/ (Pending(rows[i]) /\ rows'[i].status = "cancelled"),
           \A j \in (Len(rows) + 1)..Len(rows') :
                /\ Given(rows'[j])
                /\ \A i \in 1..(j - 1) : Occasion(rows'[i], i) # Occasion(rows'[j], j)
    PROVE  Promise!Next
  <1>1. Mail = MailOf(rows) /\ Mail' = MailOf(rows') BY DEF Mail, MailOf
  <1>2. /\ DOMAIN Mail = 1..Len(rows) /\ Len(Mail) = Len(rows) /\ Len(Mail') = Len(rows')
        /\ \A i \in 1..Len(rows) : Mail[i] = Message(rows[i], i)
        /\ \A i \in 1..Len(rows') : Mail'[i] = Message(rows'[i], i)
    BY <1>1, MailIs
  <1>3. Len(rows) \in Nat /\ Len(rows') \in Nat OBVIOUS
  <1>4. ASSUME NEW j \in (Len(rows) + 1)..Len(rows')
        PROVE  /\ Mail'[j] = Promise!Queued(Mail'[j].occasion)
               /\ \A i \in 1..(j - 1) : Mail'[i].occasion # Mail'[j].occasion
    <2>1. j \in 1..Len(rows') BY <1>3
    <2>2. Mail'[j] = [status |-> "pending", deliveries |-> 0, occasion |-> Occasion(rows'[j], j)]
      BY <1>2, <2>1 DEF Message, Given, Pending
    <2>3. ASSUME NEW i \in 1..(j - 1) PROVE Mail'[i].occasion # Mail'[j].occasion
      <3>1. i \in 1..Len(rows') BY <1>3
      <3>2. Mail'[i] = Message(rows'[i], i) BY <3>1, <1>2
      <3>3. Mail'[i].occasion = Occasion(rows'[i], i) BY <3>2 DEF Message
      <3>4. Mail'[j].occasion = Occasion(rows'[j], j) BY <2>2
      <3>. QED BY <3>3, <3>4
    <2>. QED BY <2>2, <2>3 DEF Promise!Queued
  <1>5. ASSUME NEW i \in 1..Len(rows)
        PROVE  \/ Mail'[i] = Mail[i]
               \/ Mail[i].status = "pending" /\ Mail'[i] = [Mail[i] EXCEPT !.status = "cancelled"]
    <2>1. i \in 1..Len(rows') BY <1>3
    <2>2. Mail[i] = [status |-> rows[i].status, deliveries |-> rows[i].deliveries, occasion |-> Occasion(rows[i], i)]
      BY <1>2 DEF Message
    <2>3. Occasion(rows'[i], i) = Occasion(rows[i], i) BY SameOccasion
    <2>4. Mail'[i] = [status |-> rows'[i].status, deliveries |-> rows[i].deliveries, occasion |-> Occasion(rows[i], i)]
      BY <1>2, <2>1, <2>3 DEF Message
    <2>5. CASE rows'[i].status = rows[i].status BY <2>5, <2>2, <2>4
    <2>6. CASE Pending(rows[i]) /\ rows'[i].status = "cancelled"
      <3>1. Mail'[i] = [Mail[i] EXCEPT !.status = "cancelled"] BY <2>2, <2>4, <2>6
      <3>. QED BY <3>1, <2>2, <2>6 DEF Pending
    <2>. QED BY <2>5, <2>6
  <1>6. Promise!Enqueue BY <1>2, <1>4, <1>5 DEF Promise!Enqueue
  <1>. QED BY <1>6 DEF Promise!Next

LEMMA OccasionsApart ==
    ASSUME NEW a, NEW b, NEW i \in Nat, NEW j \in Nat, i # j, Occasion(a, i) = Occasion(b, j)
    PROVE  \/ a.kind = "command" /\ b.kind = "command" /\ a.key = b.key
           \/ a.kind = "reminder" /\ b.kind = "reminder" /\ a.user = b.user
  <1>1. CASE a.kind = "command" /\ b.kind = "command" BY <1>1 DEF Occasion
  <1>2. CASE a.kind = "reminder" /\ b.kind = "reminder" BY <1>2 DEF Occasion
  <1>3. CASE a.kind \notin {"command", "reminder"} /\ b.kind \notin {"command", "reminder"} BY <1>3 DEF Occasion
  <1>4. CASE a.kind = "command" /\ b.kind # "command"
    <2>1. Occasion(a, i)[1] = "command" /\ Occasion(b, j)[1] = b.kind BY <1>4 DEF Occasion
    <2>. QED BY <2>1, <1>4
  <1>5. CASE a.kind = "reminder" /\ b.kind # "reminder"
    <2>1. Occasion(a, i)[1] = "reminder" /\ Occasion(b, j)[1] = b.kind BY <1>5 DEF Occasion
    <2>. QED BY <2>1, <1>5
  <1>6. CASE a.kind \notin {"command", "reminder"} /\ b.kind \in {"command", "reminder"}
    <2>1. Occasion(a, i)[1] = a.kind /\ Occasion(b, j)[1] = b.kind BY <1>6 DEF Occasion
    <2>. QED BY <2>1, <1>6
  <1>. QED BY <1>1, <1>2, <1>3, <1>4, <1>5, <1>6

-----------------------------------------------------------------------------
(* The workers. *)
Sound == rows \in Seq(OutRow) /\ jobs \in [Workers -> Job] /\ RowsCounted /\ JobsGood
Promised == Promise!Next \/ UNCHANGED Mail

LEMMA CarriersFinite == ASSUME NEW i PROVE IsFiniteSet(Carriers(i)) /\ Cardinality(Carriers(i)) \in Nat
  <1>1. Carriers(i) \in SUBSET Workers BY DEF Carriers
  <1>2. IsFiniteSet(Workers) BY OutboxConstants DEF Workers
  <1>. QED BY <1>1, <1>2, FS_Subset, FS_CardinalityType

LEMMA TouchKeeps ==
    ASSUME Sound, Touched(rows, rows'), UNCHANGED jobs
    PROVE  Sound' /\ Promised
  <1>0. rows \in Seq(OutRow) /\ RowsCounted /\ JobsGood /\ Len(rows) \in Nat BY DEF Sound
  <1>1. rows' \in Seq(OutRow) /\ Len(rows') = Len(rows) BY DEF Touched
  <1>2. DOMAIN rows = 1..Len(rows) /\ DOMAIN rows' = 1..Len(rows) BY <1>0, <1>1
  <1>3. ASSUME NEW i PROVE Carriers(i)' = Carriers(i) BY DEF Carriers
  <1>4. \A i \in 1..Len(rows) : RowCounted(i) BY <1>0, <1>2 DEF RowsCounted
  <1>5. ASSUME NEW i \in 1..Len(rows)
        PROVE  /\ RowCounted(i)' /\ Identity(rows[i], rows'[i]) /\ rows'[i].deliveries = rows[i].deliveries
               /\ rows'[i].status # rows[i].status => Pending(rows[i])
               /\ rows'[i].status = "sent" => rows[i].deliveries > 0
    <2>1. Touches(rows[i], rows'[i]) BY DEF Touched
    <2>2. RowCounted(i) BY <1>4
    <2>. QED BY <2>1, <2>2, <1>3 DEF Touches, RowCounted
  <1>6. RowsCounted' BY <1>2, <1>5 DEF RowsCounted
  <1>7. ASSUME NEW w \in Workers PROVE JobGood(w)'
    <2>1. JobGood(w) BY <1>0 DEF JobsGood
    <2>. QED BY <2>1, <1>2, <1>5 DEF JobGood
  <1>8. Promise!Next BY <1>0, <1>1, <1>5, EndStep
  <1>. QED BY <1>1, <1>6, <1>7, <1>8 DEF Sound, JobsGood, Promised

LEMMA QueueKeeps ==
    ASSUME Sound, rows' \in Seq(OutRow), Len(rows') > Len(rows), UNCHANGED jobs,
           \A i \in 1..Len(rows) : /\ Touches(rows[i], rows'[i])
                                   /\ rows'[i].status \in {rows[i].status, "cancelled"},
           \A j \in (Len(rows) + 1)..Len(rows') :
                /\ Given(rows'[j])
                /\ rows'[j].kind \in {"command", "reminder"} => Len(rows') = Len(rows) + 1
                /\ rows'[j].kind = "command" =>
                        \A i \in 1..Len(rows) : rows[i].kind = "command" => rows[i].key # rows'[j].key
                /\ rows'[j].kind = "reminder" =>
                        \A i \in 1..Len(rows) : rows[i].kind = "reminder" => rows[i].user # rows'[j].user
    PROVE  Sound' /\ Promised
  <1>0. rows \in Seq(OutRow) /\ RowsCounted /\ JobsGood /\ Len(rows) \in Nat /\ Len(rows') \in Nat BY DEF Sound
  <1>2. DOMAIN rows = 1..Len(rows) /\ DOMAIN rows' = 1..Len(rows') BY <1>0
  <1>3. ASSUME NEW i PROVE Carriers(i)' = Carriers(i) BY DEF Carriers
  <1>4. \A i \in 1..Len(rows) : RowCounted(i) BY <1>0, <1>2 DEF RowsCounted
  <1>5. ASSUME NEW i \in 1..Len(rows)
        PROVE  /\ RowCounted(i)' /\ Identity(rows[i], rows'[i]) /\ rows'[i].deliveries = rows[i].deliveries
               /\ rows'[i].status = rows[i].status \/ (Pending(rows[i]) /\ rows'[i].status = "cancelled")
    <2>1. Touches(rows[i], rows'[i]) /\ rows'[i].status \in {rows[i].status, "cancelled"} OBVIOUS
    <2>2. RowCounted(i) BY <1>4
    <2>. QED BY <2>1, <2>2, <1>3 DEF Touches, RowCounted
  <1>6. ASSUME NEW j \in (Len(rows) + 1)..Len(rows') PROVE RowCounted(j)'
    <2>1. ASSUME NEW w \in Workers PROVE ~(jobs[w].row = j /\ jobs[w].stage \in {"claimed", "sending"})
      <3>1. JobGood(w) BY <1>0 DEF JobsGood
      <3>2. jobs[w].stage # "idle" => jobs[w].row \in 1..Len(rows) BY <3>1, <1>2 DEF JobGood
      <3>. QED BY <3>2, <1>0
    <2>2. Carriers(j) = {} BY <2>1 DEF Carriers
    <2>3. Cardinality(Carriers(j)') = 0 BY <2>2, <1>3, FS_EmptySet
    <2>4. Given(rows'[j]) OBVIOUS
    <2>. QED BY <2>3, <2>4, Constants DEF RowCounted, Given, Pending
  <1>7. RowsCounted'
    <2>1. \A i \in 1..Len(rows') : i \in 1..Len(rows) \/ i \in (Len(rows) + 1)..Len(rows') BY <1>0
    <2>. QED BY <1>2, <1>5, <1>6, <2>1 DEF RowsCounted
  <1>8. ASSUME NEW w \in Workers PROVE JobGood(w)'
    <2>1. JobGood(w) BY <1>0 DEF JobsGood
    <2>2. \A i \in 1..Len(rows) : i \in 1..Len(rows') BY <1>0
    <2>. QED BY <2>1, <2>2, <1>2, <1>5 DEF JobGood
  <1>9. ASSUME NEW j \in (Len(rows) + 1)..Len(rows'), NEW i \in 1..(j - 1)
        PROVE  Occasion(rows'[i], i) # Occasion(rows'[j], j)
    <2>. SUFFICES ASSUME Occasion(rows'[i], i) = Occasion(rows'[j], j) PROVE FALSE OBVIOUS
    <2>1. i \in Nat /\ j \in Nat /\ i # j BY <1>0
    <2>2. \/ rows'[i].kind = "command" /\ rows'[j].kind = "command" /\ rows'[i].key = rows'[j].key
          \/ rows'[i].kind = "reminder" /\ rows'[j].kind = "reminder" /\ rows'[i].user = rows'[j].user
      BY <2>1, OccasionsApart
    <2>3. Len(rows') = Len(rows) + 1 BY <2>2
    <2>4. i \in 1..Len(rows) BY <2>1, <2>3, <1>0
    <2>5. Identity(rows[i], rows'[i]) BY <2>4, <1>5
    <2>. QED BY <2>2, <2>4, <2>5 DEF Identity
  <1>10. Promise!Next
    <2>1. \A j \in (Len(rows) + 1)..Len(rows') : Given(rows'[j]) OBVIOUS
    <2>. QED BY <1>0, <1>5, <1>9, <2>1, QueueStep
  <1>. QED BY <1>7, <1>8, <1>10 DEF Sound, JobsGood, Promised

Carrying == {"claimed", "sending"}
LEMMA JobMoves ==
    ASSUME jobs \in [Workers -> Job], NEW w \in Workers, NEW j \in Job, jobs' = [jobs EXCEPT ![w] = j]
    PROVE  /\ jobs' \in [Workers -> Job] /\ jobs'[w] = j /\ \A v \in Workers : v # w => jobs'[v] = jobs[v]
           /\ \A i : Carriers(i)' = IF j.row = i /\ j.stage \in Carrying THEN Carriers(i) \cup {w}
                                    ELSE Carriers(i) \ {w}
  <1>1. jobs' \in [Workers -> Job] /\ jobs'[w] = j /\ \A v \in Workers : v # w => jobs'[v] = jobs[v] OBVIOUS
  <1>2. ASSUME NEW i
        PROVE  Carriers(i)' = IF j.row = i /\ j.stage \in Carrying THEN Carriers(i) \cup {w}
                              ELSE Carriers(i) \ {w}
    BY <1>1 DEF Carriers, Carrying
  <1>. QED BY <1>1, <1>2

(* What a step of a worker may do to the rows. *)
WorkerStep == /\ Len(rows') = Len(rows) /\ \A i \in 1..Len(rows) : Follows(rows[i], rows'[i])
              /\ Sound' /\ Promised

LEMMA TouchStep ==
    ASSUME Sound, Touched(rows, rows'), UNCHANGED jobs
    PROVE  WorkerStep
  <1>1. Sound' /\ Promised BY TouchKeeps
  <1>2. Len(rows') = Len(rows) /\ \A i \in 1..Len(rows) : Follows(rows[i], rows'[i])
    BY DEF Touched, Touches, Follows, Pending
  <1>. QED BY <1>1, <1>2 DEF WorkerStep

LEMMA TakeKeeps ==
    ASSUME Sound, NEW w \in Workers, jobs[w] = Idle, NEW table, Touched(rows, table),
           NEW k \in 1..Len(rows), Claimable(rows[k]), table[k] = rows[k], Take(w, table, k)
    PROVE  WorkerStep
  <1> DEFINE r == Claim(rows[k])
             j == [stage |-> "claimed", row |-> k, token |-> rows[k].attempt + 1]
  <1>0. rows \in Seq(OutRow) /\ jobs \in [Workers -> Job] /\ RowsCounted /\ JobsGood /\ Len(rows) \in Nat BY DEF Sound
  <1>1. table \in Seq(OutRow) /\ Len(table) = Len(rows) /\ rows[k] \in OutRow BY <1>0 DEF Touched
  <1>2. /\ r \in OutRow /\ Identity(rows[k], r) /\ r.status = rows[k].status
        /\ r.attempt = rows[k].attempt + 1 /\ r.deliveries = rows[k].deliveries
    BY <1>1, ClaimRow
  <1>3. rows' = [table EXCEPT ![k] = r] BY <1>1 DEF Take
  <1>4. j \in Job /\ jobs' = [jobs EXCEPT ![w] = j]
    <2>1. rows[k].attempt \in Nat BY <1>1 DEF OutRow
    <2>2. rows[k].attempt + 1 \in Nat /\ k \in Nat BY <2>1, <1>0
    <2>. QED BY <2>2 DEF Take, Job
  <1>5. j.row = k /\ j.stage = "claimed" OBVIOUS
  <1>. HIDE DEF r, j
  <1>6. /\ rows' \in Seq(OutRow) /\ Len(rows') = Len(rows) /\ rows'[k] = r
        /\ \A i \in 1..Len(rows) : i # k => rows'[i] = table[i]
    BY <1>1, <1>2, <1>3, OneRow
  <1>7. /\ jobs' \in [Workers -> Job] /\ jobs'[w] = j /\ \A v \in Workers : v # w => jobs'[v] = jobs[v]
        /\ \A i : Carriers(i)' = IF i = k THEN Carriers(i) \cup {w} ELSE Carriers(i) \ {w}
    <2>1. /\ jobs' \in [Workers -> Job] /\ jobs'[w] = j /\ \A v \in Workers : v # w => jobs'[v] = jobs[v]
          /\ \A i : Carriers(i)' = IF j.row = i /\ j.stage \in Carrying THEN Carriers(i) \cup {w}
                                   ELSE Carriers(i) \ {w}
      BY <1>0, <1>4, JobMoves
    <2>2. ASSUME NEW i PROVE Carriers(i)' = IF i = k THEN Carriers(i) \cup {w} ELSE Carriers(i) \ {w}
      <3>1. (j.row = i /\ j.stage \in Carrying) <=> i = k BY <1>5 DEF Carrying
      <3>. QED BY <2>1, <3>1
    <2>. QED BY <2>1, <2>2
  <1>8. DOMAIN rows = 1..Len(rows) /\ DOMAIN rows' = 1..Len(rows) BY <1>0, <1>6
  <1>9. \A i : w \notin Carriers(i) BY DEF Carriers, Idle
  <1>10. \A i \in 1..Len(rows) : RowCounted(i) BY <1>0, <1>8 DEF RowsCounted
  <1>11. ASSUME NEW i \in 1..Len(rows)
         PROVE  /\ RowCounted(i)' /\ Identity(rows[i], rows'[i]) /\ rows'[i].deliveries = rows[i].deliveries
                /\ rows'[i].status # rows[i].status => Pending(rows[i])
                /\ rows'[i].status = "sent" => rows[i].deliveries > 0
    <2>1. RowCounted(i) /\ rows[i] \in OutRow BY <1>0, <1>10
    <2>2. IsFiniteSet(Carriers(i)) /\ Cardinality(Carriers(i)) \in Nat BY CarriersFinite
    <2>3. CASE i = k
      <3>1. Carriers(i)' = Carriers(i) \cup {w} BY <1>7, <2>3
      <3>2. Cardinality(Carriers(i)') = Cardinality(Carriers(i)) + 1 BY <3>1, <2>2, <1>9, FS_AddElement
      <3>3. rows[k].attempt < MaxAttempts BY DEF Claimable
      <3>4. rows'[i].attempt = rows[i].attempt + 1 /\ rows'[i].deliveries = rows[i].deliveries
            /\ rows'[i].status = rows[i].status /\ Identity(rows[i], rows'[i])
        BY <1>2, <1>6, <2>3
      <3>5. /\ rows[i].deliveries \in Nat /\ rows[i].attempt \in Nat /\ MaxAttempts \in Nat
            /\ rows[i].deliveries + Cardinality(Carriers(i)) <= rows[i].attempt
            /\ rows[i].status = "sent" => rows[i].deliveries > 0
        BY <2>1, Constants DEF OutRow, RowCounted
      <3>. QED BY <3>2, <3>3, <3>4, <3>5, <2>2, <2>3 DEF RowCounted
    <2>4. CASE i # k
      <3>1. Carriers(i)' = Carriers(i) BY <1>7, <1>9, <2>4
      <3>2. Touches(rows[i], rows'[i]) BY <1>6, <2>4 DEF Touched
      <3>. QED BY <3>1, <3>2, <2>1 DEF RowCounted, Touches
    <2>. QED BY <2>3, <2>4
  <1>12. RowsCounted' BY <1>8, <1>11 DEF RowsCounted
  <1>13. ASSUME NEW v \in Workers PROVE JobGood(v)'
    <2>1. CASE v = w BY <2>1, <1>5, <1>7, <1>8 DEF JobGood
    <2>2. CASE v # w
      <3>1. JobGood(v) /\ jobs'[v] = jobs[v] BY <2>2, <1>0, <1>7 DEF JobsGood
      <3>. QED BY <3>1, <1>8, <1>11 DEF JobGood
    <2>. QED BY <2>1, <2>2
  <1>14. Promise!Next BY <1>0, <1>6, <1>11, EndStep
  <1>15. ASSUME NEW i \in 1..Len(rows) PROVE Follows(rows[i], rows'[i])
    BY <1>11 DEF Follows, Pending
  <1>. QED BY <1>6, <1>7, <1>12, <1>13, <1>14, <1>15 DEF WorkerStep, Sound, JobsGood, Promised

(* A worker moves on, with at most one change of its row. *)
LEMMA MoveKeeps ==
    ASSUME Sound, NEW w \in Workers, NEW j \in Job, jobs' = [jobs EXCEPT ![w] = j],
           jobs[w].stage # "idle", j = Idle \/ (j.row = jobs[w].row /\ j.stage # "idle"),
           j.stage \in Carrying => jobs[w].stage \in Carrying,
           j.stage = "sent" => rows'[j.row].deliveries > 0,
           rows' \in Seq(OutRow), Len(rows') = Len(rows),
           \A i \in 1..Len(rows) : i # jobs[w].row => rows'[i] = rows[i],
           LET a == rows[jobs[w].row] b == rows'[jobs[w].row] IN
                /\ Identity(a, b) /\ b.attempt = a.attempt
                /\ b.status = a.status \/ (Pending(a) /\ (b.status = "sent" => b.deliveries > 0))
                /\ b.deliveries = a.deliveries \/
                    (b.deliveries = a.deliveries + 1 /\ jobs[w].stage \in Carrying /\ j.stage \notin Carrying)
    PROVE  /\ Len(rows') = Len(rows) /\ \A i \in 1..Len(rows) : Follows(rows[i], rows'[i])
           /\ Sound' /\ rows[jobs[w].row] \in OutRow /\ jobs[w].row \in 1..Len(rows)
           /\ \A i \in 1..Len(rows) : rows'[i].status = "sent" => rows'[i].deliveries > 0
  <1>0. rows \in Seq(OutRow) /\ jobs \in [Workers -> Job] /\ RowsCounted /\ JobsGood /\ Len(rows) \in Nat BY DEF Sound
  <1>1. DOMAIN rows = 1..Len(rows) /\ DOMAIN rows' = 1..Len(rows) BY <1>0
  <1>16. jobs[w].row \in 1..Len(rows) BY <1>0, <1>1 DEF JobsGood, JobGood
  <1>2. PICK k \in 1..Len(rows) : k = jobs[w].row BY <1>16
  <1>17. /\ Identity(rows[k], rows'[k]) /\ rows'[k].attempt = rows[k].attempt
         /\ rows'[k].status = rows[k].status \/ (Pending(rows[k]) /\ (rows'[k].status = "sent" => rows'[k].deliveries > 0))
         /\ rows'[k].deliveries = rows[k].deliveries \/
                (rows'[k].deliveries = rows[k].deliveries + 1 /\ jobs[w].stage \in Carrying /\ j.stage \notin Carrying)
    BY <1>2
  <1>3. /\ jobs' \in [Workers -> Job] /\ jobs'[w] = j /\ \A v \in Workers : v # w => jobs'[v] = jobs[v]
        /\ \A i : Carriers(i)' = IF j.row = i /\ j.stage \in Carrying THEN Carriers(i) \cup {w}
                                 ELSE Carriers(i) \ {w}
    BY <1>0, JobMoves
  <1>4. \A i \in 1..Len(rows) : RowCounted(i) BY <1>0, <1>1 DEF RowsCounted
  <1>5. jobs[w].stage \in Carrying => w \in Carriers(k) BY <1>2 DEF Carriers, Carrying
  <1>6. j.stage \in Carrying => j.row = k BY <1>2 DEF Idle, Carrying
  <1>7. \A i : Carriers(i)' \in SUBSET Carriers(i)
    <2>1. ASSUME NEW i PROVE Carriers(i)' \in SUBSET Carriers(i)
      <3>1. CASE j.row = i /\ j.stage \in Carrying
        <4>1. w \in Carriers(i) BY <3>1, <1>5, <1>6
        <4>. QED BY <4>1, <3>1, <1>3
      <3>2. CASE ~(j.row = i /\ j.stage \in Carrying) BY <3>2, <1>3
      <3>. QED BY <3>1, <3>2
    <2>. QED BY <2>1
  <1>8. \A i : Cardinality(Carriers(i)') <= Cardinality(Carriers(i)) /\ Cardinality(Carriers(i)') \in Nat
    <2>1. ASSUME NEW i PROVE Cardinality(Carriers(i)') <= Cardinality(Carriers(i)) /\ Cardinality(Carriers(i)') \in Nat
      <3>1. IsFiniteSet(Carriers(i)) BY CarriersFinite
      <3>2. Carriers(i)' \in SUBSET Carriers(i) BY <1>7
      <3>3. IsFiniteSet(Carriers(i)') /\ Cardinality(Carriers(i)') <= Cardinality(Carriers(i)) BY <3>1, <3>2, FS_Subset
      <3>. QED BY <3>3, FS_CardinalityType
    <2>. QED BY <2>1
  <1>9. rows[k] \in OutRow /\ rows'[k] \in OutRow BY <1>0, <1>2
  <1>10. RowCounted(k)'
    <2>0. /\ rows[k].deliveries \in Nat /\ rows[k].attempt \in Nat /\ MaxAttempts \in Nat
          /\ rows[k].deliveries + Cardinality(Carriers(k)) <= rows[k].attempt /\ rows[k].attempt <= MaxAttempts
          /\ rows[k].status = "sent" => rows[k].deliveries > 0
          /\ Cardinality(Carriers(k)) \in Nat
      BY <1>2, <1>4, <1>9, Constants, CarriersFinite DEF RowCounted, OutRow
    <2>1. CASE rows'[k].deliveries = rows[k].deliveries
      <3>1. Cardinality(Carriers(k)') <= Cardinality(Carriers(k)) /\ Cardinality(Carriers(k)') \in Nat BY <1>8
      <3>2. rows'[k].attempt = rows[k].attempt BY <1>17
      <3>3. rows'[k].status = "sent" => rows'[k].deliveries > 0 BY <2>0, <2>1, <1>17
      <3>. QED BY <3>1, <3>2, <3>3, <2>0, <2>1 DEF RowCounted
    <2>2. CASE rows'[k].deliveries = rows[k].deliveries + 1 /\ jobs[w].stage \in Carrying /\ j.stage \notin Carrying
      <3>1. Carriers(k)' = Carriers(k) \ {w} /\ w \in Carriers(k) BY <2>2, <1>3, <1>5
      <3>2. Cardinality(Carriers(k)') = Cardinality(Carriers(k)) - 1 BY <3>1, CarriersFinite, FS_RemoveElement
      <3>3. rows'[k].attempt = rows[k].attempt BY <1>17
      <3>4. rows'[k].status = "sent" => rows'[k].deliveries > 0 BY <2>0, <2>2, <1>17
      <3>. QED BY <3>2, <3>3, <3>4, <2>0, <2>2 DEF RowCounted
    <2>. QED BY <2>1, <2>2, <1>17
  <1>11. ASSUME NEW i \in 1..Len(rows)
         PROVE  RowCounted(i)' /\ Follows(rows[i], rows'[i]) /\ (rows[i].deliveries > 0 => rows'[i].deliveries > 0)
    <2>1. CASE i = k
      <3>1. rows[k].deliveries \in Nat BY <1>9 DEF OutRow
      <3>2. rows[k].deliveries > 0 => rows'[k].deliveries > 0 BY <3>1, <1>17
      <3>. QED BY <2>1, <1>10, <1>17, <3>2 DEF Follows, Pending
    <2>2. CASE i # k
      <3>1. rows'[i] = rows[i] BY <2>2, <1>2
      <3>2. Cardinality(Carriers(i)') <= Cardinality(Carriers(i)) /\ Cardinality(Carriers(i)') \in Nat BY <1>8
      <3>3. RowCounted(i) /\ rows[i].deliveries \in Nat /\ rows[i].attempt \in Nat /\ Cardinality(Carriers(i)) \in Nat
        <4>1. rows[i] \in OutRow BY <1>0
        <4>. QED BY <4>1, <1>4, CarriersFinite DEF OutRow
      <3>4. RowCounted(i)' BY <3>1, <3>2, <3>3 DEF RowCounted
      <3>. QED BY <3>1, <3>4 DEF Follows, Identity
    <2>. QED BY <2>1, <2>2
  <1>12. RowsCounted' BY <1>1, <1>11 DEF RowsCounted
  <1>13. ASSUME NEW v \in Workers PROVE JobGood(v)'
    <2>1. CASE v = w
      <3>1. CASE j = Idle BY <2>1, <3>1, <1>3 DEF JobGood, Idle
      <3>2. CASE j.row = k /\ j.stage # "idle" BY <2>1, <3>2, <1>1, <1>2, <1>3 DEF JobGood
      <3>. QED BY <3>1, <3>2, <1>2
    <2>2. CASE v # w
      <3>1. JobGood(v) /\ jobs'[v] = jobs[v] BY <2>2, <1>0, <1>3 DEF JobsGood
      <3>. QED BY <3>1, <1>1, <1>11 DEF JobGood
    <2>. QED BY <2>1, <2>2
  <1>14. Sound' BY <1>3, <1>12, <1>13 DEF Sound, JobsGood
  <1>15. \A i \in 1..Len(rows) : rows'[i].status = "sent" => rows'[i].deliveries > 0
    BY <1>11 DEF RowCounted
  <1>. QED BY <1>2, <1>9, <1>11, <1>14, <1>15, <1>16

LEMMA StageKeeps ==
    ASSUME Sound, NEW w \in Workers, NEW s \in {"sending", "refused"}, jobs[w].stage \in Carrying,
           Stage(w, s), UNCHANGED rows
    PROVE  WorkerStep
  <1> DEFINE j == [jobs[w] EXCEPT !.stage = s]
  <1>0. rows \in Seq(OutRow) /\ jobs \in [Workers -> Job] BY DEF Sound
  <1>1. jobs[w] \in Job BY <1>0
  <1>2. j \in Job /\ j.row = jobs[w].row /\ j.stage = s BY <1>1 DEF Job
  <1>3. jobs' = [jobs EXCEPT ![w] = j] BY DEF Stage
  <1>. HIDE DEF j
  <1>4. Identity(rows[jobs[w].row], rows'[jobs[w].row]) BY DEF Identity
  <1>5. \A i \in 1..Len(rows) : rows'[i] = rows[i] OBVIOUS
  <1>7. j.stage # "idle" /\ j.stage # "sent" /\ jobs[w].stage # "idle" BY <1>2 DEF Carrying
  <1>8. rows' \in Seq(OutRow) /\ Len(rows') = Len(rows) BY <1>0
  <1>9. LET a == rows[jobs[w].row] b == rows'[jobs[w].row] IN
            b.attempt = a.attempt /\ b.status = a.status /\ b.deliveries = a.deliveries
    OBVIOUS
  <1>6. (\A i \in 1..Len(rows) : Follows(rows[i], rows'[i])) /\ Sound'
    BY <1>2, <1>3, <1>4, <1>5, <1>7, <1>8, <1>9, MoveKeeps
  <1>. QED BY <1>6 DEF WorkerStep, Promised, Mail

LEMMA RestKeeps ==
    ASSUME Sound, NEW w \in Workers, jobs[w].stage # "idle", Rest(w), UNCHANGED rows
    PROVE  WorkerStep
  <1>0. rows \in Seq(OutRow) /\ jobs \in [Workers -> Job] BY DEF Sound
  <1>1. Idle \in Job /\ Idle.stage = "idle" BY DEF Job, Idle
  <1>3. jobs' = [jobs EXCEPT ![w] = Idle] BY DEF Rest
  <1>4. Identity(rows[jobs[w].row], rows'[jobs[w].row]) BY DEF Identity
  <1>5. \A i \in 1..Len(rows) : rows'[i] = rows[i] OBVIOUS
  <1>7. Idle.stage \notin Carrying /\ Idle.stage # "sent" BY <1>1 DEF Carrying
  <1>8. rows' \in Seq(OutRow) /\ Len(rows') = Len(rows) BY <1>0
  <1>9. LET a == rows[jobs[w].row] b == rows'[jobs[w].row] IN
            b.attempt = a.attempt /\ b.status = a.status /\ b.deliveries = a.deliveries
    OBVIOUS
  <1>6. (\A i \in 1..Len(rows) : Follows(rows[i], rows'[i])) /\ Sound'
    BY <1>1, <1>3, <1>4, <1>5, <1>7, <1>8, <1>9, MoveKeeps
  <1>. QED BY <1>6 DEF WorkerStep, Promised, Mail

LEMMA SendKeeps ==
    ASSUME Sound, NEW w \in Workers, jobs[w].stage = "sending",
           NEW k, k = jobs[w].row, rows' = [rows EXCEPT ![k].deliveries = @ + 1],
           NEW s \in {"sent", "refused"}, Stage(w, s)
    PROVE  WorkerStep
  <1> DEFINE j == [jobs[w] EXCEPT !.stage = s]
  <1>0. rows \in Seq(OutRow) /\ jobs \in [Workers -> Job] /\ RowsCounted /\ JobsGood BY DEF Sound
  <1>1. jobs[w] \in Job BY <1>0
  <1>2. j \in Job /\ j.row = jobs[w].row /\ j.stage = s BY <1>1 DEF Job
  <1>3. jobs' = [jobs EXCEPT ![w] = j] BY DEF Stage
  <1>. HIDE DEF j
  <1>4. jobs[w].row \in 1..Len(rows) /\ DOMAIN rows = 1..Len(rows) BY <1>0 DEF JobsGood, JobGood
  <1>5. k \in 1..Len(rows) BY <1>4
  <1> DEFINE r == [rows[k] EXCEPT !.deliveries = @ + 1]
  <1>6. rows[k] \in OutRow BY <1>0, <1>5
  <1>7. /\ r \in OutRow /\ Identity(rows[k], r) /\ r.status = rows[k].status
        /\ r.attempt = rows[k].attempt /\ r.deliveries = rows[k].deliveries + 1
    BY <1>6, TookRow
  <1>8. rows' = [rows EXCEPT ![k] = r] OBVIOUS
  <1>. HIDE DEF r
  <1>9. /\ rows' \in Seq(OutRow) /\ Len(rows') = Len(rows) /\ rows'[k] = r
        /\ \A i \in 1..Len(rows) : i # k => rows'[i] = rows[i]
    BY <1>0, <1>5, <1>7, <1>8, OneRow
  <1>10. RowCounted(k) /\ Cardinality(Carriers(k)) \in Nat /\ IsFiniteSet(Carriers(k)) BY <1>0, <1>4, CarriersFinite DEF RowsCounted
  <1>11. w \in Carriers(k) BY DEF Carriers
  <1>12. Cardinality(Carriers(k)) # 0 BY <1>10, <1>11, FS_EmptySet
  <1>13. rows[k].deliveries \in Nat /\ rows[k].attempt \in Nat /\ MaxAttempts \in Nat BY <1>6, Constants DEF OutRow
  <1>14. rows[k].deliveries < MaxAttempts BY <1>10, <1>12, <1>13 DEF RowCounted
  <1>15. rows'[k].deliveries = rows[k].deliveries + 1 /\ rows'[k].deliveries > 0 BY <1>7, <1>9, <1>13
  <1>16. Identity(rows[k], rows'[k]) /\ rows'[k].attempt = rows[k].attempt /\ rows'[k].status = rows[k].status
    BY <1>7, <1>9
  <1>17. j.stage \notin Carrying /\ j.stage # "idle" /\ jobs[w].stage \in Carrying BY <1>2 DEF Carrying
  <1>18. (\A i \in 1..Len(rows) : Follows(rows[i], rows'[i])) /\ Sound'
    BY <1>2, <1>3, <1>5, <1>9, <1>15, <1>16, <1>17, MoveKeeps
  <1>19. Promise!Next BY <1>0, <1>5, <1>14, HandStep
  <1>. QED BY <1>9, <1>18, <1>19 DEF WorkerStep, Promised

(* The row of a worker ends, or is due again, and the worker rests. *)
LEMMA RecordKeeps ==
    ASSUME Sound, NEW w \in Workers, jobs[w].stage # "idle", Rest(w), Owned(w),
           NEW r \in OutRow, rows' = [rows EXCEPT ![jobs[w].row] = r],
           Identity(rows[jobs[w].row], r), r.attempt = rows[jobs[w].row].attempt,
           r.deliveries = rows[jobs[w].row].deliveries, r.status = "sent" => r.deliveries > 0
    PROVE  WorkerStep
  <1>0. rows \in Seq(OutRow) /\ jobs \in [Workers -> Job] /\ RowsCounted /\ JobsGood BY DEF Sound
  <1>1. Idle \in Job /\ Idle.stage = "idle" BY DEF Job, Idle
  <1>3. jobs' = [jobs EXCEPT ![w] = Idle] BY DEF Rest
  <1>4. jobs[w].row \in 1..Len(rows) /\ DOMAIN rows = 1..Len(rows) BY <1>0 DEF JobsGood, JobGood
  <1>5. PICK k \in 1..Len(rows) : k = jobs[w].row BY <1>4
  <1>6. Pending(rows[k]) BY <1>5 DEF Owned
  <1>9. /\ rows' \in Seq(OutRow) /\ Len(rows') = Len(rows) /\ rows'[k] = r
        /\ \A i \in 1..Len(rows) : i # k => rows'[i] = rows[i]
    BY <1>0, <1>5, OneRow
  <1>10. /\ (\A i \in 1..Len(rows) : Follows(rows[i], rows'[i])) /\ Sound'
         /\ \A i \in 1..Len(rows) : rows'[i].status = "sent" => rows'[i].deliveries > 0
    BY <1>1, <1>3, <1>5, <1>6, <1>9, MoveKeeps, ZenonT(60) DEF Carrying
  <1>11. ASSUME NEW i \in 1..Len(rows)
         PROVE  /\ Identity(rows[i], rows'[i]) /\ rows'[i].deliveries = rows[i].deliveries
                /\ rows'[i].status # rows[i].status => Pending(rows[i])
                /\ rows'[i].status = "sent" => rows[i].deliveries > 0
    <2>1. CASE i = k BY <2>1, <1>5, <1>6, <1>9, <1>10
    <2>2. CASE i # k BY <2>2, <1>9, <1>10 DEF Identity
    <2>. QED BY <2>1, <2>2
  <1>12. Promise!Next BY <1>0, <1>9, <1>11, EndStep
  <1>. QED BY <1>9, <1>10, <1>12 DEF WorkerStep, Promised

LEMMA DeliverKeeps ==
    ASSUME Sound, NEW w \in Workers, NEW kinds, Deliver(w, kinds)
    PROVE  WorkerStep
  <1>1. CASE PrepareFails(w) BY <1>1, StageKeeps DEF PrepareFails, Carrying, OnlyRows
  <1>2. CASE OutboxClaimActive(w)
    <2>1. CASE Owned(w) BY <1>2, <2>1, StageKeeps DEF OutboxClaimActive, Carrying
    <2>2. CASE ~Owned(w) BY <1>2, <2>2, RestKeeps DEF OutboxClaimActive
    <2>. QED BY <2>1, <2>2
  <1>3. CASE Send(w)
    <2>1. PICK accepted, told \in BOOLEAN :
            /\ rows' = IF accepted THEN [rows EXCEPT ![jobs[w].row].deliveries = @ + 1] ELSE rows
            /\ Stage(w, IF accepted /\ told THEN "sent" ELSE "refused")
      BY <1>3 DEF Send
    <2>2. jobs[w].stage = "sending" BY <1>3 DEF Send
    <2>3. CASE accepted
      <3>1. PICK k : k = jobs[w].row OBVIOUS
      <3>4. rows' = [rows EXCEPT ![k].deliveries = @ + 1] BY <2>1, <2>3, <3>1
      <3>2. CASE told
        <4>1. Stage(w, "sent") BY <2>1, <2>3, <3>2
        <4>. QED BY <4>1, <3>1, <3>4, <2>2, SendKeeps
      <3>3. CASE ~told
        <4>1. Stage(w, "refused") BY <2>1, <2>3, <3>3
        <4>. QED BY <4>1, <3>1, <3>4, <2>2, SendKeeps
      <3>. QED BY <3>2, <3>3
    <2>4. CASE ~accepted
      <3>1. UNCHANGED rows /\ Stage(w, "refused") BY <2>1, <2>4
      <3>. QED BY <3>1, <2>2, StageKeeps DEF Carrying
    <2>. QED BY <2>3, <2>4
  <1>. QED BY <1>1, <1>2, <1>3 DEF Deliver

LEMMA CompleteKeeps ==
    ASSUME Sound, NEW w \in Workers, Complete(w)
    PROVE  WorkerStep
  <1>0. rows \in Seq(OutRow) /\ jobs \in [Workers -> Job] /\ JobsGood BY DEF Sound
  <1>1. jobs[w].stage = "sent" /\ Rest(w) BY DEF Complete
  <1>2. CASE Owned(w)
    <2>1. JobGood(w) /\ DOMAIN rows = 1..Len(rows) BY <1>0 DEF JobsGood
    <2>2. jobs[w].row \in 1..Len(rows) /\ rows[jobs[w].row].deliveries > 0 BY <2>1, <1>1 DEF JobGood
    <2>3. PICK r : r = Ended(rows[jobs[w].row], "sent") OBVIOUS
    <2>4. rows[jobs[w].row] \in OutRow BY <1>0, <2>2
    <2>5. /\ r \in OutRow /\ Identity(rows[jobs[w].row], r)
          /\ r.attempt = rows[jobs[w].row].attempt /\ r.deliveries = rows[jobs[w].row].deliveries
      BY <2>3, <2>4, EndedRow DEF Statuses
    <2>6. rows' = [rows EXCEPT ![jobs[w].row] = r] BY <1>2, <2>1, <2>2, <2>3 DEF Complete
    <2>. QED BY <1>1, <1>2, <2>2, <2>5, <2>6, RecordKeeps
  <1>3. CASE ~Owned(w)
    <2>1. UNCHANGED rows BY <1>3 DEF Complete
    <2>. QED BY <2>1, <1>1, RestKeeps
  <1>. QED BY <1>2, <1>3

LEMMA FailureKeeps ==
    ASSUME Sound, NEW w \in Workers, RecordFailure(w)
    PROVE  WorkerStep
  <1>0. rows \in Seq(OutRow) /\ jobs \in [Workers -> Job] /\ JobsGood /\ RowsCounted BY DEF Sound
  <1>1. jobs[w].stage = "refused" /\ Rest(w) BY DEF RecordFailure
  <1>2. CASE Owned(w)
    <2>1. JobGood(w) /\ DOMAIN rows = 1..Len(rows) BY <1>0 DEF JobsGood
    <2>2. jobs[w].row \in 1..Len(rows) BY <2>1, <1>1 DEF JobGood
    <2>3. PICK r : r = Failed(rows[jobs[w].row]) OBVIOUS
    <2>4. rows[jobs[w].row] \in OutRow /\ Pending(rows[jobs[w].row]) BY <1>0, <1>2, <2>2 DEF Owned
    <2>5. r \in OutRow /\ Touches(rows[jobs[w].row], r) BY <2>3, <2>4, FailedRow
    <2>6. /\ Identity(rows[jobs[w].row], r) /\ r.status # "sent"
          /\ r.attempt = rows[jobs[w].row].attempt /\ r.deliveries = rows[jobs[w].row].deliveries
      BY <2>4, <2>5 DEF Touches, Pending
    <2>7. rows' = [rows EXCEPT ![jobs[w].row] = r] BY <1>2, <2>1, <2>2, <2>3 DEF RecordFailure
    <2>. QED BY <1>1, <1>2, <2>5, <2>6, <2>7, RecordKeeps
  <1>3. CASE ~Owned(w)
    <2>1. UNCHANGED rows BY <1>3 DEF RecordFailure
    <2>. QED BY <2>1, <1>1, RestKeeps
  <1>. QED BY <1>2, <1>3

OtherVars == <<users, switches, switched, codes, cooldowns, updates, hooks, accScope>>

LEMMA MailerStep ==
    ASSUME Sound, NEW w \in Mailers, Mailer(w)
    PROVE  WorkerStep /\ UNCHANGED OtherVars
  <1>0. w \in Workers /\ rows \in Seq(OutRow) BY DEF Sound, Workers
  <1>1. DOMAIN rows = 1..Len(rows) BY <1>0
  <1>2. CASE RunOnce(w)
    <2>1. jobs[w] = Idle /\ UNCHANGED OtherVars BY <1>2 DEF RunOnce, OtherVars
    <2>2. ASSUME NEW kind, ClaimMail(w, kind) PROVE WorkerStep
      <3>1. PICK i \in 1..Len(rows) : Claimable(rows[i]) /\ Take(w, Recovered, i) BY <2>2, <1>1 DEF ClaimMail
      <3>2. ~Exhausted(rows[i])
        <4>1. rows[i] \in OutRow BY <1>0
        <4>2. rows[i].attempt \in Nat BY <4>1 DEF OutRow
        <4>. QED BY <3>1, <4>2, Constants DEF Exhausted, Claimable
      <3>3. Touched(rows, Recovered) /\ Recovered[i] = rows[i] BY <1>0, <3>2, RecoveredTouches
      <3>. QED BY <1>0, <2>1, <3>1, <3>3, TakeKeeps
    <2>3. CASE rows' = Recovered /\ UNCHANGED jobs
      <3>1. Touched(rows, Recovered) BY <1>0, RecoveredTouches
      <3>2. Touched(rows, rows') BY <3>1, <2>3
      <3>. QED BY <3>2, <2>1, <2>3, TouchStep
    <2>. QED BY <1>2, <2>1, <2>2, <2>3
         DEF RunOnce, ClaimPasswordResetMail, ClaimRegistrationEmailVerificationMail, ClaimLoginLinkMail,
             ClaimTicketMail, ClaimSubscriptionReminder
  <1>3. ASSUME NEW kinds, Deliver(w, kinds) PROVE WorkerStep /\ UNCHANGED OtherVars
    BY <1>0, <1>3, DeliverKeeps DEF Deliver, PrepareFails, OutboxClaimActive, Send, OnlyRows, OtherVars
  <1>4. CASE Complete(w) BY <1>0, <1>4, CompleteKeeps DEF Complete, OnlyRows, OtherVars
  <1>5. CASE RecordFailure(w) BY <1>0, <1>5, FailureKeeps DEF RecordFailure, OnlyRows, OtherVars
  <1>. QED BY <1>2, <1>3, <1>4, <1>5
       DEF Mailer, deliverPasswordReset, deliverRegistrationEmailVerification, deliverLoginLink, deliverTicket,
           deliverSubscriptionReminder, CompletePasswordResetMail, CompleteRegistrationEmailVerificationMail,
           CompleteLoginLinkMail, CompleteTicketMail, CompleteSubscriptionReminder, FailPasswordResetMail,
           FailRegistrationEmailVerificationMail, FailLoginLinkMail, FailTicketMail, FailSubscriptionReminder

LEMMA BotStep ==
    ASSUME Sound, NEW w \in Bots, Bot(w)
    PROVE  WorkerStep /\ UNCHANGED OtherVars
  <1>0. w \in Workers /\ rows \in Seq(OutRow) BY DEF Sound, Workers
  <1>1. DOMAIN rows = 1..Len(rows) BY <1>0
  <1>2. CASE ClaimTelegramMessage(w)
    <2>1. jobs[w] = Idle /\ UNCHANGED OtherVars BY <1>2 DEF ClaimTelegramMessage, OtherVars
    <2>2. Touched(rows, Redirected) BY <1>0, RedirectedTouches
    <2>3. ASSUME NEW i \in 1..Len(rows), Claimable(rows[i]), Take(w, Redirected, i) PROVE WorkerStep
      <3>1. Redirected[i] = rows[i] BY <1>0, <2>3, RedirectedTouches
      <3>. QED BY <1>0, <2>1, <2>2, <2>3, <3>1, TakeKeeps
    <2>4. CASE rows' = Redirected /\ UNCHANGED jobs
      <3>2. Touched(rows, rows') BY <2>2, <2>4
      <3>. QED BY <3>2, <2>1, <2>4, TouchStep
    <2>. QED BY <1>1, <1>2, <2>1, <2>3, <2>4 DEF ClaimTelegramMessage
  <1>3. ASSUME NEW kinds, Deliver(w, kinds) PROVE WorkerStep /\ UNCHANGED OtherVars
    BY <1>0, <1>3, DeliverKeeps DEF Deliver, PrepareFails, OutboxClaimActive, Send, OnlyRows, OtherVars
  <1>4. CASE Complete(w) BY <1>0, <1>4, CompleteKeeps DEF Complete, OnlyRows, OtherVars
  <1>5. CASE RecordFailure(w) BY <1>0, <1>5, FailureKeeps DEF RecordFailure, OnlyRows, OtherVars
  <1>. QED BY <1>2, <1>3, <1>4, <1>5 DEF Bot, deliverClaimed, CompleteTelegramMessage, FailTelegramMessage

LEMMA DeathStep ==
    ASSUME Sound, NEW w \in Workers, WorkerDies(w)
    PROVE  WorkerStep /\ UNCHANGED OtherVars
  <1>1. jobs[w] # Idle /\ Rest(w) /\ UNCHANGED rows /\ UNCHANGED OtherVars BY DEF WorkerDies, OnlyRows, OtherVars
  <1>2. jobs[w].stage # "idle" BY <1>1 DEF Sound, JobsGood, JobGood
  <1>. QED BY <1>1, <1>2, RestKeeps

-----------------------------------------------------------------------------
(* What the steps of the outboxes leave alone of the accounts and their codes. *)
SameAccount(a, b) == /\ b.email = a.email /\ b.pw = a.pw /\ b.banned = a.banned /\ b.life = a.life
                     /\ b.invite = a.invite /\ b.proof = a.proof
UsersQuiet == \A u \in Users : SameAccount(users[u], users'[u])
AdmissionsQuiet == \A u \in Users : users'[u].invite = users[u].invite /\ users'[u].proof = users[u].proof
RowsFollow == /\ rows \in Seq(OutRow) /\ rows' \in Seq(OutRow) /\ Len(rows) <= Len(rows') /\ Len(rows') <= MaxRows
              /\ \A i \in 1..Len(rows) : Follows(rows[i], rows'[i])
SameCode(c, d) == d.kind = c.kind /\ d.key = c.key /\ d.user = c.user /\ d.code = c.code /\ d.pw = c.pw
CodesFollow == codes \in SUBSET Code /\ \A d \in codes' : \E c \in codes : SameCode(c, d)

LEMMA QuietOpens ==
    ASSUME AbsentBlank, CredsGood, CodesGood, RequestsGood,
           UsersQuiet, CodesFollow, UNCHANGED <<creds, requests>>
    PROVE  AbsentBlank' /\ CredsGood' /\ CodesGood' /\ RequestsGood'
  <1>1. ASSUME NEW u PROVE Exists(u)' <=> Exists(u) BY DEF Exists, UsersQuiet, SameAccount
  <1>2. AbsentBlank' BY DEF AbsentBlank, UsersQuiet, SameAccount
  <1>3. ASSUME NEW c \in creds PROVE CredGood(c)'
    <2>1. CredGood(c) /\ c.user \in Users BY DEF CredsGood, CredGood, Exists
    <2>2. SameAccount(users[c.user], users'[c.user]) BY <2>1 DEF UsersQuiet
    <2>. QED BY <1>1, <2>1, <2>2 DEF CredGood, SameAccount
  <1>4. ASSUME NEW d \in codes' PROVE CodeGood(d)'
    <2>1. PICK c \in codes : SameCode(c, d) BY DEF CodesFollow
    <2>2. CodeGood(c) BY DEF CodesGood
    <2>3. Exists(d.user)' <=> Exists(c.user) BY <1>1, <2>1 DEF SameCode
    <2>4. c.user \in Users \cup {Nobody} BY DEF CodesFollow, Code
    <2>5. c.user # Nobody => users'[c.user].pw = users[c.user].pw BY <2>4 DEF UsersQuiet, SameAccount
    <2>. QED BY <2>1, <2>2, <2>3, <2>5 DEF CodeGood, SameCode
  <1>5. ASSUME NEW h \in Handlers PROVE RequestGood(requests[h])'
    <2>1. RequestGood(requests[h]) /\ (Exists(requests[h].user)' <=> Exists(requests[h].user))
      <3>1. Exists(requests[h].user)' <=> (requests'[h].user \in Users /\ users'[requests'[h].user].life # "absent") BY DEF Exists
      <3>. QED BY <3>1 DEF RequestsGood, Exists, UsersQuiet, SameAccount
    <2>. QED BY <2>1 DEF RequestGood
  <1>. QED BY <1>2, <1>3, <1>4, <1>5 DEF CredsGood, CodesGood, RequestsGood

LEMMA NumbersFollow ==
    ASSUME CodesNumbered, CodesFollow, RowsFollow
    PROVE  CodesNumbered'
  <1>0. Len(rows) \in Nat /\ Len(rows') \in Nat /\ Len(rows) <= Len(rows') /\ Len(rows') <= MaxRows /\ MaxRows \in Nat
    BY Constants DEF RowsFollow
  <1>1. ASSUME NEW d \in codes'
        PROVE  /\ d.code <= Len(rows')
               /\ d.kind \in Guessed /\ d.code # 0 => rows'[d.code].kind = d.kind /\ rows'[d.code].key = d.key
    <2>1. PICK c \in codes : SameCode(c, d) BY DEF CodesFollow
    <2>2. /\ c.code <= Len(rows)
          /\ c.kind \in Guessed /\ c.code # 0 => rows[c.code].kind = c.kind /\ rows[c.code].key = c.key
      BY DEF CodesNumbered
    <2>3. c.code \in Nat BY DEF CodesFollow, Code
    <2>4. c.code # 0 => c.code \in 1..Len(rows) BY <2>2, <2>3, <1>0
    <2>5. c.code # 0 => Identity(rows[c.code], rows'[c.code]) BY <2>4 DEF RowsFollow, Follows
    <2>. QED BY <1>0, <2>1, <2>2, <2>3, <2>5 DEF SameCode, Identity
  <1>. QED BY <1>0, <1>1 DEF CodesNumbered

LEMMA SpentFollow ==
    ASSUME InvitesSpent, ProofsSpent, users \in [Users -> Account], AdmissionsQuiet, CodesFollow, RowsFollow,
           UNCHANGED invitations
    PROVE  InvitesSpent' /\ ProofsSpent'
  <1>0. Len(rows) \in Nat /\ Len(rows') \in Nat /\ Len(rows) <= Len(rows') BY DEF RowsFollow
  <1>1. InvitesSpent' BY DEF InvitesSpent, AdmissionsQuiet
  <1>2. ASSUME NEW u \in Users PROVE users'[u].proof = users[u].proof /\ users[u].proof \in Nat
    BY DEF AdmissionsQuiet, Account
  <1>3. \A u \in Users : users'[u].proof <= Len(rows') BY <1>0, <1>2 DEF ProofsSpent
  <1>4. ASSUME NEW u \in Users, NEW d \in codes', d.kind = "registration", users'[u].proof = d.code PROVE d.code = 0
    <2>1. PICK c \in codes : SameCode(c, d) BY DEF CodesFollow
    <2>. QED BY <1>2, <1>4, <2>1 DEF ProofsSpent, SameCode
  <1>5. \A u, v \in Users : u # v /\ users'[u].proof = users'[v].proof => users'[u].proof = 0
    BY <1>2 DEF ProofsSpent
  <1>. QED BY <1>1, <1>3, <1>4, <1>5 DEF ProofsSpent

LEMMA QuietAdmits ==
    ASSUME InvitesSpent, ProofsSpent, CodesNumbered, GuessesCounted,
           users \in [Users -> Account],
           UsersQuiet, CodesFollow, RowsFollow, UNCHANGED <<invitations, wrong>>
    PROVE  /\ InvitesSpent' /\ ProofsSpent' /\ CodesNumbered'
           /\ \A i \in 1..MaxRows : wrong'[i] < 2 * MaxGuesses /\ (i > Len(rows') => wrong'[i] = 0)
  <1>1. AdmissionsQuiet BY DEF UsersQuiet, SameAccount, AdmissionsQuiet
  <1>2. InvitesSpent' /\ ProofsSpent' BY <1>1, SpentFollow
  <1>3. CodesNumbered' BY NumbersFollow
  <1>4. Len(rows) \in Nat /\ Len(rows') \in Nat /\ Len(rows) <= Len(rows') BY DEF RowsFollow
  <1>5. \A i \in 1..MaxRows : wrong'[i] < 2 * MaxGuesses /\ (i > Len(rows') => wrong'[i] = 0)
    BY <1>4, Constants DEF GuessesCounted
  <1>. QED BY <1>2, <1>3, <1>5

LEMMA FewerCodes ==
    ASSUME CodesApart, GuessesCounted, codes \in SUBSET Code, codes' \in SUBSET codes, UNCHANGED wrong
    PROVE  CodesFollow /\ CodesApart' /\ \A c \in codes' : GuessGood(c)'
  <1>1. CodesFollow BY DEF CodesFollow, SameCode
  <1>2. CodesApart' BY DEF CodesApart
  <1>3. ASSUME NEW c \in codes' PROVE GuessGood(c)'
    <2>1. GuessGood(c) BY DEF GuessesCounted
    <2>. QED BY <2>1 DEF GuessGood
  <1>. QED BY <1>1, <1>2, <1>3

LEMMA StillSource ==
    ASSUME SourceCounted, \A u \in Users : users'[u].fresh = users[u].fresh,
           \A c : c.what = "ip" => (c \in cooldowns' <=> c \in cooldowns)
    PROVE  SourceCounted'
  <1>1. Newcomers' = Newcomers BY DEF Newcomers
  <1>2. \A u \in Newcomers : u \in Users BY DEF Newcomers
  <1>. QED BY <1>1, <1>2 DEF SourceCounted

LEMMA StillBacked ==
    ASSUME RowsBacked, RowsFollow, UNCHANGED codes,
           \A j \in (Len(rows) + 1)..Len(rows') : rows'[j].kind \notin {"reset", "link"}
    PROVE  RowsBacked'
  <1>1. SUFFICES ASSUME NEW i \in DOMAIN rows', rows'[i].kind \in {"reset", "link"}, Pending(rows'[i])
                 PROVE  \E c \in codes' : Backs(c, rows'[i])
    BY DEF RowsBacked
  <1>2. DOMAIN rows' = 1..Len(rows') /\ DOMAIN rows = 1..Len(rows) /\ Len(rows) \in Nat /\ Len(rows') \in Nat
    BY DEF RowsFollow
  <1>3. i \in 1..Len(rows) BY <1>1, <1>2
  <1>4. Follows(rows[i], rows'[i]) BY <1>3 DEF RowsFollow
  <1>5. rows[i].kind \in {"reset", "link"} /\ Pending(rows[i]) BY <1>1, <1>4 DEF Follows, Identity
  <1>6. PICK c \in codes : Backs(c, rows[i]) BY <1>2, <1>3, <1>5 DEF RowsBacked
  <1>7. Backs(c, rows'[i]) BY <1>4, <1>6 DEF Follows, Identity, Backs
  <1>. QED BY <1>7

LEMMA StillAnswered ==
    ASSUME Answered, RowsFollow, \A x \in Updates : updates[x].done => updates'[x].done,
           \A j \in (Len(rows) + 1)..Len(rows') :
                rows'[j].kind = "command" => rows'[j].key \in Updates /\ updates'[rows'[j].key].done
    PROVE  Answered'
  <1>1. SUFFICES ASSUME NEW i \in DOMAIN rows', rows'[i].kind = "command"
                 PROVE  rows'[i].key \in Updates /\ updates'[rows'[i].key].done
    BY DEF Answered
  <1>2. DOMAIN rows' = 1..Len(rows') /\ DOMAIN rows = 1..Len(rows) /\ Len(rows) \in Nat /\ Len(rows') \in Nat
    BY DEF RowsFollow
  <1>3. CASE i \in 1..Len(rows)
    <2>1. Follows(rows[i], rows'[i]) BY <1>3 DEF RowsFollow
    <2>. QED BY <1>1, <1>2, <1>3, <2>1 DEF Answered, Follows, Identity
  <1>4. CASE i \notin 1..Len(rows)
    <2>1. i \in (Len(rows) + 1)..Len(rows') BY <1>2, <1>4
    <2>. QED BY <2>1, <1>1
  <1>. QED BY <1>3, <1>4

LEMMA RowMade ==
    ASSUME NEW kind \in Kinds, NEW user \in Users \cup {Nobody}, NEW key \in Names, NEW code \in Nat
    PROVE  LET r == Row(kind, user, key, code) IN
           /\ r \in OutRow /\ Given(r) /\ r.kind = kind /\ r.user = user /\ r.key = key /\ r.code = code
  BY DEF Row, OutRow, Given, Pending, Statuses

(* One message more, and perhaps those it replaces cancelled. *)
LEMMA AppendKeeps ==
    ASSUME Sound, Len(rows) < MaxRows, NEW t, Touched(rows, t),
           \A i \in 1..Len(rows) : t[i].status \in {rows[i].status, "cancelled"},
           NEW r \in OutRow, Given(r), rows' = Append(t, r), UNCHANGED jobs,
           r.kind = "command" => \A i \in 1..Len(rows) : rows[i].kind = "command" => rows[i].key # r.key,
           r.kind = "reminder" => \A i \in 1..Len(rows) : rows[i].kind = "reminder" => rows[i].user # r.user
    PROVE  /\ Sound' /\ Promised /\ RowsFollow /\ Len(rows') = Len(rows) + 1 /\ rows'[Len(rows) + 1] = r
           /\ \A i \in 1..Len(rows) : rows'[i] = t[i]
           /\ (Len(rows) + 1)..Len(rows') = {Len(rows) + 1}
  <1>0. rows \in Seq(OutRow) /\ Len(rows) \in Nat /\ MaxRows \in Nat BY Constants DEF Sound
  <1>1. t \in Seq(OutRow) /\ Len(t) = Len(rows) BY DEF Touched
  <1>2. /\ rows' \in Seq(OutRow) /\ Len(rows') = Len(rows) + 1 /\ rows'[Len(rows) + 1] = r
        /\ \A i \in 1..Len(rows) : rows'[i] = t[i]
    BY <1>0, <1>1
  <1>3. (Len(rows) + 1)..Len(rows') = {Len(rows) + 1} /\ Len(rows') > Len(rows) BY <1>0, <1>2
  <1>4. \A i \in 1..Len(rows) : Touches(rows[i], rows'[i]) /\ rows'[i].status \in {rows[i].status, "cancelled"}
    BY <1>2 DEF Touched
  <1>5. Sound' /\ Promised BY <1>2, <1>3, <1>4, QueueKeeps
  <1>6. RowsFollow BY <1>0, <1>2, <1>4 DEF RowsFollow, Touches, Follows, Pending
  <1>. QED BY <1>2, <1>3, <1>5, <1>6

LEMMA AppendOne ==
    ASSUME Sound, Len(rows) < MaxRows, NEW r \in OutRow, Given(r), rows' = Append(rows, r), UNCHANGED jobs,
           r.kind = "command" => \A i \in 1..Len(rows) : rows[i].kind = "command" => rows[i].key # r.key,
           r.kind = "reminder" => \A i \in 1..Len(rows) : rows[i].kind = "reminder" => rows[i].user # r.user
    PROVE  /\ Sound' /\ Promised /\ RowsFollow /\ Len(rows') = Len(rows) + 1 /\ rows'[Len(rows) + 1] = r
           /\ (Len(rows) + 1)..Len(rows') = {Len(rows) + 1}
  <1>1. Touched(rows, rows) BY TouchedSelf DEF Sound
  <1>2. \A i \in 1..Len(rows) : rows[i].status \in {rows[i].status, "cancelled"} OBVIOUS
  <1>. QED BY <1>1, <1>2, AppendKeeps

LEMMA TouchFollows ==
    ASSUME Sound, CodesNumbered, Touched(rows, rows')
    PROVE  RowsFollow /\ Len(rows') = Len(rows) /\ (Len(rows) + 1)..Len(rows') = {}
  BY DEF Sound, CodesNumbered, Touched, RowsFollow, Touches, Follows, Pending

Hold == <<creds, requests, invitations, wrong>>
Kept == PanelInv' /\ Promised

LEMMA QuietKeeps ==
    ASSUME PanelInv, PanelTypes', Sound', UsersQuiet, RowsFollow, codes' \in SUBSET codes, RowsBacked',
           \A u \in Users : users'[u].fresh = users[u].fresh,
           \A c : c.what = "ip" => (c \in cooldowns' <=> c \in cooldowns),
           \A x \in Updates : updates[x].done => updates'[x].done,
           \A j \in (Len(rows) + 1)..Len(rows') :
                rows'[j].kind = "command" => rows'[j].key \in Updates /\ updates'[rows'[j].key].done,
           HooksGood', UNCHANGED Hold
    PROVE  PanelInv'
  <1>0. /\ AbsentBlank /\ CredsGood /\ CodesGood /\ RowsBacked /\ RequestsGood
        /\ InvitesSpent /\ ProofsSpent /\ SourceCounted /\ CodesNumbered /\ CodesApart /\ GuessesCounted
        /\ Answered /\ users \in [Users -> Account] /\ codes \in SUBSET Code
    BY DEF PanelInv, OpensInv, AdmitsInv, OutboxInv, PanelTypes
  <1>1. UNCHANGED <<creds, requests>> /\ UNCHANGED <<invitations, wrong>> BY DEF Hold
  <1>2. CodesFollow /\ CodesApart' /\ \A c \in codes' : GuessGood(c)' BY <1>0, <1>1, FewerCodes
  <1>3. AbsentBlank' /\ CredsGood' /\ CodesGood' /\ RequestsGood' BY <1>0, <1>1, <1>2, QuietOpens
  <1>4. /\ InvitesSpent' /\ ProofsSpent' /\ CodesNumbered'
        /\ \A i \in 1..MaxRows : wrong'[i] < 2 * MaxGuesses /\ (i > Len(rows') => wrong'[i] = 0)
    BY <1>0, <1>1, <1>2, QuietAdmits
  <1>5. SourceCounted' BY <1>0, StillSource
  <1>6. Answered' BY <1>0, StillAnswered
  <1>7. GuessesCounted' BY <1>2, <1>4 DEF GuessesCounted
  <1>. QED BY <1>2, <1>3, <1>4, <1>5, <1>6, <1>7 DEF PanelInv, OpensInv, AdmitsInv, OutboxInv, Sound

LEMMA SoundInv == ASSUME PanelInv PROVE Sound /\ CodesNumbered
  BY DEF PanelInv, OutboxInv, PanelTypes, Sound, AdmitsInv

LEMMA WorkerKept ==
    ASSUME PanelInv, WorkerStep, UNCHANGED OtherVars, UNCHANGED Hold
    PROVE  Kept
  <1>0. PanelTypes /\ RowsBacked /\ HooksGood /\ CodesNumbered /\ rows \in Seq(OutRow) /\ Sound
    BY SoundInv DEF PanelInv, OpensInv, AdmitsInv, OutboxInv, PanelTypes
  <1>1. Sound' /\ Promised /\ Len(rows') = Len(rows) BY DEF WorkerStep
  <1>2. PanelTypes' BY <1>0, <1>1 DEF PanelTypes, Sound, OtherVars, Hold
  <1>3. RowsFollow BY <1>0, <1>1 DEF RowsFollow, WorkerStep, Sound, CodesNumbered
  <1>4. (Len(rows) + 1)..Len(rows') = {} BY <1>0, <1>1
  <1>5. UNCHANGED <<users, codes, cooldowns, updates, hooks>> BY DEF OtherVars
  <1>6. RowsBacked' BY <1>0, <1>3, <1>4, <1>5, StillBacked
  <1>7. HooksGood' BY <1>0, <1>5 DEF HooksGood
  <1>8. UsersQuiet BY <1>5 DEF UsersQuiet, SameAccount
  <1>9. PanelInv' BY <1>1, <1>2, <1>3, <1>4, <1>5, <1>6, <1>7, <1>8, QuietKeeps
  <1>. QED BY <1>1, <1>9 DEF Kept

-----------------------------------------------------------------------------
(* Messages are queued. *)
LEMMA QueueTypes ==
    ASSUME PanelTypes, rows' \in Seq(OutRow), UNCHANGED <<users, jobs, codes, updates, hooks, accScope>>,
           UNCHANGED Hold, cooldowns' \in SUBSET Cooling
    PROVE  PanelTypes'
  BY DEF PanelTypes, Hold

(* Rows of other kinds than codes travel in are added, and nothing else changes but a throttle. *)
LEMMA QueuedKept ==
    ASSUME PanelInv, Sound', Promised, RowsFollow, cooldowns' \in SUBSET Cooling,
           \A c : c.what = "ip" => (c \in cooldowns' <=> c \in cooldowns),
           \A j \in (Len(rows) + 1)..Len(rows') : rows'[j].kind \in {"ticket", "reminder", "notice"},
           UNCHANGED <<users, jobs, codes, updates, hooks, accScope>>, UNCHANGED Hold
    PROVE  Kept
  <1>0. PanelTypes /\ RowsBacked /\ HooksGood BY DEF PanelInv, OpensInv, OutboxInv
  <1>1. rows' \in Seq(OutRow) BY DEF Sound
  <1>2. PanelTypes' BY <1>0, <1>1, QueueTypes
  <1>6. RowsBacked' BY <1>0, StillBacked
  <1>7. HooksGood' BY <1>0 DEF HooksGood
  <1>8. UsersQuiet BY DEF UsersQuiet, SameAccount
  <1>9. PanelInv' BY <1>2, <1>6, <1>7, <1>8, QuietKeeps
  <1>. QED BY <1>9 DEF Kept

LEMMA TicketKept ==
    ASSUME PanelInv, NEW u \in Users, enqueueTicketMailTx(u), UNCHANGED Hold
    PROVE  Kept
  <1>0. PanelTypes /\ Sound BY SoundInv DEF PanelInv
  <1>1. Len(rows) < MaxRows /\ UNCHANGED <<users, jobs, codes, updates, hooks, accScope>> BY DEF enqueueTicketMailTx
  <1>2. PICK r : r = Row("ticket", u, users[u].email, Len(rows) + 1) OBVIOUS
  <1>3. users[u].email \in Names /\ u \in Names /\ Len(rows) + 1 \in Nat
    BY <1>0 DEF PanelTypes, Account, Names
  <1>4. r \in OutRow /\ Given(r) /\ r.kind = "ticket" BY <1>2, <1>3, RowMade DEF Kinds
  <1>5. rows' = Append(rows, r) BY <1>2 DEF enqueueTicketMailTx
  <1>6. /\ Sound' /\ Promised /\ RowsFollow /\ rows'[Len(rows) + 1] = r
        /\ (Len(rows) + 1)..Len(rows') = {Len(rows) + 1}
    BY <1>0, <1>1, <1>4, <1>5, AppendOne
  <1>7. PICK c : c = [what |-> "ticket", key |-> u, left |-> Cooldown] OBVIOUS
  <1>8. cooldowns' = cooldowns \cup {c} BY <1>7 DEF enqueueTicketMailTx
  <1>9. c \in Cooling /\ c.what # "ip" BY <1>3, <1>7, Constants DEF Cooling
  <1>10. cooldowns' \in SUBSET Cooling BY <1>0, <1>8, <1>9 DEF PanelTypes
  <1>. QED BY <1>1, <1>4, <1>6, <1>8, <1>9, <1>10, QueuedKept

LEMMA ReminderKept ==
    ASSUME PanelInv, ScheduleSubscriptionReminders, UNCHANGED Hold
    PROVE  Kept
  <1>0. PanelTypes /\ Sound BY SoundInv DEF PanelInv
  <1>1. UNCHANGED <<users, jobs, codes, updates, hooks, accScope>> /\ UNCHANGED cooldowns BY DEF ScheduleSubscriptionReminders
  <1>2. PICK u \in Users : /\ OfUser({"reminder"}, u) = {} /\ Len(rows) < MaxRows
                           /\ rows' = Append(rows, Row("reminder", u, users[u].email, Len(rows) + 1))
    BY DEF ScheduleSubscriptionReminders
  <1>3. PICK r : r = Row("reminder", u, users[u].email, Len(rows) + 1) OBVIOUS
  <1>4. users[u].email \in Names /\ Len(rows) + 1 \in Nat BY <1>0 DEF PanelTypes, Account, Names
  <1>5. r \in OutRow /\ Given(r) /\ r.kind = "reminder" /\ r.user = u BY <1>3, <1>4, RowMade DEF Kinds
  <1>6. \A i \in 1..Len(rows) : rows[i].kind = "reminder" => rows[i].user # u
    BY <1>0, <1>2 DEF OfUser, PanelTypes
  <1>7. /\ Sound' /\ Promised /\ RowsFollow /\ rows'[Len(rows) + 1] = r
        /\ (Len(rows) + 1)..Len(rows') = {Len(rows) + 1}
    BY <1>0, <1>1, <1>2, <1>3, <1>5, <1>6, AppendOne
  <1>8. cooldowns' \in SUBSET Cooling BY <1>0, <1>1 DEF PanelTypes
  <1>. QED BY <1>1, <1>5, <1>7, <1>8, QueuedKept

LEMMA NoticeKept ==
    ASSUME PanelInv, enqueueTelegramAdminNotificationTx, UNCHANGED Hold
    PROVE  Kept
  <1> DEFINE all == {u \in Users : Recipient(u)}
             n == Cardinality(all)
             one == CHOOSE f \in [1..n -> all] : \A u \in all : \E i \in DOMAIN f : f[i] = u
             more == [i \in DOMAIN one |-> Row("notice", one[i], one[i], Len(rows) + i)]
  <1>0. PanelTypes /\ Sound /\ rows \in Seq(OutRow) /\ Len(rows) \in Nat /\ MaxRows \in Nat
    BY SoundInv, Constants DEF PanelInv, PanelTypes
  <1>1. UNCHANGED <<users, jobs, codes, updates, hooks, accScope>> /\ UNCHANGED cooldowns
    BY DEF enqueueTelegramAdminNotificationTx
  <1>2. all # {} /\ Len(rows) + n <= MaxRows /\ rows' = rows \o more BY DEF enqueueTelegramAdminNotificationTx
  <1>3. IsFiniteSet(all) /\ all \in SUBSET Users
    <2>1. all \in SUBSET Users /\ IsFiniteSet(Users) BY OutboxConstants
    <2>. QED BY <2>1, FS_Subset
  <1>4. n \in Nat /\ n # 0 /\ one \in [1..n -> all]
    <2>1. n \in Nat /\ ExistsBijection(1..n, all) BY <1>3, FS_CardinalityType
    <2>2. PICK g : g \in [1..n -> all] /\ \A u \in all : \E i \in 1..n : g[i] = u
      BY <2>1 DEF ExistsBijection, Bijection, Injection, Surjection
    <2>3. \E f \in [1..n -> all] : \A u \in all : \E i \in DOMAIN f : f[i] = u BY <2>2
    <2>4. n # 0 BY <1>2, <1>3, FS_EmptySet
    <2>. QED BY <2>1, <2>3, <2>4
  <1>. HIDE DEF n, one
  <1>5. more = [i \in 1..n |-> Row("notice", one[i], one[i], Len(rows) + i)] BY <1>4
  <1>. HIDE DEF more
  <1>6. ASSUME NEW i \in 1..n PROVE more[i] \in OutRow /\ Given(more[i]) /\ more[i].kind = "notice"
    <2>1. more[i] = Row("notice", one[i], one[i], Len(rows) + i) BY <1>5
    <2>2. one[i] \in Users /\ one[i] \in Names /\ Len(rows) + i \in Nat BY <1>0, <1>3, <1>4 DEF Names
    <2>. QED BY <2>1, <2>2, RowMade DEF Kinds
  <1>7. more \in Seq(OutRow) /\ Len(more) = n
    <2>1. DOMAIN more = 1..n /\ more = [i \in 1..n |-> more[i]] BY <1>5
    <2>. QED BY <1>4, <1>6, <2>1, SeqOfFunction
  <1>8. /\ rows' \in Seq(OutRow) /\ Len(rows') = Len(rows) + n
        /\ \A i \in 1..Len(rows') : rows'[i] = IF i <= Len(rows) THEN rows[i] ELSE more[i - Len(rows)]
    BY <1>0, <1>2, <1>7, ConcatProperties
  <1>9. ASSUME NEW i \in 1..Len(rows) PROVE rows'[i] = rows[i]
    BY <1>0, <1>4, <1>8
  <1>10. ASSUME NEW j \in (Len(rows) + 1)..Len(rows') PROVE Given(rows'[j]) /\ rows'[j].kind = "notice"
    <2>1. j \in 1..Len(rows') /\ ~(j <= Len(rows)) /\ j - Len(rows) \in 1..n BY <1>0, <1>4, <1>8
    <2>2. rows'[j] = more[j - Len(rows)] BY <1>8, <2>1
    <2>. QED BY <2>1, <2>2, <1>6
  <1>11. \A i \in 1..Len(rows) : Touches(rows[i], rows'[i]) /\ rows'[i].status \in {rows[i].status, "cancelled"}
    BY <1>9, TouchesSelf
  <1>12. Len(rows') > Len(rows) BY <1>0, <1>4, <1>8
  <1>13. Sound' /\ Promised BY <1>0, <1>1, <1>8, <1>10, <1>11, <1>12, QueueKeeps
  <1>14. RowsFollow BY <1>0, <1>2, <1>4, <1>8, <1>9, <1>12 DEF RowsFollow, Follows, Identity
  <1>15. cooldowns' \in SUBSET Cooling BY <1>0, <1>1 DEF PanelTypes
  <1>. QED BY <1>1, <1>10, <1>13, <1>14, <1>15, QueuedKept

-----------------------------------------------------------------------------
(* Chats, settings, the webhook, expired codes. *)
LEMMA ChatOnly ==
    ASSUME users \in [Users -> Account], NEW u \in Users, NEW b \in BOOLEAN, users' = [users EXCEPT ![u].chat = b]
    PROVE  users' \in [Users -> Account] /\ UsersQuiet /\ \A v \in Users : users'[v].fresh = users[v].fresh
  <1> DEFINE a == [users[u] EXCEPT !.chat = b]
  <1>1. users[u] \in Account OBVIOUS
  <1>2. a \in Account /\ SameAccount(users[u], a) /\ a.fresh = users[u].fresh BY <1>1 DEF Account, SameAccount
  <1>3. users' = [users EXCEPT ![u] = a] OBVIOUS
  <1>. HIDE DEF a
  <1>4. users' \in [Users -> Account] /\ users'[u] = a /\ \A v \in Users : v # u => users'[v] = users[v]
    BY <1>2, <1>3
  <1>. QED BY <1>2, <1>4 DEF UsersQuiet, SameAccount

LEMMA RecipientKept ==
    ASSUME PanelInv, NEW u \in Users, ChangeRecipient(u), UNCHANGED Hold
    PROVE  Kept
  <1>0. PanelTypes /\ Sound /\ RowsBacked /\ HooksGood /\ CodesNumbered
    BY SoundInv DEF PanelInv, OpensInv, OutboxInv
  <1>1. UNCHANGED <<rows, jobs, codes, cooldowns, updates, hooks, accScope>> BY DEF ChangeRecipient
  <1>2. users' = [users EXCEPT ![u].chat = ~users[u].chat] BY <1>0 DEF ChangeRecipient, PanelTypes
  <1>3. (~users[u].chat) \in BOOLEAN OBVIOUS
  <1>4. users' \in [Users -> Account] /\ UsersQuiet /\ \A v \in Users : users'[v].fresh = users[v].fresh
    BY <1>0, <1>2, <1>3, ChatOnly DEF PanelTypes
  <1>5. PanelTypes' BY <1>0, <1>1, <1>4 DEF PanelTypes, Hold
  <1>6. Touched(rows, rows') BY <1>0, <1>1, TouchedSelf DEF Sound
  <1>7. RowsFollow /\ (Len(rows) + 1)..Len(rows') = {} BY <1>0, <1>6, TouchFollows
  <1>8. Sound' /\ Promised BY <1>0, <1>1, <1>6, TouchKeeps
  <1>9. RowsBacked' BY <1>0, <1>1, <1>7, StillBacked
  <1>10. HooksGood' BY <1>0, <1>1 DEF HooksGood
  <1>11. PanelInv' BY <1>1, <1>4, <1>5, <1>7, <1>8, <1>9, <1>10, QuietKeeps
  <1>. QED BY <1>8, <1>11 DEF Kept

(* Messages are cancelled and codes withdrawn. *)
LEMMA WithdrawKept ==
    ASSUME PanelInv, Touched(rows, rows'), UNCHANGED <<users, jobs, updates, hooks, accScope>>,
           codes' \in SUBSET codes, RowsBacked', cooldowns' \in SUBSET cooldowns,
           \A c \in cooldowns : c.what = "ip" => c \in cooldowns', UNCHANGED Hold
    PROVE  Kept
  <1>0. PanelTypes /\ Sound /\ HooksGood /\ CodesNumbered BY SoundInv DEF PanelInv, OutboxInv
  <1>1. Sound' /\ Promised BY <1>0, TouchKeeps
  <1>2. RowsFollow /\ (Len(rows) + 1)..Len(rows') = {} BY <1>0, TouchFollows
  <1>3. PanelTypes'
    <2>1. rows' \in Seq(OutRow) BY DEF Touched
    <2>. QED BY <1>0, <2>1 DEF PanelTypes, Hold
  <1>4. HooksGood' BY <1>0 DEF HooksGood
  <1>5. UsersQuiet BY DEF UsersQuiet, SameAccount
  <1>6. PanelInv' BY <1>1, <1>2, <1>3, <1>4, <1>5, QuietKeeps
  <1>. QED BY <1>1, <1>6 DEF Kept

LEMMA SwitchKept ==
    ASSUME PanelInv, NEW on, NEW table, Touched(rows, table), Switch(on, table, codes), UNCHANGED cooldowns,
           UNCHANGED Hold
    PROVE  Kept
  <1>0. Sound /\ RowsBacked /\ CodesNumbered BY SoundInv DEF PanelInv, OpensInv
  <1>1. rows' = table /\ codes' = codes /\ UNCHANGED <<users, jobs, updates, hooks, accScope>> BY DEF Switch
  <1>2. Touched(rows, rows') BY <1>1
  <1>3. RowsFollow /\ (Len(rows) + 1)..Len(rows') = {} BY <1>0, <1>2, TouchFollows
  <1>4. RowsBacked' BY <1>0, <1>1, <1>3, StillBacked
  <1>5. codes' \in SUBSET codes /\ cooldowns' \in SUBSET cooldowns BY <1>1
  <1>. QED BY <1>1, <1>2, <1>4, <1>5, WithdrawKept

LEMMA SettingsKept ==
    ASSUME PanelInv, UpdateMailSettings \/ UpdateTicketSettings \/ UpdateTelegramSettings, UNCHANGED Hold
    PROVE  Kept
  <1>0. rows \in Seq(OutRow) BY DEF PanelInv, PanelTypes
  <1>1. Touched(rows, rows) BY <1>0, TouchedSelf
  <1>2. /\ Touched(rows, cancelAllUnclaimedMailTx) /\ Touched(rows, cancelUnclaimedSubscriptionRemindersTx)
        /\ Touched(rows, cancelPendingTelegramMessagesTx)
    BY <1>0, CancelTouches
       DEF cancelAllUnclaimedMailTx, cancelUnclaimedSubscriptionRemindersTx, cancelPendingTelegramMessagesTx
  <1>3. \E on, table : /\ table \in {rows, cancelAllUnclaimedMailTx, cancelUnclaimedSubscriptionRemindersTx,
                                     cancelPendingTelegramMessagesTx}
                       /\ Switch(on, table, codes) /\ UNCHANGED cooldowns
    <2>1. CASE UpdateMailSettings
      <3>1. PICK smtp \in BOOLEAN, remind \in BOOLEAN :
              Switch((switches \ {"smtp", "remind"}) \cup (IF smtp THEN {"smtp"} ELSE {})
                        \cup (IF remind THEN {"remind"} ELSE {}),
                     CASE ~smtp -> cancelAllUnclaimedMailTx
                       [] smtp /\ ~remind -> cancelUnclaimedSubscriptionRemindersTx
                       [] OTHER -> rows,
                     codes)
        BY <2>1 DEF UpdateMailSettings
      <3>2. UNCHANGED cooldowns BY <2>1 DEF UpdateMailSettings
      <3>3. CASE ~smtp BY <3>1, <3>2, <3>3
      <3>4. CASE smtp /\ ~remind BY <3>1, <3>2, <3>4
      <3>5. CASE smtp /\ remind BY <3>1, <3>2, <3>5
      <3>. QED BY <3>3, <3>4, <3>5
    <2>2. CASE UpdateTicketSettings
      <3>1. PICK smtp \in BOOLEAN :
              Switch((switches \ {"smtp"}) \cup (IF smtp THEN {"smtp"} ELSE {}),
                     IF smtp THEN rows ELSE cancelAllUnclaimedMailTx, codes)
        BY <2>2 DEF UpdateTicketSettings
      <3>2. UNCHANGED cooldowns BY <2>2 DEF UpdateTicketSettings
      <3>3. CASE smtp BY <3>1, <3>2, <3>3
      <3>4. CASE ~smtp BY <3>1, <3>2, <3>4
      <3>. QED BY <3>3, <3>4
    <2>3. CASE UpdateTelegramSettings
      <3>1. PICK on \in BOOLEAN, replaced \in BOOLEAN :
              Switch((switches \ {"telegram"}) \cup (IF on THEN {"telegram"} ELSE {}),
                     IF ~on \/ replaced THEN cancelPendingTelegramMessagesTx ELSE rows, codes)
        BY <2>3 DEF UpdateTelegramSettings
      <3>2. UNCHANGED cooldowns BY <2>3 DEF UpdateTelegramSettings
      <3>3. CASE ~on \/ replaced BY <3>1, <3>2, <3>3
      <3>4. CASE ~(~on \/ replaced) BY <3>1, <3>2, <3>4
      <3>. QED BY <3>3, <3>4
    <2>. QED BY <2>1, <2>2, <2>3
  <1>. QED BY <1>1, <1>2, <1>3, SwitchKept

LEMMA SiteKept ==
    ASSUME PanelInv, UpdateSiteSettings, UNCHANGED Hold
    PROVE  Kept
  <1>0. rows \in Seq(OutRow) /\ Sound /\ RowsBacked /\ CodesNumbered BY SoundInv DEF PanelInv, OpensInv, PanelTypes
  <1>1. PICK kinds, gone, to :
            /\ kinds \in SUBSET {"registration", "link"}
            /\ gone = {i \in DOMAIN rows : rows[i].kind \in kinds}
            /\ Switch(to, Cancel(rows, gone), {c \in codes : c.kind \notin kinds})
            /\ cooldowns' = {c \in cooldowns : c.what \notin kinds}
    <2>1. PICK on \in SUBSET {"verify", "mailLogin"} :
            LET off == (switches \cap {"verify", "mailLogin"}) \ on
                kinds == (IF "verify" \in off THEN {"registration"} ELSE {})
                            \cup (IF "mailLogin" \in off THEN {"link"} ELSE {})
            IN  /\ Switch((switches \ {"verify", "mailLogin"}) \cup on,
                          Cancel(rows, {i \in DOMAIN rows : rows[i].kind \in kinds}),
                          {c \in codes : c.kind \notin kinds})
                /\ cooldowns' = {c \in cooldowns : c.what \notin kinds}
      BY DEF UpdateSiteSettings
    <2> DEFINE off == (switches \cap {"verify", "mailLogin"}) \ on
               kinds == (IF "verify" \in off THEN {"registration"} ELSE {})
                            \cup (IF "mailLogin" \in off THEN {"link"} ELSE {})
    <2>2. kinds \in SUBSET {"registration", "link"} OBVIOUS
    <2>3. /\ Switch((switches \ {"verify", "mailLogin"}) \cup on,
                    Cancel(rows, {i \in DOMAIN rows : rows[i].kind \in kinds}),
                    {c \in codes : c.kind \notin kinds})
          /\ cooldowns' = {c \in cooldowns : c.what \notin kinds}
      BY <2>1
    <2>. HIDE DEF kinds
    <2>. QED BY <2>2, <2>3
  <1>2. /\ rows' = Cancel(rows, gone) /\ codes' = {c \in codes : c.kind \notin kinds}
        /\ UNCHANGED <<users, jobs, updates, hooks, accScope>>
    BY <1>1 DEF Switch
  <1>3. Touched(rows, rows') /\ \A i \in 1..Len(rows) : i \in gone => ~Pending(rows'[i])
    BY <1>0, <1>2, CancelTouches
  <1>4. RowsFollow /\ Len(rows') = Len(rows) BY <1>0, <1>3, TouchFollows
  <1>5. RowsBacked'
    <2>1. SUFFICES ASSUME NEW i \in DOMAIN rows', rows'[i].kind \in {"reset", "link"}, Pending(rows'[i])
                   PROVE  \E c \in codes' : Backs(c, rows'[i])
      BY DEF RowsBacked
    <2>2. i \in 1..Len(rows) /\ i \in DOMAIN rows BY <1>0, <1>4 DEF RowsFollow
    <2>3. Follows(rows[i], rows'[i]) BY <2>2, <1>4 DEF RowsFollow
    <2>4. rows[i].kind \in {"reset", "link"} /\ Pending(rows[i]) BY <2>1, <2>3 DEF Follows, Identity
    <2>5. PICK c \in codes : Backs(c, rows[i]) BY <1>0, <2>2, <2>4 DEF RowsBacked
    <2>6. rows[i].kind \notin kinds BY <1>1, <1>3, <2>1, <2>2
    <2>7. c \in codes' BY <1>2, <2>5, <2>6 DEF Backs
    <2>8. Backs(c, rows'[i]) BY <2>3, <2>5 DEF Follows, Identity, Backs
    <2>. QED BY <2>7, <2>8
  <1>6. codes' \in SUBSET codes BY <1>2
  <1>7. cooldowns' \in SUBSET cooldowns /\ \A c \in cooldowns : c.what = "ip" => c \in cooldowns' BY <1>1
  <1>. QED BY <1>2, <1>3, <1>5, <1>6, <1>7, WithdrawKept

LEMMA PruneKept ==
    ASSUME PanelInv, NEW kinds, PruneExpired(kinds), UNCHANGED Hold
    PROVE  Kept
  <1> DEFINE dead == {c \in codes : c.kind \in kinds /\ c.life = 0}
             gone == {i \in DOMAIN rows : \E c \in dead :
                        /\ c.kind = rows[i].kind
                        /\ IF c.kind = "link" THEN c.code = rows[i].code ELSE c.key = rows[i].key}
  <1>0. rows \in Seq(OutRow) /\ Sound /\ RowsBacked /\ CodesNumbered BY SoundInv DEF PanelInv, OpensInv, PanelTypes
  <1>1. /\ codes' = codes \ dead /\ rows' = Cancel(rows, gone)
        /\ UNCHANGED <<users, jobs, updates, hooks, accScope>> /\ UNCHANGED cooldowns
    BY DEF PruneExpired
  <1>2. Touched(rows, rows') /\ \A i \in 1..Len(rows) : i \in gone => ~Pending(rows'[i])
    <2>. HIDE DEF gone
    <2>. QED BY <1>0, <1>1, CancelTouches
  <1>3. RowsFollow /\ Len(rows') = Len(rows) BY <1>0, <1>2, TouchFollows
  <1>4. RowsBacked'
    <2>1. SUFFICES ASSUME NEW i \in DOMAIN rows', rows'[i].kind \in {"reset", "link"}, Pending(rows'[i])
                   PROVE  \E c \in codes' : Backs(c, rows'[i])
      BY DEF RowsBacked
    <2>2. i \in 1..Len(rows) /\ i \in DOMAIN rows BY <1>0, <1>3 DEF RowsFollow
    <2>3. Follows(rows[i], rows'[i]) BY <2>2, <1>3 DEF RowsFollow
    <2>4. rows[i].kind \in {"reset", "link"} /\ Pending(rows[i]) BY <2>1, <2>3 DEF Follows, Identity
    <2>5. PICK c \in codes : Backs(c, rows[i]) BY <1>0, <2>2, <2>4 DEF RowsBacked
    <2>6. i \notin gone BY <1>2, <2>1, <2>2
    <2>7. c \notin dead BY <2>2, <2>5, <2>6 DEF Backs
    <2>8. Backs(c, rows'[i]) BY <2>3, <2>5 DEF Follows, Identity, Backs
    <2>. QED BY <1>1, <2>5, <2>7, <2>8
  <1>5. codes' \in SUBSET codes /\ cooldowns' \in SUBSET cooldowns BY <1>1
  <1>. HIDE DEF dead, gone
  <1>. QED BY <1>1, <1>2, <1>4, <1>5, WithdrawKept

LEMMA WebhookKept ==
    ASSUME PanelInv, users' \in [Users -> Account], UsersQuiet, \A v \in Users : users'[v].fresh = users[v].fresh,
           updates' \in [Updates -> Update], \A x \in Updates : updates[x].done => updates'[x].done,
           hooks' \in [Hooks -> Hook], HooksGood', UNCHANGED <<jobs, codes, cooldowns, accScope>>,
           Sound', Promised, RowsFollow, UNCHANGED Hold,
           \A j \in (Len(rows) + 1)..Len(rows') :
                rows'[j].kind = "command" /\ rows'[j].key \in Updates /\ updates'[rows'[j].key].done
    PROVE  Kept
  <1>0. PanelTypes /\ RowsBacked BY DEF PanelInv, OpensInv
  <1>1. rows' \in Seq(OutRow) BY DEF Sound
  <1>2. PanelTypes' BY <1>0, <1>1 DEF PanelTypes, Hold
  <1>3. RowsBacked' BY <1>0, StillBacked
  <1>4. PanelInv' BY <1>2, <1>3, QuietKeeps
  <1>. QED BY <1>4 DEF Kept

LEMMA OneUpdate ==
    ASSUME updates \in [Updates -> Update], NEW x \in Updates, NEW r \in Update, ~updates[x].done,
           updates' = [updates EXCEPT ![x] = r]
    PROVE  /\ updates' \in [Updates -> Update] /\ updates'[x] = r
           /\ \A y \in Updates : updates[y].done => updates'[y].done
  OBVIOUS

LEMMA OneHook ==
    ASSUME hooks \in [Hooks -> Hook], HooksGood, NEW h \in Hooks, NEW r \in Hook,
           r.stage = "claimed" => r.update \in Updates, hooks' = [hooks EXCEPT ![h] = r]
    PROVE  hooks' \in [Hooks -> Hook] /\ HooksGood'
  BY DEF HooksGood

LEMMA TelegramKept ==
    ASSUME PanelInv, NEW h \in Hooks, telegramWebhook(h), UNCHANGED Hold
    PROVE  Kept
  <1>0. PanelTypes /\ Sound /\ HooksGood /\ Answered /\ CodesNumbered BY SoundInv DEF PanelInv, OutboxInv
  <1>1. users \in [Users -> Account] /\ updates \in [Updates -> Update] /\ hooks \in [Hooks -> Hook] /\ rows \in Seq(OutRow)
    BY <1>0 DEF PanelTypes
  <1>2. Unheard \in Hook /\ Unheard.stage # "claimed" BY DEF Unheard, Hook
  <1>3. Unseen \in Update BY DEF Unseen, Update
  <1>4. ASSUME NEW r, r = [by |-> Nobody, done |-> TRUE, lease |-> 0] PROVE r \in Update /\ r.done BY <1>4 DEF Update
  <1>5. ASSUME UNCHANGED rows, UNCHANGED jobs PROVE Sound' /\ Promised /\ RowsFollow /\ (Len(rows) + 1)..Len(rows') = {}
    <2>1. Touched(rows, rows') BY <1>1, <1>5, TouchedSelf
    <2>2. Sound' /\ Promised BY <1>0, <1>5, <2>1, TouchKeeps
    <2>3. RowsFollow /\ (Len(rows) + 1)..Len(rows') = {} BY <1>0, <2>1, TouchFollows
    <2>. QED BY <2>2, <2>3
  <1>6. ASSUME UNCHANGED users
        PROVE  users' \in [Users -> Account] /\ UsersQuiet /\ \A v \in Users : users'[v].fresh = users[v].fresh
    BY <1>1, <1>6 DEF UsersQuiet, SameAccount
  <1>7. ASSUME NEW x \in Updates, ClaimTelegramWebhookUpdate(h, x) PROVE Kept
    <2>1. UNCHANGED <<rows, users, jobs, codes, cooldowns, accScope>> /\ ~updates[x].done
      BY <1>7 DEF ClaimTelegramWebhookUpdate
    <2>2. PICK r, k : /\ r = [by |-> h, done |-> FALSE, lease |-> ClaimLease] /\ k = [stage |-> "claimed", update |-> x]
                      /\ updates' = [updates EXCEPT ![x] = r] /\ hooks' = [hooks EXCEPT ![h] = k]
      BY <1>7 DEF ClaimTelegramWebhookUpdate
    <2>3. r \in Update /\ k \in Hook /\ k.update \in Updates BY <2>2, Constants DEF Update, Hook
    <2>4. updates' \in [Updates -> Update] /\ \A y \in Updates : updates[y].done => updates'[y].done
      BY <1>1, <2>1, <2>2, <2>3, OneUpdate
    <2>5. hooks' \in [Hooks -> Hook] /\ HooksGood' BY <1>0, <1>1, <2>2, <2>3, OneHook
    <2>. QED BY <1>5, <1>6, <2>1, <2>4, <2>5, WebhookKept
  <1>8. CASE CompleteTelegramWebhookUpdate(h) \/ ReleaseTelegramWebhookUpdate(h)
    <2>1. /\ UNCHANGED <<rows, users, jobs, codes, cooldowns, accScope>> /\ hooks[h].stage = "claimed"
          /\ hooks' = [hooks EXCEPT ![h] = Unheard]
      BY <1>8 DEF CompleteTelegramWebhookUpdate, ReleaseTelegramWebhookUpdate
    <2>2. hooks' \in [Hooks -> Hook] /\ HooksGood' BY <1>0, <1>1, <1>2, <2>1, OneHook
    <2>3. PICK x \in Updates : x = hooks[h].update BY <1>0, <2>1 DEF HooksGood
    <2>4. updates' \in [Updates -> Update] /\ \A y \in Updates : updates[y].done => updates'[y].done
      <3>1. CASE UNCHANGED updates BY <1>1, <3>1
      <3>2. CASE ~UNCHANGED updates
        <4>1. PICK r : /\ r = [by |-> Nobody, done |-> TRUE, lease |-> 0] \/ r = Unseen
                       /\ Holds(h) /\ updates' = [updates EXCEPT ![x] = r]
          BY <1>8, <2>3, <3>2 DEF CompleteTelegramWebhookUpdate, ReleaseTelegramWebhookUpdate
        <4>2. r \in Update /\ ~updates[x].done BY <1>3, <1>4, <2>3, <4>1 DEF Holds
        <4>. QED BY <1>1, <4>1, <4>2, OneUpdate
      <3>. QED BY <3>1, <3>2
    <2>. QED BY <1>5, <1>6, <2>1, <2>2, <2>4, WebhookKept
  <1>9. CASE ProcessTelegramMessageUpdate(h)
    <2>1. /\ UNCHANGED <<jobs, codes, cooldowns, accScope>> /\ hooks[h].stage = "claimed"
          /\ hooks' = [hooks EXCEPT ![h] = Unheard]
      BY <1>9 DEF ProcessTelegramMessageUpdate
    <2>2. hooks' \in [Hooks -> Hook] /\ HooksGood' BY <1>0, <1>1, <1>2, <2>1, OneHook
    <2>3. PICK x \in Updates : x = hooks[h].update BY <1>0, <2>1 DEF HooksGood
    <2>4. CASE ~Holds(h)
      <3>1. UNCHANGED <<users, rows, updates>> BY <1>9, <2>4 DEF ProcessTelegramMessageUpdate
      <3>2. updates' \in [Updates -> Update] /\ \A y \in Updates : updates[y].done => updates'[y].done BY <1>1, <3>1
      <3>. QED BY <1>5, <1>6, <2>1, <2>2, <3>1, <3>2, WebhookKept
    <2>5. CASE Holds(h)
      <3>1. PICK r : r = [by |-> Nobody, done |-> TRUE, lease |-> 0] OBVIOUS
      <3>2. updates' = [updates EXCEPT ![x] = r] /\ processTelegramCommandTx
        BY <1>9, <2>3, <2>5, <3>1 DEF ProcessTelegramMessageUpdate
      <3>3. r \in Update /\ r.done /\ ~updates[x].done BY <1>4, <2>3, <2>5, <3>1 DEF Holds
      <3>4. /\ updates' \in [Updates -> Update] /\ updates'[x] = r
            /\ \A y \in Updates : updates[y].done => updates'[y].done
        BY <1>1, <3>2, <3>3, OneUpdate
      <3>5. users' \in [Users -> Account] /\ UsersQuiet /\ \A v \in Users : users'[v].fresh = users[v].fresh
        <4>1. CASE UNCHANGED users BY <1>6, <4>1
        <4>2. CASE \E u \in Users : bindTelegramUserTx(u) \/ unbindTelegramUserTx(u)
          <5>1. PICK u \in Users, b \in BOOLEAN : users' = [users EXCEPT ![u].chat = b]
            BY <4>2 DEF bindTelegramUserTx, unbindTelegramUserTx
          <5>. QED BY <1>1, <5>1, ChatOnly
        <4>. QED BY <3>2, <4>1, <4>2 DEF processTelegramCommandTx
      <3>6. CASE UNCHANGED rows BY <1>5, <2>1, <2>2, <3>4, <3>5, <3>6, WebhookKept
      <3>7. CASE Len(rows) < MaxRows /\ rows' = Append(rows, Row("command", Nobody, x, Len(rows) + 1))
        <4>1. PICK m : m = Row("command", Nobody, x, Len(rows) + 1) OBVIOUS
        <4>2. x \in Names /\ Len(rows) + 1 \in Nat BY <1>1 DEF Names
        <4>3. m \in OutRow /\ Given(m) /\ m.kind = "command" /\ m.key = x BY <4>1, <4>2, RowMade DEF Kinds
        <4>4. \A i \in 1..Len(rows) : rows[i].kind = "command" => rows[i].key # x
          <5>1. DOMAIN rows = 1..Len(rows) BY <1>1
          <5>. QED BY <1>0, <3>3, <5>1 DEF Answered
        <4>5. /\ Sound' /\ Promised /\ RowsFollow /\ rows'[Len(rows) + 1] = m
              /\ (Len(rows) + 1)..Len(rows') = {Len(rows) + 1}
          BY <1>0, <2>1, <3>7, <4>1, <4>3, <4>4, AppendOne
        <4>. QED BY <2>1, <2>2, <3>3, <3>4, <3>5, <4>3, <4>5, WebhookKept
      <3>. QED BY <1>9, <2>3, <2>5, <3>6, <3>7 DEF ProcessTelegramMessageUpdate
    <2>. QED BY <2>4, <2>5
  <1>. QED BY <1>7, <1>8, <1>9 DEF telegramWebhook
-----------------------------------------------------------------------------
(* Time passes. *)
Older(c) == [c EXCEPT !.life = Less(@), !.resend = Less(@), !.lock = Less(@), !.fails = IF c.lock = 1 THEN 0 ELSE @]
Cooler(c) == [c EXCEPT !.left = @ - 1]
TickedOn(a) == [a EXCEPT !.fresh = Less(@)]
Lapsed(x) == [x EXCEPT !.lease = Less(@)]

LEMMA OlderCode ==
    ASSUME NEW c \in Code
    PROVE  /\ Older(c) \in Code /\ SameCode(c, Older(c)) /\ Older(c).life = Less(c.life)
           /\ Older(c).lock = Less(c.lock) /\ Older(c).fails = IF c.lock = 1 THEN 0 ELSE c.fails
  <1>1. /\ c.life \in Nat /\ c.resend \in Nat /\ c.lock \in Nat /\ c.fails \in Nat
        /\ Less(c.life) \in Nat /\ Less(c.resend) \in Nat /\ Less(c.lock) \in Nat
    BY LessNat DEF Code
  <1>2. PICK f \in Nat : f = IF c.lock = 1 THEN 0 ELSE c.fails BY <1>1
  <1>3. Older(c) = [kind |-> c.kind, key |-> c.key, user |-> c.user, code |-> c.code, life |-> Less(c.life),
                    resend |-> Less(c.resend), pw |-> c.pw, fails |-> f, lock |-> Less(c.lock)]
    <2>1. Older(c) = [c EXCEPT !.life = Less(c.life), !.resend = Less(c.resend), !.lock = Less(c.lock), !.fails = f]
      BY <1>2 DEF Older, Code
    <2>. QED BY <2>1 DEF Code
  <1>. QED BY <1>1, <1>2, <1>3 DEF Code, SameCode

LEMMA OlderGuess ==
    ASSUME NEW c \in Code, GuessGood(c), UNCHANGED wrong, c.code # 0 => wrong[c.code] \in Nat
    PROVE  GuessGood(Older(c))'
  <1>1. /\ c.life \in Nat /\ c.lock \in Nat /\ c.fails \in Nat /\ c.code \in Nat /\ MaxGuesses \in Nat /\ MaxGuesses > 0
        /\ CodeLife \in Nat
    BY Constants DEF Code
  <1>2. PICK d : d = Older(c) OBVIOUS
  <1>3. /\ d.kind = c.kind /\ d.code = c.code /\ d.life = Less(c.life)
        /\ d.lock = Less(c.lock) /\ d.fails = IF c.lock = 1 THEN 0 ELSE c.fails
    BY <1>2, OlderCode DEF SameCode
  <1>4. d.fails <= MaxGuesses /\ d.life <= CodeLife /\ (d.fails = 0 <=> d.lock = 0)
    BY <1>1, <1>3 DEF GuessGood, Less
  <1>5. ASSUME d.kind \in Guessed, d.code # 0, d.life > 0 PROVE wrong'[d.code] <= Bound(d)
    <2>1. c.life > 1 /\ d.life = c.life - 1 BY <1>1, <1>3, <1>5 DEF Less
    <2>2. wrong[c.code] <= Bound(c) /\ wrong'[d.code] = wrong[c.code] /\ wrong[c.code] \in Nat
      BY <1>3, <1>5, <2>1, <1>1 DEF GuessGood
    <2>3. CASE c.fails = 0
      <3>1. c.lock = 0 /\ d.fails = 0 BY <1>1, <1>3, <2>3 DEF GuessGood
      <3>. QED BY <3>1, <2>2, <2>3 DEF Bound
    <2>4. CASE c.fails > 0 /\ c.lock = 1
      <3>1. Bound(c) = c.fails - 1 BY <2>1, <2>4, <1>1 DEF Bound
      <3>2. Bound(d) = MaxGuesses - 1 BY <1>3, <2>4 DEF Bound
      <3>. QED BY <3>1, <3>2, <2>2, <1>1 DEF GuessGood
    <2>5. CASE c.fails > 0 /\ c.lock > 1
      <3>1. d.fails = c.fails /\ d.lock = c.lock - 1 BY <1>1, <1>3, <2>5 DEF Less
      <3>2. d.lock < d.life <=> c.lock < c.life BY <3>1, <2>1, <1>1
      <3>3. Bound(d) = Bound(c) BY <3>1, <3>2 DEF Bound
      <3>. QED BY <3>3, <2>2
    <2>. QED BY <2>3, <2>4, <2>5, <1>1 DEF GuessGood
  <1>. QED BY <1>2, <1>4, <1>5 DEF GuessGood, Bound

LEMMA CoolerGood ==
    ASSUME NEW c \in Cooling, c.left > 1
    PROVE  Cooler(c) \in Cooling /\ Cooler(c).what = c.what /\ Cooler(c).key = c.key /\ Cooler(c).left = c.left - 1
  <1>1. c.left - 1 \in Nat BY DEF Cooling
  <1>2. Cooler(c) = [what |-> c.what, key |-> c.key, left |-> c.left - 1] BY DEF Cooler, Cooling
  <1>. QED BY <1>1, <1>2 DEF Cooling

LEMMA TickedOnGood ==
    ASSUME NEW a \in Account
    PROVE  TickedOn(a) \in Account /\ SameAccount(a, TickedOn(a)) /\ TickedOn(a).fresh = Less(a.fresh)
  <1>1. Less(a.fresh) \in Nat BY LessNat DEF Account
  <1>2. TickedOn(a) = [email |-> a.email, pw |-> a.pw, old |-> a.old, banned |-> a.banned, before |-> a.before,
                      life |-> a.life, chat |-> a.chat, fresh |-> Less(a.fresh), invite |-> a.invite, proof |-> a.proof]
    BY DEF TickedOn, Account
  <1>. QED BY <1>1, <1>2 DEF Account, SameAccount

LEMMA LapsedGood == ASSUME NEW x \in Update PROVE Lapsed(x) \in Update /\ Lapsed(x).done = x.done
  <1>1. Less(x.lease) \in Nat BY LessNat DEF Update
  <1>2. Lapsed(x) = [by |-> x.by, done |-> x.done, lease |-> Less(x.lease)] BY DEF Lapsed, Update
  <1>. QED BY <1>1, <1>2 DEF Update

LEMMA TickKept ==
    ASSUME PanelInv, Tick, UNCHANGED Hold
    PROVE  Kept
  <1>0. /\ AbsentBlank /\ CredsGood /\ CodesGood /\ RowsBacked /\ RequestsGood
        /\ InvitesSpent /\ ProofsSpent /\ SourceCounted /\ CodesNumbered /\ CodesApart /\ GuessesCounted
        /\ Answered /\ HooksGood /\ PanelTypes /\ Sound
    BY SoundInv DEF PanelInv, OpensInv, AdmitsInv, OutboxInv
  <1>t. /\ users \in [Users -> Account] /\ codes \in SUBSET Code /\ cooldowns \in SUBSET Cooling
        /\ updates \in [Updates -> Update] /\ rows \in Seq(OutRow) /\ wrong \in [1..MaxRows -> Nat]
    BY <1>0 DEF PanelTypes
  <1>1. /\ rows' = [i \in DOMAIN rows |-> Later(rows[i])]
        /\ codes' = {Older(c) : c \in codes}
        /\ cooldowns' = {Cooler(c) : c \in {d \in cooldowns : d.left > 1}}
        /\ updates' = [x \in Updates |-> Lapsed(updates[x])]
        /\ users' = [u \in Users |-> TickedOn(users[u])]
        /\ UNCHANGED <<jobs, hooks, accScope>>
    BY DEF Tick, Later, Older, Cooler, Lapsed, TickedOn
  <1>2. Touched(rows, rows') BY <1>1, <1>t, LaterTouches
  <1>3. RowsFollow /\ Len(rows') = Len(rows) /\ (Len(rows) + 1)..Len(rows') = {} BY <1>0, <1>2, TouchFollows
  <1>4. Sound' /\ Promised BY <1>0, <1>1, <1>2, TouchKeeps
  <1>5. ASSUME NEW u \in Users
        PROVE  users'[u] \in Account /\ SameAccount(users[u], users'[u]) /\ users'[u].fresh = Less(users[u].fresh)
    <2>1. users[u] \in Account /\ users'[u] = TickedOn(users[u]) BY <1>1, <1>t
    <2>. QED BY <2>1, TickedOnGood
  <1>6. users' \in [Users -> Account] /\ UsersQuiet BY <1>1, <1>5 DEF UsersQuiet
  <1>7. ASSUME NEW d \in codes'
        PROVE  \E c \in codes : d = Older(c) /\ d \in Code /\ SameCode(c, d) /\ GuessGood(d)'
    <2>1. PICK c \in codes : d = Older(c) BY <1>1
    <2>2. c \in Code /\ GuessGood(c) BY <1>0, <1>t DEF GuessesCounted
    <2>3. c.code # 0 => wrong[c.code] \in Nat
      <3>1. c.code \in Nat /\ c.code <= Len(rows) /\ Len(rows) <= MaxRows /\ Len(rows) \in Nat /\ MaxRows \in Nat
        BY <1>0, <1>t, <2>2, Constants DEF CodesNumbered, Code
      <3>2. c.code # 0 => c.code \in 1..MaxRows BY <3>1
      <3>. QED BY <3>2, <1>t
    <2>4. UNCHANGED wrong BY DEF Hold
    <2>5. GuessGood(Older(c))' BY <2>2, <2>3, <2>4, OlderGuess
    <2>6. GuessGood(d)' BY <2>1, <2>5
    <2>. QED BY <2>1, <2>2, <2>6, OlderCode
  <1>8. CodesFollow /\ codes' \in SUBSET Code BY <1>7, <1>t DEF CodesFollow
  <1>9. CodesApart'
    <2>1. SUFFICES ASSUME NEW x \in codes', NEW y \in codes', x.kind \in Guessed, x.kind = y.kind, x.key = y.key
                   PROVE  x = y
      BY DEF CodesApart
    <2>2. PICK c \in codes : x = Older(c) /\ SameCode(c, x) BY <1>7
    <2>3. PICK d \in codes : y = Older(d) /\ SameCode(d, y) BY <1>7
    <2>4. c = d BY <1>0, <2>1, <2>2, <2>3 DEF CodesApart, SameCode
    <2>. QED BY <2>2, <2>3, <2>4
  <1>10. RowsBacked'
    <2>1. SUFFICES ASSUME NEW i \in DOMAIN rows', rows'[i].kind \in {"reset", "link"}, Pending(rows'[i])
                   PROVE  \E c \in codes' : Backs(c, rows'[i])
      BY DEF RowsBacked
    <2>2. i \in 1..Len(rows) /\ i \in DOMAIN rows BY <1>t, <1>3 DEF RowsFollow
    <2>3. Follows(rows[i], rows'[i]) BY <2>2, <1>3 DEF RowsFollow
    <2>4. rows[i].kind \in {"reset", "link"} /\ Pending(rows[i]) BY <2>1, <2>3 DEF Follows, Identity
    <2>5. PICK c \in codes : Backs(c, rows[i]) BY <1>0, <2>2, <2>4 DEF RowsBacked
    <2>6. Older(c) \in codes' /\ SameCode(c, Older(c)) BY <1>1, <1>t, OlderCode
    <2>7. Backs(Older(c), rows'[i]) BY <2>3, <2>5, <2>6 DEF Follows, Identity, Backs, SameCode
    <2>. QED BY <2>6, <2>7
  <1>11. updates' \in [Updates -> Update] /\ \A x \in Updates : updates'[x].done = updates[x].done
    <2>1. ASSUME NEW x \in Updates PROVE updates'[x] \in Update /\ updates'[x].done = updates[x].done
      <3>1. updates[x] \in Update /\ updates'[x] = Lapsed(updates[x]) BY <1>1, <1>t
      <3>. QED BY <3>1, LapsedGood
    <2>. QED BY <1>1, <2>1
  <1>12. ASSUME NEW d \in cooldowns'
         PROVE  \E c \in cooldowns : /\ d = Cooler(c) /\ c.left > 1 /\ d \in Cooling /\ d.what = c.what
                                     /\ d.key = c.key /\ d.left = c.left - 1
    <2>1. PICK c \in cooldowns : d = Cooler(c) /\ c.left > 1 BY <1>1
    <2>. QED BY <2>1, <1>t, CoolerGood
  <1>13. cooldowns' \in SUBSET Cooling BY <1>12
  <1>14. SourceCounted'
    <2>1. Newcomers' \in SUBSET Newcomers
      <3>1. ASSUME NEW u \in Users, users'[u].fresh > 0 PROVE users[u].fresh > 0
        <4>1. users[u].fresh \in Nat BY <1>t DEF Account
        <4>. QED BY <3>1, <4>1, <1>5 DEF Less
      <3>. QED BY <3>1 DEF Newcomers
    <2>2. /\ Cardinality(Newcomers') \in Nat /\ Cardinality(Newcomers) \in Nat
          /\ Cardinality(Newcomers') <= Cardinality(Newcomers)
      <3>1. Newcomers \in SUBSET Users /\ IsFiniteSet(Users) BY OutboxConstants DEF Newcomers
      <3>2. IsFiniteSet(Newcomers) BY <3>1, FS_Subset
      <3>. QED BY <2>1, <3>2, FS_Subset, FS_CardinalityType
    <2>3. \A x, y \in cooldowns' : x.what = "ip" /\ y.what = "ip" => x = y
      <3>1. SUFFICES ASSUME NEW x \in cooldowns', NEW y \in cooldowns', x.what = "ip", y.what = "ip" PROVE x = y
        OBVIOUS
      <3>2. PICK c \in cooldowns : x = Cooler(c) /\ x.what = c.what BY <1>12
      <3>3. PICK d \in cooldowns : y = Cooler(d) /\ y.what = d.what BY <1>12
      <3>4. c = d BY <1>0, <3>1, <3>2, <3>3 DEF SourceCounted
      <3>. QED BY <3>2, <3>3, <3>4
    <2>4. ASSUME NEW d \in cooldowns', d.what = "ip"
          PROVE  /\ d.key \in Nat /\ d.left \in 1..IPWindow /\ Cardinality(Newcomers') <= d.key
                 /\ \A u \in Newcomers' : users'[u].fresh <= d.left
      <3>1. PICK c \in cooldowns : c.left > 1 /\ d.what = c.what /\ d.key = c.key /\ d.left = c.left - 1 BY <1>12
      <3>2. /\ c.key \in Nat /\ c.left \in 1..IPWindow /\ Cardinality(Newcomers) <= c.key
            /\ \A u \in Newcomers : users[u].fresh <= c.left
        BY <1>0, <2>4, <3>1 DEF SourceCounted
      <3>3. d.key \in Nat /\ d.left \in 1..IPWindow /\ Cardinality(Newcomers') <= d.key
        BY <3>1, <3>2, <2>2, Constants
      <3>4. ASSUME NEW u \in Newcomers' PROVE users'[u].fresh <= d.left
        <4>1. u \in Users /\ u \in Newcomers BY <2>1 DEF Newcomers
        <4>2. users[u].fresh \in Nat /\ users[u].fresh > 0 BY <1>t, <4>1 DEF Account, Newcomers
        <4>. QED BY <3>1, <3>2, <4>1, <4>2, <1>5, Constants DEF Less
      <3>. QED BY <3>3, <3>4
    <2>5. ASSUME \A d \in cooldowns' : d.what # "ip" PROVE Newcomers' = {}
      <3>1. CASE \A c \in cooldowns : c.what # "ip"
        <4>1. Newcomers = {} BY <1>0, <3>1 DEF SourceCounted
        <4>. QED BY <4>1, <2>1
      <3>2. CASE \E c \in cooldowns : c.what = "ip"
        <4>1. PICK c \in cooldowns : c.what = "ip" BY <3>2
        <4>2. c.left \in 1..IPWindow /\ \A u \in Newcomers : users[u].fresh <= c.left BY <1>0, <4>1 DEF SourceCounted
        <4>3. ~(c.left > 1)
          <5>1. SUFFICES ASSUME c.left > 1 PROVE FALSE OBVIOUS
          <5>2. Cooler(c) \in cooldowns' BY <1>1, <4>1, <5>1
          <5>3. Cooler(c).what = "ip" BY <4>1, <5>1, <1>t, CoolerGood
          <5>. QED BY <5>2, <5>3, <2>5
        <4>4. ASSUME NEW u \in Newcomers' PROVE FALSE
          <5>1. u \in Users /\ u \in Newcomers /\ users'[u].fresh > 0 BY <2>1, <4>4 DEF Newcomers
          <5>2. users[u].fresh \in Nat /\ users[u].fresh <= 1 BY <1>t, <4>2, <4>3, <5>1, Constants DEF Account
          <5>. QED BY <5>1, <5>2, <1>5 DEF Less
        <4>. QED BY <4>4
      <3>. QED BY <3>1, <3>2
    <2>6. Cardinality(Newcomers') <= IPLimit BY <1>0, <2>2, Constants DEF SourceCounted
    <2>. QED BY <2>3, <2>4, <2>5, <2>6 DEF SourceCounted
  <1>15. UNCHANGED <<creds, requests>> /\ UNCHANGED <<invitations, wrong>> BY DEF Hold
  <1>16. AbsentBlank' /\ CredsGood' /\ CodesGood' /\ RequestsGood' BY <1>0, <1>6, <1>8, <1>15, QuietOpens
  <1>17. /\ InvitesSpent' /\ ProofsSpent' /\ CodesNumbered'
         /\ \A i \in 1..MaxRows : wrong'[i] < 2 * MaxGuesses /\ (i > Len(rows') => wrong'[i] = 0)
    BY <1>0, <1>t, <1>3, <1>6, <1>8, <1>15, QuietAdmits
  <1>18. GuessesCounted' BY <1>7, <1>17 DEF GuessesCounted
  <1>19. Answered' BY <1>0, <1>3, <1>11, StillAnswered
  <1>20. HooksGood' BY <1>0, <1>1 DEF HooksGood
  <1>21. PanelTypes' BY <1>0, <1>1, <1>4, <1>6, <1>8, <1>11, <1>13, <1>15 DEF PanelTypes, Sound
  <1>22. PanelInv' BY <1>4, <1>9, <1>10, <1>14, <1>16, <1>17, <1>18, <1>19, <1>20, <1>21
                   DEF PanelInv, OpensInv, AdmitsInv, OutboxInv, Sound
  <1>. QED BY <1>4, <1>22 DEF Kept

LEMMA OutboxKept ==
    ASSUME PanelInv, OutboxNext, UNCHANGED Hold
    PROVE  Kept
  <1>0. Sound BY SoundInv
  <1>1. ASSUME NEW w \in Mailers, Mailer(w) PROVE Kept BY <1>0, <1>1, MailerStep, WorkerKept
  <1>2. ASSUME NEW w \in Bots, Bot(w) PROVE Kept BY <1>0, <1>2, BotStep, WorkerKept
  <1>3. ASSUME NEW w \in Workers, WorkerDies(w) PROVE Kept BY <1>0, <1>3, DeathStep, WorkerKept
  <1>4. ASSUME NEW u \in Users, enqueueTicketMailTx(u) PROVE Kept BY <1>4, TicketKept
  <1>5. ASSUME NEW u \in Users, ChangeRecipient(u) PROVE Kept BY <1>5, RecipientKept
  <1>6. CASE ScheduleSubscriptionReminders BY <1>6, ReminderKept
  <1>7. CASE enqueueTelegramTicketNotificationTx \/ enqueueTelegramPaymentNotificationTx
    BY <1>7, NoticeKept DEF enqueueTelegramTicketNotificationTx, enqueueTelegramPaymentNotificationTx
  <1>8. CASE UpdateMailSettings \/ UpdateTicketSettings \/ UpdateTelegramSettings BY <1>8, SettingsKept
  <1>9. CASE UpdateSiteSettings BY <1>9, SiteKept
  <1>10. ASSUME NEW h \in Hooks, telegramWebhook(h) PROVE Kept BY <1>10, TelegramKept
  <1>11. CASE Prune
    BY <1>11, PruneKept DEF Prune, PruneExpiredPasswordResets, PruneExpiredRegistrationEmailVerifications,
                            PruneExpiredLoginLinks
  <1>12. CASE Tick BY <1>12, TickKept
  <1>. QED BY <1>1, <1>2, <1>3, <1>4, <1>5, <1>6, <1>7, <1>8, <1>9, <1>10, <1>11, <1>12 DEF OutboxNext

-----------------------------------------------------------------------------
(* Steps of the accounts: what each adds is good, what it leaves stays good. *)
Issued(d) ==
    /\ d \in Code /\ d.code <= Len(rows')
    /\ d.kind \in Guessed =>
        /\ d.code # 0 => d.code > Len(rows) /\ rows'[d.code].kind = d.kind /\ rows'[d.code].key = d.key
        /\ \A c \in codes' : c.kind = d.kind /\ c.key = d.key => c = d
    /\ GuessGood(d)'
Handled == \/ UNCHANGED requests
           \/ \E h \in Handlers, r \in Asked : RequestGood(r) /\ requests' = [requests EXCEPT ![h] = r]

LEMMA HandledGood ==
    ASSUME requests \in [Handlers -> Asked], RequestsGood, Handled, \A u : Exists(u) => Exists(u)'
    PROVE  requests' \in [Handlers -> Asked] /\ RequestsGood'
  <1>1. ASSUME NEW r, RequestGood(r) PROVE RequestGood(r)'
    <2>1. Exists(r.user) => Exists(r.user)' OBVIOUS
    <2>. QED BY <1>1, <2>1 DEF RequestGood
  <1>2. ASSUME NEW h \in Handlers PROVE requests'[h] \in Asked /\ RequestGood(requests'[h])
    BY DEF Handled, RequestsGood
  <1>3. requests' \in [Handlers -> Asked] BY DEF Handled
  <1>4. ASSUME NEW h \in Handlers PROVE RequestGood(requests[h])'
    <2>1. PICK r : r = requests'[h] OBVIOUS
    <2>2. RequestGood(r)' BY <1>1, <1>2, <2>1
    <2>. QED BY <2>1, <2>2 DEF RequestGood, Exists
  <1>. QED BY <1>3, <1>4 DEF RequestsGood

LEMMA FinishHandled == ASSUME NEW h \in Handlers, Finish(h) PROVE Handled
  <1>1. NoRequest \in Asked /\ RequestGood(NoRequest) BY DEF NoRequest, Asked, RequestGood
  <1>. QED BY <1>1 DEF Finish, Handled

LEMMA AccountKept ==
    ASSUME PanelInv, UNCHANGED <<jobs, updates, hooks, accScope>>, Sound', Promised, RowsFollow,
           \A j \in (Len(rows) + 1)..Len(rows') : rows'[j].kind # "command",
           users' \in [Users -> Account], AdmissionsQuiet, \A u \in Users : users'[u].fresh = users[u].fresh,
           \A d \in codes' : d \in codes \/ Issued(d),
           cooldowns' \in SUBSET Cooling, \A c : c.what = "ip" => (c \in cooldowns' <=> c \in cooldowns),
           creds' \in SUBSET Cred, requests' \in [Handlers -> Asked], UNCHANGED <<invitations, wrong>>,
           AbsentBlank', CredsGood', CodesGood', RowsBacked', RequestsGood'
    PROVE  Kept
  <1>0. /\ InvitesSpent /\ ProofsSpent /\ SourceCounted /\ CodesNumbered /\ CodesApart /\ GuessesCounted
        /\ Answered /\ HooksGood /\ PanelTypes
    BY DEF PanelInv, AdmitsInv, OutboxInv
  <1>t. /\ users \in [Users -> Account] /\ codes \in SUBSET Code /\ rows \in Seq(OutRow) /\ rows' \in Seq(OutRow)
        /\ wrong \in [1..MaxRows -> Nat]
    BY <1>0 DEF PanelTypes, Sound
  <1>n. Len(rows) \in Nat /\ Len(rows') \in Nat /\ Len(rows) <= Len(rows') /\ Len(rows') <= MaxRows /\ MaxRows \in Nat
    BY <1>t, Constants DEF RowsFollow
  <1>1. codes' \in SUBSET Code BY <1>t DEF Issued
  <1>2. ASSUME NEW d \in codes' PROVE GuessGood(d)'
    <2>1. CASE d \in codes
      <3>1. GuessGood(d) BY <1>0, <2>1 DEF GuessesCounted
      <3>. QED BY <3>1 DEF GuessGood
    <2>. QED BY <2>1 DEF Issued
  <1>3. GuessesCounted'
    <2>1. \A i \in 1..MaxRows : wrong'[i] < 2 * MaxGuesses /\ (i > Len(rows') => wrong'[i] = 0)
      BY <1>0, <1>n DEF GuessesCounted
    <2>. QED BY <1>2, <2>1 DEF GuessesCounted
  <1>4. CodesApart' BY <1>0 DEF CodesApart, Issued
  <1>5. CodesNumbered'
    <2>1. ASSUME NEW d \in codes'
          PROVE  /\ d.code <= Len(rows')
                 /\ d.kind \in Guessed /\ d.code # 0 => rows'[d.code].kind = d.kind /\ rows'[d.code].key = d.key
      <3>1. CASE d \in codes
        <4>1. d.code \in Nat /\ d.code <= Len(rows) BY <1>0, <1>1, <3>1 DEF CodesNumbered, Code
        <4>2. d.code # 0 => d.code \in 1..Len(rows) BY <4>1, <1>n
        <4>3. d.code # 0 => Identity(rows[d.code], rows'[d.code]) BY <4>2 DEF RowsFollow, Follows
        <4>. QED BY <1>0, <1>n, <3>1, <4>1, <4>3 DEF CodesNumbered, Identity
      <3>. QED BY <3>1 DEF Issued
    <2>. QED BY <1>n, <2>1 DEF CodesNumbered
  <1>6. InvitesSpent' BY <1>0 DEF InvitesSpent, AdmissionsQuiet
  <1>7. ProofsSpent'
    <2>0. ASSUME NEW u \in Users PROVE users'[u].proof = users[u].proof /\ users[u].proof \in Nat
      BY <1>t DEF AdmissionsQuiet, Account
    <2>1. \A u \in Users : users'[u].proof <= Len(rows') BY <1>0, <1>n, <2>0 DEF ProofsSpent
    <2>2. ASSUME NEW u \in Users, NEW d \in codes', d.kind = "registration", users'[u].proof = d.code PROVE d.code = 0
      <3>1. CASE d \in codes BY <1>0, <2>0, <2>2, <3>1 DEF ProofsSpent
      <3>2. CASE Issued(d)
        <4>1. d.code # 0 => d.code > Len(rows) BY <2>2, <3>2 DEF Issued, Guessed
        <4>2. users[u].proof <= Len(rows) BY <1>0 DEF ProofsSpent
        <4>. QED BY <1>n, <2>0, <2>2, <4>1, <4>2
      <3>. QED BY <3>1, <3>2
    <2>3. \A u, v \in Users : u # v /\ users'[u].proof = users'[v].proof => users'[u].proof = 0
      BY <1>0, <2>0 DEF ProofsSpent
    <2>. QED BY <2>1, <2>2, <2>3 DEF ProofsSpent
  <1>8. SourceCounted' BY <1>0, StillSource
  <1>9. Answered' BY <1>0, StillAnswered
  <1>10. HooksGood' BY <1>0 DEF HooksGood
  <1>11. PanelTypes' BY <1>0, <1>1, <1>t DEF PanelTypes, Sound
  <1>12. PanelInv' BY <1>3, <1>4, <1>5, <1>6, <1>7, <1>8, <1>9, <1>10, <1>11
                   DEF PanelInv, OpensInv, AdmitsInv, OutboxInv, Sound
  <1>. QED BY <1>12 DEF Kept

LEMMA QuietGood ==
    ASSUME UsersQuiet
    PROVE  /\ \A u : Exists(u)' <=> Exists(u)
           /\ AbsentBlank => AbsentBlank'
           /\ \A c : CredGood(c) => CredGood(c)'
           /\ \A c \in Code : CodeGood(c) => CodeGood(c)'
  <1>1. ASSUME NEW u PROVE Exists(u)' <=> Exists(u) BY DEF Exists, UsersQuiet, SameAccount
  <1>2. AbsentBlank => AbsentBlank' BY DEF AbsentBlank, UsersQuiet, SameAccount
  <1>3. ASSUME NEW c, CredGood(c) PROVE CredGood(c)'
    <2>1. c.user \in Users BY <1>3 DEF CredGood, Exists
    <2>2. SameAccount(users[c.user], users'[c.user]) BY <2>1 DEF UsersQuiet
    <2>. QED BY <1>1, <1>3, <2>1, <2>2 DEF CredGood, SameAccount
  <1>4. ASSUME NEW c \in Code, CodeGood(c) PROVE CodeGood(c)'
    <2>1. Exists(c.user)' <=> Exists(c.user) BY <1>1
    <2>2. c.user \in Users \cup {Nobody} BY DEF Code
    <2>3. c.user # Nobody => users'[c.user].pw = users[c.user].pw BY <2>2 DEF UsersQuiet, SameAccount
    <2>. QED BY <1>4, <2>1, <2>3 DEF CodeGood
  <1>. QED BY <1>1, <1>2, <1>3, <1>4

(* Nothing about the accounts changes that anything rests on. *)
LEMMA QuietAccountKept ==
    ASSUME PanelInv, UNCHANGED <<jobs, updates, hooks, accScope>>, Sound', Promised, RowsFollow,
           \A j \in (Len(rows) + 1)..Len(rows') : rows'[j].kind # "command",
           users' \in [Users -> Account], UsersQuiet, \A u \in Users : users'[u].fresh = users[u].fresh,
           \A d \in codes' : d \in codes \/ (Issued(d) /\ CodeGood(d)),
           \A c \in creds' : c \in creds \/ (c \in Cred /\ CredGood(c)),
           cooldowns' \in SUBSET Cooling, \A c : c.what = "ip" => (c \in cooldowns' <=> c \in cooldowns),
           Handled, UNCHANGED <<invitations, wrong>>, RowsBacked'
    PROVE  Kept
  <1>0. /\ AbsentBlank /\ CredsGood /\ CodesGood /\ RequestsGood /\ codes \in SUBSET Code /\ creds \in SUBSET Cred
        /\ requests \in [Handlers -> Asked]
    BY DEF PanelInv, OpensInv, PanelTypes
  <1>1. requests' \in [Handlers -> Asked] /\ RequestsGood' BY <1>0, QuietGood, HandledGood
  <1>2. AbsentBlank' BY <1>0, QuietGood
  <1>3. creds' \in SUBSET Cred /\ CredsGood'
    <2>1. ASSUME NEW c \in creds' PROVE c \in Cred /\ CredGood(c)'
      <3>1. c \in Cred /\ CredGood(c) BY <1>0 DEF CredsGood
      <3>. QED BY <3>1, QuietGood
    <2>. QED BY <2>1 DEF CredsGood
  <1>4. CodesGood'
    <2>1. ASSUME NEW c \in codes' PROVE CodeGood(c)'
      <3>1. c \in Code /\ CodeGood(c) BY <1>0 DEF CodesGood, Issued
      <3>. QED BY <3>1, QuietGood
    <2>. QED BY <2>1 DEF CodesGood
  <1>5. AdmissionsQuiet BY DEF UsersQuiet, SameAccount, AdmissionsQuiet
  <1>. QED BY <1>1, <1>2, <1>3, <1>4, <1>5, AccountKept

(* The tables stay as they are. *)
LEMMA StillKept ==
    ASSUME PanelInv, UNCHANGED <<rows, codes, cooldowns, invitations, wrong>>, UNCHANGED mailVars,
           users' \in [Users -> Account], UsersQuiet, \A u \in Users : users'[u].fresh = users[u].fresh,
           \A c \in creds' : c \in creds \/ (c \in Cred /\ CredGood(c)), Handled
    PROVE  Kept
  <1>0. Sound /\ CodesNumbered /\ rows \in Seq(OutRow) /\ cooldowns \in SUBSET Cooling /\ RowsBacked
    BY SoundInv DEF PanelInv, OpensInv, PanelTypes
  <1>1. Touched(rows, rows') BY <1>0, TouchedSelf
  <1>2. UNCHANGED <<jobs, updates, hooks, accScope>> /\ UNCHANGED <<invitations, wrong>> BY DEF mailVars
  <1>3. Sound' /\ Promised BY <1>0, <1>1, <1>2, TouchKeeps
  <1>4. RowsFollow /\ (Len(rows) + 1)..Len(rows') = {} BY <1>0, <1>1, TouchFollows
  <1>5. RowsBacked' BY <1>0, <1>4, StillBacked
  <1>6. cooldowns' \in SUBSET Cooling BY <1>0
  <1>. QED BY <1>2, <1>3, <1>4, <1>5, <1>6, QuietAccountKept

(* A handler begins: what it remembers is good. *)
LEMMA AskKept ==
    ASSUME PanelInv, NEW h \in Handlers, NEW r \in Asked, RequestGood(r), Begin(h, r),
           UNCHANGED <<users, rows, codes, cooldowns, creds, invitations, wrong>>, UNCHANGED mailVars
    PROVE  Kept
  <1>1. Handled BY DEF Begin, Handled
  <1>2. users' \in [Users -> Account] /\ UsersQuiet /\ \A u \in Users : users'[u].fresh = users[u].fresh
    BY DEF PanelInv, PanelTypes, UsersQuiet, SameAccount
  <1>3. UNCHANGED <<rows, codes, cooldowns, invitations, wrong>> OBVIOUS
  <1>. QED BY <1>1, <1>2, <1>3, StillKept

LEMMA NoRequestGood == /\ NoRequest \in Asked /\ NoRequest.user = Nobody /\ NoRequest.key = Nobody
                       /\ RequestGood(NoRequest)
  BY DEF NoRequest, Asked, RequestGood

LEMMA LoginKept ==
    ASSUME PanelInv, NEW h \in Handlers, NEW u \in Users, NEW op \in {"login", "legacyLogin"},
           authenticatePasswordLogin(h, u, op)
    PROVE  Kept
  <1> DEFINE a == users[u]
  <1>0. users[u] \in Account /\ AbsentBlank BY DEF PanelInv, PanelTypes, OpensInv
  <1>1. a.email \in Addresses \cup {Nobody} /\ a.pw \in Nat /\ a.old \in BOOLEAN /\ a.email # Nobody
    BY <1>0 DEF Account, authenticatePasswordLogin
  <1>2. PICK r : r = [NoRequest EXCEPT !.op = op, !.user = u, !.key = a.email, !.pw = a.pw, !.old = a.old] OBVIOUS
  <1>3. Begin(h, r) BY <1>2 DEF authenticatePasswordLogin
  <1>4. r \in Asked /\ r.op = op /\ r.user = u BY <1>1, <1>2, NoRequestGood DEF Asked
  <1>5. Exists(u) BY <1>0, <1>1 DEF AbsentBlank, Exists
  <1>6. RequestGood(r) BY <1>4, <1>5 DEF RequestGood
  <1>. QED BY <1>3, <1>4, <1>6, AskKept DEF authenticatePasswordLogin

LEMMA ChangeAsked ==
    ASSUME PanelInv, NEW h \in Handlers, NEW u \in Users, changePassword(h, u)
    PROVE  Kept
  <1> DEFINE a == users[u]
  <1>0. users[u] \in Account /\ CredsGood BY DEF PanelInv, PanelTypes, OpensInv
  <1>1. a.pw \in Nat /\ a.old \in BOOLEAN BY <1>0 DEF Account
  <1>2. PICK r : r = [NoRequest EXCEPT !.op = "change", !.user = u, !.pw = a.pw, !.old = a.old] OBVIOUS
  <1>3. Begin(h, r) BY <1>2 DEF changePassword
  <1>4. r \in Asked /\ r.op = "change" /\ r.user = u BY <1>1, <1>2, NoRequestGood DEF Asked
  <1>5. Exists(u) BY <1>0 DEF changePassword, CredsGood, CredGood
  <1>6. RequestGood(r) BY <1>4, <1>5 DEF RequestGood
  <1>. QED BY <1>3, <1>4, <1>6, AskKept DEF changePassword

LEMMA SignedInKept ==
    ASSUME PanelInv, NEW h \in Handlers, NEW op \in {"token", "quick"}, SignedIn(h, op)
    PROVE  Kept
  <1>0. creds \in SUBSET Cred /\ CredsGood BY DEF PanelInv, PanelTypes, OpensInv
  <1>1. PICK c \in creds : Begin(h, [NoRequest EXCEPT !.op = op, !.user = c.user, !.pw = c.pw]) BY DEF SignedIn
  <1>2. c.pw \in Nat /\ c.user \in Users /\ Exists(c.user) BY <1>0 DEF Cred, CredsGood, CredGood
  <1>3. PICK r : r = [NoRequest EXCEPT !.op = op, !.user = c.user, !.pw = c.pw] OBVIOUS
  <1>4. Begin(h, r) BY <1>1, <1>3
  <1>5. r \in Asked /\ r.op = op /\ r.user = c.user BY <1>2, <1>3, NoRequestGood DEF Asked
  <1>6. RequestGood(r) BY <1>2, <1>5 DEF RequestGood
  <1>. QED BY <1>4, <1>5, <1>6, AskKept DEF SignedIn

LEMMA LinkAsked ==
    ASSUME PanelInv, NEW h \in Handlers, NEW address \in Addresses, requestMailLoginLink(h, address)
    PROVE  Kept
  <1>1. PICK r : /\ Begin(h, r)
                 /\ \/ \E u \in Users : r = [NoRequest EXCEPT !.op = "link", !.user = u, !.key = address]
                    \/ r = [NoRequest EXCEPT !.op = "link", !.key = address]
    BY DEF requestMailLoginLink, Owner
  <1>2. CASE \E u \in Users : r = [NoRequest EXCEPT !.op = "link", !.user = u, !.key = address]
    <2>1. r \in Asked /\ r.op = "link" /\ r.user \in Users /\ r.key = address BY <1>2, NoRequestGood, ZenonT(60) DEF Asked
    <2>2. RequestGood(r) BY <2>1 DEF RequestGood
    <2>. QED BY <1>1, <2>1, <2>2, AskKept DEF requestMailLoginLink
  <1>3. CASE r = [NoRequest EXCEPT !.op = "link", !.key = address]
    <2>1. r \in Asked /\ r.op = "link" /\ r.user = Nobody /\ r.key = address BY <1>3, NoRequestGood DEF Asked
    <2>2. RequestGood(r) BY <2>1 DEF RequestGood
    <2>. QED BY <1>1, <2>1, <2>2, AskKept DEF requestMailLoginLink
  <1>. QED BY <1>1, <1>2, <1>3

LEMMA CompleteLoginKept ==
    ASSUME PanelInv, NEW h \in Handlers, completePasswordLogin(h)
    PROVE  Kept
  <1>0. /\ requests[h] \in Asked /\ RequestGood(requests[h]) /\ users \in [Users -> Account] /\ AbsentBlank
    BY DEF PanelInv, PanelTypes, OpensInv, RequestsGood
  <1>1. PICK r : r = requests[h] OBVIOUS
  <1>2. UNCHANGED <<rows, codes, cooldowns, invitations, wrong>> /\ UNCHANGED mailVars BY DEF completePasswordLogin
  <1>3. CASE completePasswordLoginTx(h) /\ Finish(h) /\ r.op \in {"login", "legacyLogin"}
    <2>1. Exists(r.user) /\ r.user \in Users /\ r.pw \in Nat BY <1>0, <1>1, <1>3 DEF RequestGood, Exists, Asked
    <2>2. PICK a : a = [users[r.user] EXCEPT !.old = FALSE] OBVIOUS
    <2>3. users[r.user] \in Account BY <1>0, <2>1
    <2>4. a \in Account /\ SameAccount(users[r.user], a) /\ a.fresh = users[r.user].fresh
      BY <2>2, <2>3 DEF Account, SameAccount
    <2>5. users' = [users EXCEPT ![r.user] = a] BY <1>1, <1>3, <2>2 DEF completePasswordLoginTx
    <2>6. users' \in [Users -> Account] /\ UsersQuiet /\ \A u \in Users : users'[u].fresh = users[u].fresh
      <3>1. users' \in [Users -> Account] /\ users'[r.user] = a /\ \A v \in Users : v # r.user => users'[v] = users[v]
        BY <1>0, <2>1, <2>4, <2>5
      <3>. QED BY <3>1, <2>4 DEF UsersQuiet, SameAccount
    <2>7. PICK c : c = [user |-> r.user, pw |-> r.pw, via |-> "password"] OBVIOUS
    <2>8. c \in Cred BY <2>1, <2>7 DEF Cred
    <2>9. Unchanged(r) /\ creds' = creds \cup {c} BY <1>1, <1>3, <2>7 DEF completePasswordLoginTx
    <2>10. CredGood(c) BY <2>1, <2>7, <2>9 DEF CredGood, Unchanged
    <2>11. Handled BY <1>3, FinishHandled
    <2>. QED BY <1>2, <2>6, <2>8, <2>9, <2>10, <2>11, StillKept
  <1>4. CASE UNCHANGED <<users, creds>> /\ Handled
    <2>1. users' \in [Users -> Account] /\ UsersQuiet /\ \A u \in Users : users'[u].fresh = users[u].fresh
      BY <1>0, <1>4 DEF UsersQuiet, SameAccount
    <2>. QED BY <1>2, <1>4, <2>1, StillKept
  <1>5. CASE /\ r.op \in {"login", "legacyLogin"} /\ UNCHANGED <<users, creds>>
             /\ IF r.tries = 0 /\ ~users[r.user].banned /\ users[r.user].pw = r.pw /\ users[r.user].email # Nobody
                THEN requests' = [requests EXCEPT ![h].tries = 1, ![h].key = users[r.user].email,
                                                  ![h].old = users[r.user].old]
                ELSE Finish(h)
    <2>1. CASE Finish(h) BY <1>4, <1>5, <2>1, FinishHandled
    <2>2. CASE requests' = [requests EXCEPT ![h].tries = 1, ![h].key = users[r.user].email, ![h].old = users[r.user].old]
      <3>1. Exists(r.user) /\ r.user \in Users BY <1>0, <1>1, <1>5 DEF RequestGood, Exists
      <3>2. users[r.user] \in Account BY <1>0, <3>1
      <3>3. users[r.user].email \in Addresses \cup {Nobody} /\ users[r.user].old \in BOOLEAN BY <3>2 DEF Account
      <3>4. PICK s : s = [requests[h] EXCEPT !.tries = 1, !.key = users[r.user].email, !.old = users[r.user].old]
        OBVIOUS
      <3>5. requests' = [requests EXCEPT ![h] = s]
        <4>1. requests \in [Handlers -> Asked] BY DEF PanelInv, PanelTypes
        <4>. QED BY <2>2, <3>4, <4>1
      <3>6. s \in Asked /\ s.op = r.op /\ s.user = r.user BY <1>0, <1>1, <3>3, <3>4 DEF Asked
      <3>7. RequestGood(s) BY <1>5, <3>1, <3>6 DEF RequestGood
      <3>8. Handled BY <3>5, <3>6, <3>7 DEF Handled
      <3>. QED BY <1>4, <1>5, <3>8
    <2>. QED BY <1>5, <2>1, <2>2
  <1>. QED BY <1>1, <1>3, <1>5 DEF completePasswordLogin, CompletePasswordLoginAndCreateSession,
                                   CompletePasswordLoginAndCreateAccessToken

LEMMA TokenKept ==
    ASSUME PanelInv, NEW h \in Handlers, CreateAccessToken(h)
    PROVE  Kept
  <1>0. requests[h] \in Asked /\ RequestGood(requests[h]) /\ users \in [Users -> Account]
    BY DEF PanelInv, PanelTypes, OpensInv, RequestsGood
  <1>1. PICK r : r = requests[h] OBVIOUS
  <1>2. Exists(r.user) /\ r.user \in Users /\ r.pw \in Nat BY <1>0, <1>1 DEF RequestGood, Exists, Asked, CreateAccessToken
  <1>3. PICK c : c = [user |-> r.user, pw |-> r.pw, via |-> "session"] OBVIOUS
  <1>4. c \in Cred /\ c.via = "session" /\ c.user = r.user BY <1>2, <1>3 DEF Cred
  <1>5. creds' = IF users[r.user].banned THEN creds ELSE creds \cup {c} BY <1>1, <1>3 DEF CreateAccessToken
  <1>6. \A d \in creds' : d \in creds \/ (d \in Cred /\ CredGood(d))
    <2>1. ~users[r.user].banned => CredGood(c) BY <1>2, <1>4 DEF CredGood
    <2>. QED BY <1>4, <1>5, <2>1
  <1>7. users' \in [Users -> Account] /\ UsersQuiet /\ \A u \in Users : users'[u].fresh = users[u].fresh
    BY <1>0 DEF UsersQuiet, SameAccount, CreateAccessToken
  <1>8. Handled BY FinishHandled DEF CreateAccessToken
  <1>9. UNCHANGED <<rows, codes, cooldowns, invitations, wrong>> /\ UNCHANGED mailVars BY DEF CreateAccessToken
  <1>. QED BY <1>6, <1>7, <1>8, <1>9, StillKept

LEMMA RevokeSessionKept ==
    ASSUME PanelInv, RevokeUserSession
    PROVE  Kept
  <1>1. users' \in [Users -> Account] /\ UsersQuiet /\ \A u \in Users : users'[u].fresh = users[u].fresh
    BY DEF PanelInv, PanelTypes, UsersQuiet, SameAccount, RevokeUserSession
  <1>2. Handled /\ \A c \in creds' : c \in creds BY DEF RevokeUserSession, Handled
  <1>3. UNCHANGED <<rows, codes, cooldowns, invitations, wrong>> /\ UNCHANGED mailVars BY DEF RevokeUserSession
  <1>. QED BY <1>1, <1>2, <1>3, StillKept

-----------------------------------------------------------------------------
(* An account changes, and everything that opened it is revoked. *)
LEMMA RevokeKept ==
    ASSUME PanelInv, NEW u \in Users, NEW a \in Account, users' = [users EXCEPT ![u] = a], a.life # "absent",
           a.invite = users[u].invite, a.proof = users[u].proof, a.fresh = users[u].fresh,
           NEW t, Touched(rows, t), revokeAllCredentialsTx(u, t),
           UNCHANGED <<cooldowns, invitations, wrong>>, UNCHANGED mailVars, Handled
    PROVE  Kept
  <1>0. /\ AbsentBlank /\ CredsGood /\ CodesGood /\ RowsBacked /\ RequestsGood /\ PanelTypes /\ Sound /\ CodesNumbered
    BY SoundInv DEF PanelInv, OpensInv
  <1>t. /\ users \in [Users -> Account] /\ codes \in SUBSET Code /\ creds \in SUBSET Cred /\ rows \in Seq(OutRow)
        /\ requests \in [Handlers -> Asked] /\ cooldowns \in SUBSET Cooling
    BY <1>0 DEF PanelTypes
  <1>1. users' \in [Users -> Account] /\ users'[u] = a /\ \A v \in Users : v # u => users'[v] = users[v] BY <1>t
  <1>2. AdmissionsQuiet /\ \A v \in Users : users'[v].fresh = users[v].fresh BY <1>1 DEF AdmissionsQuiet
  <1>3. \A v : Exists(v) => Exists(v)' BY <1>1 DEF Exists
  <1>4. requests' \in [Handlers -> Asked] /\ RequestsGood' BY <1>0, <1>t, <1>3, HandledGood
  <1>5. AbsentBlank' BY <1>0, <1>1 DEF AbsentBlank
  <1>6. /\ creds' = {c \in creds : c.user # u} /\ codes' = KeptCodes(u) /\ rows' = RevokedRows(t, u)
    BY DEF revokeAllCredentialsTx
  <1>7. creds' \in SUBSET Cred BY <1>6, <1>t
  <1>8. CredsGood'
    <2>1. ASSUME NEW c \in creds' PROVE CredGood(c)'
      <3>1. CredGood(c) /\ c.user # u BY <1>0, <1>6 DEF CredsGood
      <3>2. c.user \in Users BY <3>1 DEF CredGood, Exists
      <3>3. users'[c.user] = users[c.user] BY <1>1, <3>1, <3>2
      <3>. QED BY <1>3, <3>1, <3>3 DEF CredGood
    <2>. QED BY <2>1 DEF CredsGood
  <1>9. CodesGood'
    <2>1. ASSUME NEW c \in codes' PROVE CodeGood(c)'
      <3>1. c \in codes /\ ~(c.user = u /\ c.kind \in {"link", "quick", "reset"}) BY <1>6 DEF KeptCodes
      <3>2. CodeGood(c) /\ c.user \in Users \cup {Nobody} /\ c.kind \in {"reset", "registration", "link", "quick"}
        BY <1>0, <1>t, <3>1 DEF CodesGood, Code
      <3>3. CASE c.kind = "registration" BY <3>2, <3>3 DEF CodeGood
      <3>4. CASE c.kind # "registration"
        <4>1. c.user # u BY <3>1, <3>2, <3>4
        <4>2. c.user # Nobody => users'[c.user] = users[c.user] BY <1>1, <3>2, <4>1
        <4>. QED BY <1>3, <3>2, <4>2 DEF CodeGood
      <3>. QED BY <3>3, <3>4
    <2>. QED BY <2>1 DEF CodesGood
  <1>10. /\ Touched(t, rows') /\ t \in Seq(OutRow) /\ Len(t) = Len(rows)
         /\ \A i \in 1..Len(t) : t[i].kind \in {"link", "reset"} /\ t[i].user = u => ~Pending(rows'[i])
    BY <1>6, RevokeTouches DEF Touched
  <1>11. Touched(rows, rows') BY <1>10, TouchedTwice
  <1>12. UNCHANGED <<jobs, updates, hooks, accScope>> /\ UNCHANGED <<invitations, wrong>> BY DEF mailVars
  <1>13. Sound' /\ Promised BY <1>0, <1>11, <1>12, TouchKeeps
  <1>14. RowsFollow /\ Len(rows') = Len(rows) /\ (Len(rows) + 1)..Len(rows') = {} BY <1>0, <1>11, TouchFollows
  <1>15. RowsBacked'
    <2>1. SUFFICES ASSUME NEW i \in DOMAIN rows', rows'[i].kind \in {"reset", "link"}, Pending(rows'[i])
                   PROVE  \E c \in codes' : Backs(c, rows'[i])
      BY DEF RowsBacked
    <2>2. i \in 1..Len(rows) /\ i \in DOMAIN rows BY <1>t, <1>14 DEF RowsFollow
    <2>3. Follows(rows[i], rows'[i]) BY <2>2, <1>14 DEF RowsFollow
    <2>4. rows[i].kind \in {"reset", "link"} /\ Pending(rows[i]) BY <2>1, <2>3 DEF Follows, Identity
    <2>5. PICK c \in codes : Backs(c, rows[i]) BY <1>0, <2>2, <2>4 DEF RowsBacked
    <2>6. t[i].kind = rows[i].kind /\ t[i].user = rows[i].user BY <2>2 DEF Touched, Touches, Identity
    <2>7. rows[i].user # u BY <1>10, <2>1, <2>2, <2>4, <2>6
    <2>8. c \in codes' BY <1>6, <2>5, <2>7 DEF KeptCodes, Backs
    <2>9. Backs(c, rows'[i]) BY <2>3, <2>5 DEF Follows, Identity, Backs
    <2>. QED BY <2>8, <2>9
  <1>16. \A d \in codes' : d \in codes BY <1>6 DEF KeptCodes
  <1>17. cooldowns' \in SUBSET Cooling BY <1>t
  <1>. QED BY <1>1, <1>2, <1>4, <1>5, <1>7, <1>8, <1>9, <1>12, <1>13, <1>14, <1>15, <1>16, <1>17, AccountKept

LEMMA NewPasswordKept ==
    ASSUME PanelInv, NEW u \in Users, Exists(u), NewPassword(u),
           UNCHANGED <<cooldowns, invitations, wrong>>, UNCHANGED mailVars, Handled
    PROVE  Kept
  <1>0. users \in [Users -> Account] /\ users[u] \in Account /\ rows \in Seq(OutRow) BY DEF PanelInv, PanelTypes
  <1>1. users[u].pw + 1 \in Nat BY <1>0 DEF Account
  <1>2. PICK a : a = [users[u] EXCEPT !.pw = users[u].pw + 1, !.old = FALSE] OBVIOUS
  <1>3. /\ a \in Account /\ a.life = users[u].life /\ a.invite = users[u].invite /\ a.proof = users[u].proof
        /\ a.fresh = users[u].fresh
    BY <1>0, <1>1, <1>2 DEF Account
  <1>4. users' = [users EXCEPT ![u] = a] BY <1>0, <1>2 DEF NewPassword, Account
  <1>5. a.life # "absent" BY <1>3 DEF Exists
  <1>6. Touched(rows, rows) /\ revokeAllCredentialsTx(u, rows) BY <1>0, TouchedSelf DEF NewPassword
  <1>. QED BY <1>3, <1>4, <1>5, <1>6, RevokeKept

LEMMA NothingKept ==
    ASSUME PanelInv, UNCHANGED <<users, creds, codes, rows>>, UNCHANGED <<cooldowns, invitations, wrong>>,
           UNCHANGED mailVars, Handled
    PROVE  Kept
  <1>1. users' \in [Users -> Account] /\ UsersQuiet /\ \A v \in Users : users'[v].fresh = users[v].fresh
    BY DEF PanelInv, PanelTypes, UsersQuiet, SameAccount
  <1>2. UNCHANGED <<rows, codes, cooldowns, invitations, wrong>> /\ \A c \in creds' : c \in creds OBVIOUS
  <1>. QED BY <1>1, <1>2, StillKept

LEMMA ChangePasswordKept ==
    ASSUME PanelInv, NEW h \in Handlers, ChangePassword(h)
    PROVE  Kept
  <1>0. RequestGood(requests[h]) BY DEF PanelInv, OpensInv, RequestsGood
  <1>1. PICK u : u = requests[h].user OBVIOUS
  <1>2. Exists(u) /\ u \in Users BY <1>0, <1>1 DEF RequestGood, Exists, ChangePassword
  <1>3. Handled BY FinishHandled DEF ChangePassword
  <1>4. UNCHANGED <<cooldowns, invitations, wrong>> /\ UNCHANGED mailVars BY DEF ChangePassword
  <1>5. CASE Current(requests[h])
    <2>1. NewPassword(u) BY <1>1, <1>5 DEF ChangePassword
    <2>. QED BY <1>2, <1>3, <1>4, <2>1, NewPasswordKept
  <1>6. CASE ~Current(requests[h])
    <2>1. UNCHANGED <<users, creds, codes, rows>> BY <1>6 DEF ChangePassword
    <2>. QED BY <1>3, <1>4, <2>1, NothingKept
  <1>. QED BY <1>5, <1>6

LEMMA ResetKept ==
    ASSUME PanelInv, NEW h \in Handlers, ResetPasswordWithChallenge(h)
    PROVE  Kept
  <1>0. RequestGood(requests[h]) BY DEF PanelInv, OpensInv, RequestsGood
  <1>1. PICK u : u = requests[h].user OBVIOUS
  <1>2. Exists(u) /\ u \in Users BY <1>0, <1>1 DEF RequestGood, Exists, ResetPasswordWithChallenge
  <1>3. Handled BY FinishHandled DEF ResetPasswordWithChallenge
  <1>4. UNCHANGED <<cooldowns, invitations, wrong>> /\ UNCHANGED mailVars BY DEF ResetPasswordWithChallenge
  <1>5. NewPassword(u) \/ UNCHANGED <<users, creds, codes, rows>> BY <1>1 DEF ResetPasswordWithChallenge
  <1>. QED BY <1>2, <1>3, <1>4, <1>5, NewPasswordKept, NothingKept

LEMMA AdminResetKept ==
    ASSUME PanelInv, NEW u \in Users, ResetAdminUserPassword(u)
    PROVE  Kept
  <1>1. Exists(u) /\ NewPassword(u) BY DEF ResetAdminUserPassword, Exists
  <1>2. Handled BY DEF ResetAdminUserPassword, Handled
  <1>3. UNCHANGED <<cooldowns, invitations, wrong>> /\ UNCHANGED mailVars BY DEF ResetAdminUserPassword
  <1>. QED BY <1>1, <1>2, <1>3, NewPasswordKept

LEMMA AdminUpdateKept ==
    ASSUME PanelInv, NEW u \in Users, UpdateAdminUser(u)
    PROVE  Kept
  <1>0. /\ users \in [Users -> Account] /\ users[u] \in Account /\ rows \in Seq(OutRow)
        /\ accScope.addresses \subseteq Addresses
    BY DEF PanelInv, PanelTypes
  <1>1. PICK email \in Addresses, ban \in BOOLEAN, password \in BOOLEAN :
            /\ users' = [users EXCEPT ![u].email = email, ![u].banned = ban,
                                      ![u].pw = IF password THEN @ + 1 ELSE @,
                                      ![u].old = IF password THEN FALSE ELSE @]
            /\ revokeAllCredentialsTx(u, cancelSubscriptionRemindersForUserChangeTx(u, email, ban))
    BY <1>0, ZenonT(60) DEF UpdateAdminUser
  <1>2. PICK pw \in Nat : pw = IF password THEN users[u].pw + 1 ELSE users[u].pw BY <1>0 DEF Account
  <1>3. PICK old \in BOOLEAN : old = IF password THEN FALSE ELSE users[u].old BY <1>0 DEF Account
  <1>4. PICK a : a = [users[u] EXCEPT !.email = email, !.banned = ban, !.pw = pw, !.old = old] OBVIOUS
  <1>5. users' = [users EXCEPT ![u] = a]
    <2>1. CASE password BY <1>0, <1>1, <1>2, <1>3, <1>4, <2>1 DEF Account
    <2>2. CASE ~password BY <1>0, <1>1, <1>2, <1>3, <1>4, <2>2 DEF Account
    <2>. QED BY <2>1, <2>2
  <1>6. /\ a \in Account /\ a.life = users[u].life /\ a.invite = users[u].invite /\ a.proof = users[u].proof
        /\ a.fresh = users[u].fresh
    BY <1>0, <1>4 DEF Account
  <1>7. a.life # "absent" BY <1>6 DEF UpdateAdminUser
  <1>8. Handled /\ UNCHANGED <<cooldowns, invitations, wrong>> /\ UNCHANGED mailVars BY DEF UpdateAdminUser, Handled
  <1>9. PICK t : t = cancelSubscriptionRemindersForUserChangeTx(u, email, ban) OBVIOUS
  <1>10. Touched(rows, t) BY <1>0, <1>9, CancelTouches DEF cancelSubscriptionRemindersForUserChangeTx
  <1>11. revokeAllCredentialsTx(u, t) BY <1>1, <1>9
  <1>. QED BY <1>5, <1>6, <1>7, <1>8, <1>10, <1>11, RevokeKept

LEMMA LifecycleKept ==
    ASSUME PanelInv, NEW u \in Users, ChangeUserLifecycle(u)
    PROVE  Kept
  <1>0. users \in [Users -> Account] /\ users[u] \in Account /\ rows \in Seq(OutRow) BY DEF PanelInv, PanelTypes
  <1>1. PICK a : /\ users' = [users EXCEPT ![u] = a] /\ a \in Account /\ a.life # "absent" /\ a.invite = users[u].invite
                 /\ a.proof = users[u].proof /\ a.fresh = users[u].fresh
    <2>1. CASE users' = [users EXCEPT ![u].life = "deactivated", ![u].before = users[u].banned, ![u].banned = TRUE]
      <3>1. PICK a : a = [users[u] EXCEPT !.life = "deactivated", !.before = users[u].banned, !.banned = TRUE] OBVIOUS
      <3>2. users' = [users EXCEPT ![u] = a] BY <1>0, <2>1, <3>1 DEF Account
      <3>3. /\ a \in Account /\ a.life = "deactivated" /\ a.invite = users[u].invite
            /\ a.proof = users[u].proof /\ a.fresh = users[u].fresh
        BY <1>0, <3>1 DEF Account
      <3>. QED BY <3>2, <3>3
    <2>2. CASE users' = [users EXCEPT ![u].life = "active", ![u].banned = users[u].before, ![u].before = FALSE]
      <3>1. PICK a : a = [users[u] EXCEPT !.life = "active", !.banned = users[u].before, !.before = FALSE] OBVIOUS
      <3>2. users' = [users EXCEPT ![u] = a] BY <1>0, <2>2, <3>1 DEF Account
      <3>3. /\ a \in Account /\ a.life = "active" /\ a.invite = users[u].invite
            /\ a.proof = users[u].proof /\ a.fresh = users[u].fresh
        BY <1>0, <3>1 DEF Account
      <3>. QED BY <3>2, <3>3
    <2>3. CASE anonymizeUserTx(u)
      <3>0. users[u].pw + 1 \in Nat BY <1>0 DEF Account
      <3>1. PICK a : a = [users[u] EXCEPT !.life = "anonymized", !.email = Nobody, !.chat = FALSE,
                                          !.pw = users[u].pw + 1, !.old = FALSE]
        OBVIOUS
      <3>2. users' = [users EXCEPT ![u] = a] BY <1>0, <2>3, <3>1 DEF Account, anonymizeUserTx
      <3>3. /\ a \in Account /\ a.life = "anonymized" /\ a.invite = users[u].invite
            /\ a.proof = users[u].proof /\ a.fresh = users[u].fresh
        BY <1>0, <3>0, <3>1 DEF Account
      <3>. QED BY <3>2, <3>3
    <2>. QED BY <2>1, <2>2, <2>3 DEF ChangeUserLifecycle
  <1>2. Handled /\ UNCHANGED <<cooldowns, invitations, wrong>> /\ UNCHANGED mailVars BY DEF ChangeUserLifecycle, Handled
  <1>3. PICK t : t = cancelUserLifecycleNotificationsTx(u) OBVIOUS
  <1>4. Touched(rows, t) BY <1>0, <1>3, CancelTouches DEF cancelUserLifecycleNotificationsTx
  <1>5. revokeAllCredentialsTx(u, t) BY <1>3 DEF ChangeUserLifecycle
  <1>. QED BY <1>1, <1>2, <1>4, <1>5, RevokeKept

-----------------------------------------------------------------------------
(* Codes are issued. *)
LEMMA ChallengeMade ==
    ASSUME PanelInv, NEW kind \in {"reset", "registration", "link", "quick"}, NEW address \in Addresses \cup {Nobody},
           NEW user \in Users \cup {Nobody}, NEW code \in Nat, NEW old \in SUBSET codes,
           NEW d, d = Challenge(kind, address, user, code, old)
    PROVE  /\ d \in Code /\ d.kind = kind /\ d.key = address /\ d.user = user /\ d.code = code /\ d.life = CodeLife
           /\ user # Nobody => d.pw = users[user].pw
           /\ old = {} => d.fails = 0 /\ d.lock = 0
           /\ old # {} => \E c \in old : d.fails = c.fails /\ d.lock = c.lock
  <1>0. users \in [Users -> Account] /\ codes \in SUBSET Code BY DEF PanelInv, PanelTypes
  <1>1. PICK pw \in Nat : pw = IF user = Nobody THEN 0 ELSE users[user].pw
    <2>1. user # Nobody => users[user] \in Account BY <1>0
    <2>. QED BY <2>1 DEF Account
  <1>2. PICK fails \in Nat, lock \in Nat :
            /\ fails = IF old = {} THEN 0 ELSE (CHOOSE c \in old : TRUE).fails
            /\ lock = IF old = {} THEN 0 ELSE (CHOOSE c \in old : TRUE).lock
            /\ old # {} => \E c \in old : fails = c.fails /\ lock = c.lock
    <2>1. CASE old = {} BY <2>1
    <2>2. CASE old # {}
      <3>1. PICK c : c = CHOOSE x \in old : TRUE OBVIOUS
      <3>2. c \in old BY <2>2, <3>1
      <3>3. c \in Code BY <1>0, <3>2
      <3>4. c.fails \in Nat /\ c.lock \in Nat BY <3>3 DEF Code
      <3>. QED BY <2>2, <3>1, <3>2, <3>4
    <2>. QED BY <2>1, <2>2
  <1>3. d = [kind |-> kind, key |-> address, user |-> user, code |-> code, life |-> CodeLife,
             resend |-> Cooldown, pw |-> pw, fails |-> fails, lock |-> lock]
    BY <1>1, <1>2 DEF Challenge
  <1>. QED BY <1>1, <1>2, <1>3, Constants DEF Code

(* No wrong guess at a new code yet. *)
LEMMA NewGuess ==
    ASSUME GuessesCounted, UNCHANGED wrong, NEW d \in Code, d.fails <= MaxGuesses, d.life <= CodeLife,
           d.fails = 0 <=> d.lock = 0, d.kind \in Guessed /\ d.code # 0 => d.code > Len(rows) /\ d.code \in 1..MaxRows
    PROVE  GuessGood(d)'
  <1>1. d.fails \in Nat /\ MaxGuesses \in Nat /\ MaxGuesses > 0 BY Constants DEF Code
  <1>2. ASSUME d.kind \in Guessed, d.code # 0 PROVE wrong'[d.code] <= Bound(d)
    <2>1. wrong'[d.code] = 0 BY <1>2 DEF GuessesCounted
    <2>2. Bound(d) >= 0
      <3>1. CASE d.fails = 0 BY <1>1, <3>1 DEF Bound
      <3>2. CASE d.fails > 0 /\ d.lock < d.life BY <1>1, <3>2 DEF Bound
      <3>3. CASE d.fails > 0 /\ ~(d.lock < d.life) BY <1>1, <3>3 DEF Bound
      <3>. QED BY <1>1, <3>1, <3>2, <3>3
    <2>3. Bound(d) \in Int BY <1>1 DEF Bound
    <2>. QED BY <2>1, <2>2, <2>3
  <1>. QED BY <1>2 DEF GuessGood, Bound

LEMMA QuickKept ==
    ASSUME PanelInv, NEW h \in Handlers, CreateQuickLoginLink(h)
    PROVE  Kept
  <1>0. /\ requests[h] \in Asked /\ RequestGood(requests[h]) /\ users \in [Users -> Account]
        /\ rows \in Seq(OutRow) /\ Sound /\ CodesNumbered /\ RowsBacked /\ cooldowns \in SUBSET Cooling /\ GuessesCounted
    BY SoundInv DEF PanelInv, PanelTypes, OpensInv, AdmitsInv, RequestsGood
  <1>1. PICK r : r = requests[h] OBVIOUS
  <1>2. Exists(r.user) /\ r.user \in Users /\ r.pw \in Nat /\ r.user # Nobody
    BY <1>0, <1>1, Constants DEF RequestGood, Exists, Asked, CreateQuickLoginLink
  <1>3. PICK q : q = Challenge("quick", Nobody, r.user, 0, {}) OBVIOUS
  <1>4. q \in Code /\ q.kind = "quick" /\ q.user = r.user /\ q.code = 0 /\ q.life = CodeLife /\ q.fails = 0 /\ q.lock = 0
    BY <1>2, <1>3, ChallengeMade
  <1>5. PICK d : d = [q EXCEPT !.pw = r.pw] OBVIOUS
  <1>6. /\ d \in Code /\ d.kind = "quick" /\ d.user = r.user /\ d.code = 0 /\ d.life = CodeLife /\ d.fails = 0
        /\ d.lock = 0
    BY <1>2, <1>4, <1>5 DEF Code
  <1>7. \A c \in codes' : c \in codes \/ c = d BY <1>1, <1>3, <1>5 DEF CreateQuickLoginLink
  <1>8. UNCHANGED <<users, rows, creds, cooldowns, invitations, wrong>> /\ UNCHANGED mailVars BY DEF CreateQuickLoginLink
  <1>9. CodeGood(d) BY <1>2, <1>6 DEF CodeGood
  <1>10. GuessGood(d)' BY <1>0, <1>6, <1>8, NewGuess, Constants DEF Guessed
  <1>11. Len(rows') \in Nat BY <1>0, <1>8
  <1>12. Issued(d) BY <1>6, <1>10, <1>11 DEF Issued, Guessed
  <1>13. users' \in [Users -> Account] /\ UsersQuiet /\ \A u \in Users : users'[u].fresh = users[u].fresh
    BY <1>0, <1>8 DEF UsersQuiet, SameAccount
  <1>14. Touched(rows, rows') BY <1>0, <1>8, TouchedSelf
  <1>15. UNCHANGED <<jobs, updates, hooks, accScope>> /\ UNCHANGED <<invitations, wrong>> BY <1>8 DEF mailVars
  <1>16. Sound' /\ Promised BY <1>0, <1>14, <1>15, TouchKeeps
  <1>17. RowsFollow /\ (Len(rows) + 1)..Len(rows') = {} BY <1>0, <1>14, TouchFollows
  <1>18. RowsBacked'
    <2>1. \A c \in codes : c \in codes' BY DEF CreateQuickLoginLink
    <2>. QED BY <1>0, <1>8, <2>1 DEF RowsBacked
  <1>19. Handled BY FinishHandled DEF CreateQuickLoginLink
  <1>20. cooldowns' \in SUBSET Cooling BY <1>0, <1>8
  <1>. QED BY <1>7, <1>8, <1>9, <1>12, <1>13, <1>15, <1>16, <1>17, <1>18, <1>19, <1>20, QuietAccountKept

LEMMA IssueKept ==
    ASSUME PanelInv, NEW kind \in Guessed, NEW address \in Addresses, NEW user \in Users \cup {Nobody},
           NEW mailed \in BOOLEAN, IssueCode(kind, address, user, mailed),
           kind = "reset" /\ mailed => user # Nobody, kind = "reset" /\ user # Nobody => Exists(user),
           UNCHANGED <<users, cooldowns, creds, requests, invitations, wrong>>, UNCHANGED mailVars
    PROVE  Kept
  <1> DEFINE old == Standing(kind, address)
             gone == OfKey(kind, address)
             table == Cancel(rows, gone)
  <1>0. /\ users \in [Users -> Account] /\ rows \in Seq(OutRow) /\ Sound /\ CodesNumbered /\ RowsBacked
        /\ cooldowns \in SUBSET Cooling /\ GuessesCounted /\ codes \in SUBSET Code
    BY SoundInv DEF PanelInv, PanelTypes, OpensInv, AdmitsInv
  <1>n. Len(rows) \in Nat /\ MaxRows \in Nat /\ MaxGuesses \in Nat /\ CodeLife \in Nat /\ DOMAIN rows = 1..Len(rows)
    BY <1>0, Constants
  <1>1. PICK code \in Nat : code = IF mailed THEN Len(rows) + 1 ELSE 0 BY <1>n
  <1>2. PICK d : d = Challenge(kind, address, user, code, old) OBVIOUS
  <1>3. /\ Len(rows) < MaxRows /\ codes' = (codes \ old) \cup {d}
        /\ rows' = IF mailed THEN Append(table, Row(kind, user, address, code)) ELSE table
    BY <1>1, <1>2 DEF IssueCode, NextCode
  <1>4. old \in SUBSET codes /\ \A c \in codes : c \in old <=> c.kind = kind /\ c.key = address BY DEF Standing
  <1>5. /\ d \in Code /\ d.kind = kind /\ d.key = address /\ d.user = user /\ d.code = code /\ d.life = CodeLife
        /\ user # Nobody => d.pw = users[user].pw
        /\ old = {} => d.fails = 0 /\ d.lock = 0
        /\ old # {} => \E c \in old : d.fails = c.fails /\ d.lock = c.lock
    <2>. HIDE DEF old
    <2>. QED BY <1>2, <1>4, ChallengeMade DEF Guessed
  <1>6. d.fails <= MaxGuesses /\ (d.fails = 0 <=> d.lock = 0)
    <2>1. CASE old = {} BY <1>5, <1>n, <2>1
    <2>2. CASE old # {}
      <3>1. PICK c \in old : d.fails = c.fails /\ d.lock = c.lock BY <1>5, <2>2
      <3>2. GuessGood(c) BY <1>0, <1>4, <3>1 DEF GuessesCounted
      <3>. QED BY <3>1, <3>2 DEF GuessGood
    <2>. QED BY <2>1, <2>2
  <1>7. d.code # 0 => mailed /\ d.code = Len(rows) + 1 /\ d.code > Len(rows) /\ d.code \in 1..MaxRows
    BY <1>1, <1>3, <1>5, <1>n
  <1>8. UNCHANGED wrong OBVIOUS
  <1>9. GuessGood(d)' BY <1>0, <1>5, <1>6, <1>7, <1>8, <1>n, NewGuess
  <1>10. CodeGood(d) BY <1>5, <1>7 DEF CodeGood, Guessed
  <1>. HIDE DEF old
  <1>11. /\ Touched(rows, table) /\ \A i \in 1..Len(rows) : i \in gone => ~Pending(table[i])
         /\ \A i \in 1..Len(rows) : table[i].status \in {rows[i].status, "cancelled"}
    <2>1. \A i \in gone : rows[i].kind # "ticket" BY DEF OfKey, Guessed
    <2>. HIDE DEF gone
    <2>. QED BY <1>0, <2>1, CancelTouches
  <1>12. UNCHANGED <<jobs, updates, hooks, accScope>> /\ UNCHANGED <<invitations, wrong>> BY DEF mailVars
  <1>. HIDE DEF table
  <1>13. /\ Sound' /\ Promised /\ RowsFollow /\ \A i \in 1..Len(rows) : rows'[i] = table[i]
         /\ mailed => /\ rows'[Len(rows) + 1].kind = kind /\ rows'[Len(rows) + 1].key = address
                      /\ rows'[Len(rows) + 1].user = user /\ rows'[Len(rows) + 1].code = code
                      /\ Len(rows') = Len(rows) + 1
         /\ ~mailed => Len(rows') = Len(rows)
    <2>1. CASE mailed
      <3>1. PICK r : r = Row(kind, user, address, code) OBVIOUS
      <3>2. r \in OutRow /\ Given(r) /\ r.kind = kind /\ r.user = user /\ r.key = address /\ r.code = code
        <4>1. kind \in Kinds /\ address \in Names BY DEF Kinds, Names, Guessed
        <4>. QED BY <3>1, <4>1, RowMade
      <3>3. rows' = Append(table, r) BY <1>3, <2>1, <3>1
      <3>4. r.kind # "command" /\ r.kind # "reminder" BY <3>2 DEF Guessed
      <3>5. /\ Sound' /\ Promised /\ RowsFollow /\ Len(rows') = Len(rows) + 1 /\ rows'[Len(rows) + 1] = r
            /\ \A i \in 1..Len(rows) : rows'[i] = table[i]
        BY <1>0, <1>3, <1>11, <1>12, <3>2, <3>3, <3>4, AppendKeeps
      <3>. QED BY <2>1, <3>2, <3>5
    <2>2. CASE ~mailed
      <3>1. rows' = table BY <1>3, <2>2
      <3>2. Touched(rows, rows') BY <1>11, <3>1
      <3>3. Sound' /\ Promised BY <1>0, <1>12, <3>2, TouchKeeps
      <3>4. RowsFollow /\ Len(rows') = Len(rows) BY <1>0, <3>2, TouchFollows
      <3>. QED BY <2>2, <3>1, <3>3, <3>4
    <2>. QED BY <2>1, <2>2
  <1>14. \A j \in (Len(rows) + 1)..Len(rows') : mailed /\ j = Len(rows) + 1 BY <1>n, <1>13
  <1>15. \A j \in (Len(rows) + 1)..Len(rows') : rows'[j].kind # "command" BY <1>13, <1>14 DEF Guessed
  <1>16. Issued(d)
    <2>1. d.code <= Len(rows') BY <1>7, <1>13, <1>5, <1>1, <1>n
    <2>2. d.code # 0 => d.code > Len(rows) /\ rows'[d.code].kind = d.kind /\ rows'[d.code].key = d.key
      BY <1>5, <1>7, <1>13
    <2>3. \A c \in codes' : c.kind = d.kind /\ c.key = d.key => c = d BY <1>3, <1>4, <1>5
    <2>. QED BY <1>5, <1>9, <2>1, <2>2, <2>3 DEF Issued
  <1>17. RowsBacked'
    <2>1. SUFFICES ASSUME NEW i \in DOMAIN rows', rows'[i].kind \in {"reset", "link"}, Pending(rows'[i])
                   PROVE  \E c \in codes' : Backs(c, rows'[i])
      BY DEF RowsBacked
    <2>0. i \in 1..Len(rows') /\ Len(rows') \in Nat BY <1>13 DEF RowsFollow
    <2>2. CASE i \in 1..Len(rows)
      <3>1. Follows(rows[i], rows'[i]) BY <2>2, <1>13 DEF RowsFollow
      <3>2. rows[i].kind \in {"reset", "link"} /\ Pending(rows[i]) BY <2>1, <3>1 DEF Follows, Identity
      <3>3. PICK c \in codes : Backs(c, rows[i]) BY <1>0, <1>n, <2>2, <3>2 DEF RowsBacked
      <3>4. i \notin gone BY <1>11, <1>13, <2>1, <2>2
      <3>5. ~(c.kind = kind /\ c.key = address) BY <1>n, <2>2, <3>3, <3>4 DEF OfKey, Backs
      <3>6. c \in codes' BY <1>3, <1>4, <3>5
      <3>7. Backs(c, rows'[i]) BY <3>1, <3>3 DEF Follows, Identity, Backs
      <3>. QED BY <3>6, <3>7
    <2>3. CASE i \notin 1..Len(rows)
      <3>1. i \in (Len(rows) + 1)..Len(rows') BY <2>0, <2>3, <1>n
      <3>2. mailed /\ i = Len(rows) + 1 BY <3>1, <1>14
      <3>3. Backs(d, rows'[i]) BY <1>5, <1>13, <3>2 DEF Backs
      <3>. QED BY <1>3, <3>3
    <2>. QED BY <2>2, <2>3
  <1>18. users' \in [Users -> Account] /\ UsersQuiet /\ \A u \in Users : users'[u].fresh = users[u].fresh
    BY <1>0 DEF UsersQuiet, SameAccount
  <1>19. \A c \in codes' : c \in codes \/ (Issued(c) /\ CodeGood(c)) BY <1>3, <1>10, <1>16
  <1>20. Handled /\ cooldowns' \in SUBSET Cooling BY <1>0 DEF Handled
  <1>21. \A c \in creds' : c \in creds OBVIOUS
  <1>22. \A c : c.what = "ip" => (c \in cooldowns' <=> c \in cooldowns) OBVIOUS
  <1>. QED BY <1>12, <1>13, <1>15, <1>17, <1>18, <1>19, <1>20, <1>21, <1>22, QuietAccountKept

LEMMA OwnerExists == ASSUME PanelInv, NEW address \in Addresses, NEW u \in Owner(address) PROVE u \in Users /\ Exists(u)
  <1>1. u \in Users /\ users[u].email # Nobody BY Constants DEF Owner
  <1>. QED BY <1>1 DEF Exists, PanelInv, OpensInv, AbsentBlank

LEMMA RequestResetKept ==
    ASSUME PanelInv, NEW address \in Addresses, RequestPasswordReset(address)
    PROVE  Kept
  <1>1. UNCHANGED <<users, cooldowns, creds, requests, invitations, wrong>> /\ UNCHANGED mailVars
    BY DEF RequestPasswordReset
  <1>2. ASSUME NEW u \in Owner(address), IssueCode("reset", address, u, TRUE) PROVE Kept
    <2>1. u \in Users /\ Exists(u) /\ u # Nobody BY OwnerExists, Constants
    <2>2. "reset" \in Guessed /\ TRUE \in BOOLEAN BY DEF Guessed
    <2>. QED BY <1>1, <1>2, <2>1, <2>2, IssueKept
  <1>3. CASE IssueCode("reset", address, Nobody, FALSE)
    <2>2. "reset" \in Guessed /\ FALSE \in BOOLEAN BY DEF Guessed
    <2>. QED BY <1>1, <1>3, <2>2, IssueKept
  <1>. QED BY <1>2, <1>3 DEF RequestPasswordReset

LEMMA VerificationKept ==
    ASSUME PanelInv, NEW address \in Addresses, RequestRegistrationEmailVerification(address)
    PROVE  Kept
  <1>1. UNCHANGED <<users, cooldowns, creds, requests, invitations, wrong>> /\ UNCHANGED mailVars
    BY DEF RequestRegistrationEmailVerification
  <1>2. PICK mailed \in BOOLEAN : mailed = (Owner(address) = {}) OBVIOUS
  <1>3. IssueCode("registration", address, Nobody, mailed) BY <1>2 DEF RequestRegistrationEmailVerification
  <1>4. "registration" \in Guessed BY DEF Guessed
  <1>. QED BY <1>1, <1>3, <1>4, IssueKept

LEMMA LinkKept ==
    ASSUME PanelInv, NEW h \in Handlers, RequestMailLoginLink(h)
    PROVE  Kept
  <1>0. /\ requests[h] \in Asked /\ RequestGood(requests[h]) /\ users \in [Users -> Account] /\ AbsentBlank
        /\ rows \in Seq(OutRow) /\ Sound /\ CodesNumbered /\ RowsBacked /\ cooldowns \in SUBSET Cooling /\ GuessesCounted
    BY SoundInv DEF PanelInv, PanelTypes, OpensInv, AdmitsInv, RequestsGood
  <1>1. PICK r : r = requests[h] OBVIOUS
  <1>2. r.op = "link" /\ r.user \in Users \cup {Nobody} /\ r.key \in Addresses
    BY <1>0, <1>1 DEF RequestMailLoginLink, RequestGood
  <1>3. UNCHANGED <<users, creds, invitations, wrong>> /\ UNCHANGED mailVars BY DEF RequestMailLoginLink
  <1>4. Handled BY FinishHandled DEF RequestMailLoginLink
  <1>5. users' \in [Users -> Account] /\ UsersQuiet /\ \A u \in Users : users'[u].fresh = users[u].fresh
    BY <1>0, <1>3 DEF UsersQuiet, SameAccount
  <1>6. UNCHANGED <<jobs, updates, hooks, accScope>> /\ UNCHANGED <<invitations, wrong>> BY <1>3 DEF mailVars
  <1>7. PICK w : w = [what |-> "link", key |-> r.key, left |-> Cooldown] OBVIOUS
  <1>8. w \in Cooling /\ w.what # "ip" BY <1>2, <1>7, Constants DEF Cooling, Names
  <1>9. \A c \in creds' : c \in creds BY <1>3
  <1>10. CASE UNCHANGED <<rows, codes, cooldowns>>
    <2>1. UNCHANGED <<rows, codes, cooldowns, invitations, wrong>> BY <1>3, <1>10
    <2>. QED BY <1>3, <1>4, <1>5, <1>9, <2>1, StillKept
  <1>11. ASSUME cooldowns' = cooldowns \cup {w}
         PROVE  cooldowns' \in SUBSET Cooling /\ \A c : c.what = "ip" => (c \in cooldowns' <=> c \in cooldowns)
    BY <1>0, <1>8, <1>11
  <1>12. CASE cooldowns' = cooldowns \cup {w} /\ UNCHANGED <<rows, codes>>
    <2>1. Touched(rows, rows') BY <1>0, <1>12, TouchedSelf
    <2>2. Sound' /\ Promised BY <1>0, <1>6, <2>1, TouchKeeps
    <2>3. RowsFollow /\ (Len(rows) + 1)..Len(rows') = {} BY <1>0, <2>1, TouchFollows
    <2>4. RowsBacked' BY <1>0, <1>12, <2>3, StillBacked
    <2>. QED BY <1>4, <1>5, <1>6, <1>9, <1>11, <1>12, <2>2, <2>3, <2>4, QuietAccountKept
  <1>13. CASE /\ cooldowns' = cooldowns \cup {w} /\ Len(rows) < MaxRows /\ r.user # Nobody /\ users[r.user].email = r.key
              /\ rows' = Append(rows, Row("link", r.user, r.key, NextCode))
              /\ codes' = codes \cup {Challenge("link", r.key, r.user, NextCode, {})}
    <2>0. Len(rows) \in Nat BY <1>0
    <2>1. r.user \in Users /\ Exists(r.user) BY <1>0, <1>2, <1>13, Constants DEF Exists, AbsentBlank
    <2>2. PICK n \in Nat : n = NextCode /\ n = Len(rows) + 1 BY <2>0 DEF NextCode
    <2>3. PICK d : d = Challenge("link", r.key, r.user, n, {}) OBVIOUS
    <2>4. /\ d \in Code /\ d.kind = "link" /\ d.key = r.key /\ d.user = r.user /\ d.code = n /\ d.life = CodeLife
          /\ d.pw = users[r.user].pw /\ d.fails = 0 /\ d.lock = 0
      BY <1>2, <1>13, <2>3, ChallengeMade
    <2>5. PICK m : m = Row("link", r.user, r.key, n) OBVIOUS
    <2>6. m \in OutRow /\ Given(m) /\ m.kind = "link" /\ m.user = r.user /\ m.key = r.key /\ m.code = n
      <3>1. r.key \in Names /\ "link" \in Kinds BY <1>2 DEF Names, Kinds
      <3>. QED BY <1>2, <2>5, <3>1, RowMade
    <2>7. rows' = Append(rows, m) /\ codes' = codes \cup {d} BY <1>13, <2>2, <2>3, <2>5
    <2>8. /\ Sound' /\ Promised /\ RowsFollow /\ Len(rows') = Len(rows) + 1 /\ rows'[Len(rows) + 1] = m
          /\ (Len(rows) + 1)..Len(rows') = {Len(rows) + 1}
      <3>1. m.kind # "command" /\ m.kind # "reminder" BY <2>6
      <3>. QED BY <1>0, <1>6, <1>13, <2>6, <2>7, <3>1, AppendOne
    <2>9. CodeGood(d) BY <1>13, <2>1, <2>4 DEF CodeGood
    <2>10. GuessGood(d)' BY <1>0, <1>6, <2>4, NewGuess, Constants DEF Guessed
    <2>11. Issued(d) BY <2>0, <2>2, <2>4, <2>8, <2>10 DEF Issued, Guessed
    <2>12. RowsBacked'
      <3>1. SUFFICES ASSUME NEW i \in DOMAIN rows', rows'[i].kind \in {"reset", "link"}, Pending(rows'[i])
                     PROVE  \E c \in codes' : Backs(c, rows'[i])
        BY DEF RowsBacked
      <3>2. i \in 1..(Len(rows) + 1) BY <2>8 DEF RowsFollow
      <3>3. CASE i \in 1..Len(rows)
        <4>1. rows'[i] = rows[i] /\ i \in DOMAIN rows BY <1>0, <2>6, <2>7, <3>3
        <4>2. PICK c \in codes : Backs(c, rows[i]) BY <1>0, <3>1, <4>1 DEF RowsBacked
        <4>. QED BY <2>7, <4>1, <4>2
      <3>4. CASE i = Len(rows) + 1
        <4>1. Backs(d, rows'[i]) BY <2>4, <2>6, <2>8, <3>4 DEF Backs
        <4>. QED BY <2>7, <4>1
      <3>. QED BY <2>0, <3>2, <3>3, <3>4
    <2>13. \A c \in codes' : c \in codes \/ (Issued(c) /\ CodeGood(c)) BY <2>7, <2>9, <2>11
    <2>. QED BY <1>4, <1>5, <1>6, <1>9, <1>11, <1>13, <2>6, <2>8, <2>12, <2>13, QuietAccountKept
  <1>. QED BY <1>1, <1>7, <1>10, <1>12, <1>13 DEF RequestMailLoginLink

LEMMA ExchangeKept ==
    ASSUME PanelInv, ExchangeLoginLink
    PROVE  Kept
  <1>0. /\ users \in [Users -> Account] /\ codes \in SUBSET Code /\ CodesGood
        /\ rows \in Seq(OutRow) /\ Sound /\ CodesNumbered /\ RowsBacked /\ cooldowns \in SUBSET Cooling
    BY SoundInv DEF PanelInv, PanelTypes, OpensInv
  <1>1. UNCHANGED <<users, cooldowns, requests, invitations, wrong>> /\ UNCHANGED mailVars BY DEF ExchangeLoginLink
  <1>2. PICK c \in codes :
            /\ c.kind \in {"link", "quick"} /\ ~users[c.user].banned
            /\ codes' = codes \ {c}
            /\ rows' = Cancel(rows, OfCode("link", c.code))
            /\ creds' = creds \cup {[user |-> c.user, pw |-> c.pw,
                                     via |-> IF c.kind = "link" THEN "link" ELSE "session"]}
    BY DEF ExchangeLoginLink
  <1>3. CodeGood(c) /\ c \in Code BY <1>0 DEF CodesGood
  <1>4. c.user # Nobody /\ Exists(c.user) /\ c.user \in Users /\ c.pw \in Nat BY <1>2, <1>3 DEF CodeGood, Exists, Code
  <1>5. PICK via \in {"link", "session"} : via = IF c.kind = "link" THEN "link" ELSE "session" OBVIOUS
  <1>6. PICK k : k = [user |-> c.user, pw |-> c.pw, via |-> via] OBVIOUS
  <1>7. k \in Cred /\ creds' = creds \cup {k} BY <1>2, <1>4, <1>5, <1>6 DEF Cred
  <1>8. c.kind = "link" => c.pw = users[c.user].pw BY <1>3, <1>4 DEF CodeGood
  <1>9. CredGood(k) BY <1>2, <1>4, <1>5, <1>6, <1>8 DEF CredGood
  <1>10. \A d \in creds' : d \in creds \/ (d \in Cred /\ CredGood(d)) BY <1>7, <1>9
  <1>11. PICK gone : gone = OfCode("link", c.code) OBVIOUS
  <1>12. Touched(rows, rows') /\ \A i \in 1..Len(rows) : i \in gone => ~Pending(rows'[i])
    BY <1>0, <1>2, <1>11, CancelTouches
  <1>13. UNCHANGED <<jobs, updates, hooks, accScope>> /\ UNCHANGED <<invitations, wrong>> BY <1>1 DEF mailVars
  <1>14. Sound' /\ Promised BY <1>0, <1>12, <1>13, TouchKeeps
  <1>15. RowsFollow /\ Len(rows') = Len(rows) /\ (Len(rows) + 1)..Len(rows') = {} BY <1>0, <1>12, TouchFollows
  <1>16. RowsBacked'
    <2>1. SUFFICES ASSUME NEW i \in DOMAIN rows', rows'[i].kind \in {"reset", "link"}, Pending(rows'[i])
                   PROVE  \E d \in codes' : Backs(d, rows'[i])
      BY DEF RowsBacked
    <2>2. i \in 1..Len(rows) /\ i \in DOMAIN rows BY <1>0, <1>15 DEF RowsFollow
    <2>3. Follows(rows[i], rows'[i]) BY <2>2, <1>15 DEF RowsFollow
    <2>4. rows[i].kind \in {"reset", "link"} /\ Pending(rows[i]) BY <2>1, <2>3 DEF Follows, Identity
    <2>5. PICK d \in codes : Backs(d, rows[i]) BY <1>0, <2>2, <2>4 DEF RowsBacked
    <2>6. d # c
      <3>1. SUFFICES ASSUME d = c PROVE FALSE OBVIOUS
      <3>2. rows[i].kind = "link" /\ rows[i].code = c.code BY <1>2, <2>4, <2>5, <3>1 DEF Backs
      <3>3. i \in gone BY <1>11, <2>2, <3>2 DEF OfCode
      <3>. QED BY <1>12, <2>1, <2>2, <3>3
    <2>7. Backs(d, rows'[i]) BY <2>3, <2>5 DEF Follows, Identity, Backs
    <2>. QED BY <1>2, <2>5, <2>6, <2>7
  <1>17. users' \in [Users -> Account] /\ UsersQuiet /\ \A u \in Users : users'[u].fresh = users[u].fresh
    BY <1>0, <1>1 DEF UsersQuiet, SameAccount
  <1>18. Handled /\ cooldowns' \in SUBSET Cooling BY <1>0, <1>1 DEF Handled
  <1>19. \A d \in codes' : d \in codes BY <1>2
  <1>20. \A d : d.what = "ip" => (d \in cooldowns' <=> d \in cooldowns) BY <1>1
  <1>. QED BY <1>10, <1>13, <1>14, <1>15, <1>16, <1>17, <1>18, <1>19, <1>20, QuietAccountKept

-----------------------------------------------------------------------------
(* A wrong guess. *)
Guessing(c) == [c EXCEPT !.fails = IF @ < MaxGuesses THEN @ + 1 ELSE @,
                         !.lock = IF c.fails = 0 THEN FailureWindow ELSE @]

LEMMA GuessingCode ==
    ASSUME NEW c \in Code, Open(c), GuessGood(c)
    PROVE  /\ Guessing(c) \in Code /\ SameCode(c, Guessing(c)) /\ Guessing(c).life = c.life
           /\ Guessing(c).fails = c.fails + 1 /\ c.fails < MaxGuesses
           /\ Guessing(c).lock = IF c.fails = 0 THEN FailureWindow ELSE c.lock
  <1>1. c.fails \in Nat /\ c.lock \in Nat /\ MaxGuesses \in Nat /\ MaxGuesses > 0 /\ FailureWindow \in Nat
    BY Constants DEF Code
  <1>2. c.fails < MaxGuesses BY <1>1 DEF Open, Locked, GuessGood
  <1>3. PICK f \in Nat, k \in Nat : f = c.fails + 1 /\ k = IF c.fails = 0 THEN FailureWindow ELSE c.lock BY <1>1
  <1>4. Guessing(c) = [c EXCEPT !.fails = f, !.lock = k] BY <1>2, <1>3 DEF Guessing, Code
  <1>5. Guessing(c) = [kind |-> c.kind, key |-> c.key, user |-> c.user, code |-> c.code, life |-> c.life,
                       resend |-> c.resend, pw |-> c.pw, fails |-> f, lock |-> k]
    BY <1>4 DEF Code
  <1>. QED BY <1>1, <1>2, <1>3, <1>5 DEF Code, SameCode

LEMMA GuessingGood ==
    ASSUME NEW c \in Code, Open(c), GuessGood(c), NEW d, d = Guessing(c), NEW v \in Nat, NEW w \in Nat,
           c.kind \in Guessed /\ c.code # 0 => v = wrong[c.code] /\ w = v + 1 /\ w = wrong'[c.code]
    PROVE  GuessGood(d)' /\ (c.kind \in Guessed /\ c.code # 0 => w < 2 * MaxGuesses)
  <1>1. /\ c.fails \in Nat /\ c.lock \in Nat /\ c.life \in Nat /\ MaxGuesses \in Nat /\ MaxGuesses > 0
        /\ FailureWindow \in Nat /\ CodeLife \in Nat /\ CodeLife > 0 /\ FailureWindow >= CodeLife
    BY Constants DEF Code
  <1>2. /\ d.kind = c.kind /\ d.code = c.code /\ d.life = c.life /\ d.fails = c.fails + 1 /\ c.fails < MaxGuesses
        /\ d.lock = IF c.fails = 0 THEN FailureWindow ELSE c.lock
    BY GuessingCode DEF SameCode
  <1>3. c.life > 0 /\ c.life <= CodeLife BY DEF Open, GuessGood
  <1>4. d.fails <= MaxGuesses /\ d.life <= CodeLife /\ (d.fails = 0 <=> d.lock = 0)
    BY <1>1, <1>2, <1>3 DEF GuessGood
  <1>5. ASSUME c.kind \in Guessed, c.code # 0 PROVE w <= Bound(d) /\ w < 2 * MaxGuesses
    <2>1. v <= Bound(c) /\ w = v + 1 BY <1>3, <1>5 DEF GuessGood
    <2>2. CASE c.fails = 0
      <3>1. v <= MaxGuesses - 1 BY <2>1, <2>2 DEF Bound
      <3>2. d.fails = 1 /\ ~(d.lock < d.life) BY <1>1, <1>2, <1>3, <2>2
      <3>3. Bound(d) = MaxGuesses - 1 + 1 BY <3>2 DEF Bound
      <3>. QED BY <1>1, <2>1, <3>1, <3>3
    <2>3. CASE c.fails > 0 /\ c.lock < c.life
      <3>1. v <= c.fails - 1 BY <2>1, <2>3, <1>1 DEF Bound
      <3>2. d.fails = c.fails + 1 /\ d.lock < d.life /\ d.fails > 0 BY <1>1, <1>2, <2>3
      <3>3. Bound(d) = d.fails - 1 BY <3>2, <1>1 DEF Bound
      <3>. QED BY <1>1, <1>2, <2>1, <3>1, <3>2, <3>3
    <2>4. CASE c.fails > 0 /\ ~(c.lock < c.life)
      <3>1. v <= MaxGuesses - 1 + c.fails BY <2>1, <2>4, <1>1 DEF Bound
      <3>2. d.fails = c.fails + 1 /\ ~(d.lock < d.life) /\ d.fails > 0 BY <1>1, <1>2, <2>4
      <3>3. Bound(d) = MaxGuesses - 1 + d.fails BY <3>2, <1>1 DEF Bound
      <3>. QED BY <1>1, <1>2, <2>1, <3>1, <3>2, <3>3
    <2>. QED BY <1>1, <2>2, <2>3, <2>4
  <1>. QED BY <1>2, <1>4, <1>5 DEF GuessGood, Bound

LEMMA MissKept ==
    ASSUME PanelInv, NEW c \in codes, c.kind \in Guessed, Open(c), Miss(c),
           UNCHANGED <<users, rows, cooldowns, creds, requests, invitations>>, UNCHANGED mailVars
    PROVE  Kept
  <1>0. /\ AbsentBlank /\ CredsGood /\ CodesGood /\ RowsBacked /\ RequestsGood
        /\ InvitesSpent /\ ProofsSpent /\ SourceCounted /\ CodesNumbered /\ CodesApart /\ GuessesCounted
        /\ Answered /\ HooksGood /\ PanelTypes /\ Sound
    BY SoundInv DEF PanelInv, OpensInv, AdmitsInv, OutboxInv
  <1>t. /\ users \in [Users -> Account] /\ codes \in SUBSET Code /\ rows \in Seq(OutRow) /\ wrong \in [1..MaxRows -> Nat]
    BY <1>0 DEF PanelTypes
  <1>n. Len(rows) \in Nat /\ Len(rows) <= MaxRows /\ MaxRows \in Nat BY <1>0, <1>t, Constants DEF CodesNumbered
  <1>1. PICK d : d = Guessing(c) OBVIOUS
  <1>2. codes' = (codes \ {c}) \cup {d} BY <1>1 DEF Miss, Guessing
  <1>3. c \in Code /\ GuessGood(c) BY <1>0, <1>t DEF GuessesCounted
  <1>4. d \in Code /\ SameCode(c, d) BY <1>1, <1>3, GuessingCode
  <1>5. CodesFollow /\ codes' \in SUBSET Code BY <1>2, <1>4, <1>t DEF CodesFollow, SameCode
  <1>6. c.code \in Nat /\ c.code <= Len(rows) BY <1>0, <1>3 DEF CodesNumbered, Code
  <1>7. c.code # 0 => c.code \in 1..MaxRows BY <1>6, <1>n
  <1>8. /\ wrong' \in [1..MaxRows -> Nat]
        /\ c.code # 0 => wrong'[c.code] = wrong[c.code] + 1
        /\ \A i \in 1..MaxRows : i # c.code => wrong'[i] = wrong[i]
    <2>1. CASE c.code = 0
      <3>1. wrong' = wrong BY <2>1 DEF Miss
      <3>. QED BY <2>1, <3>1, <1>t
    <2>2. CASE c.code # 0
      <3>1. wrong[c.code] \in Nat BY <1>7, <1>t, <2>2
      <3>2. PICK w \in Nat : w = wrong[c.code] + 1 BY <3>1
      <3>3. wrong' = [wrong EXCEPT ![c.code] = w] BY <2>2, <3>2 DEF Miss
      <3>. QED BY <1>7, <1>t, <2>2, <3>2, <3>3
    <2>. QED BY <2>1, <2>2
  <1>9. GuessGood(d)' /\ (c.code # 0 => wrong'[c.code] < 2 * MaxGuesses)
    <2>1. CASE c.code = 0
      <3>1. c.kind \in Guessed /\ c.code # 0 => 0 = wrong[c.code] /\ 0 = 0 + 1 /\ 0 = wrong'[c.code] BY <2>1
      <3>2. 0 \in Nat OBVIOUS
      <3>. QED BY <1>1, <1>3, <2>1, <3>1, <3>2, GuessingGood
    <2>2. CASE c.code # 0
      <3>1. PICK v \in Nat, w \in Nat : v = wrong[c.code] /\ w = v + 1 /\ w = wrong'[c.code] BY <1>7, <1>8, <1>t, <2>2
      <3>. QED BY <1>1, <1>3, <2>2, <3>1, GuessingGood
    <2>. QED BY <2>1, <2>2
  <1>10. ASSUME NEW x \in codes', x # d PROVE GuessGood(x)'
    <2>1. x \in codes /\ x # c BY <1>2, <1>10
    <2>2. GuessGood(x) BY <1>0, <2>1 DEF GuessesCounted
    <2>3. ASSUME x.kind \in Guessed, x.code # 0 PROVE wrong'[x.code] = wrong[x.code]
      <3>1. x.code \in Nat /\ x.code <= Len(rows) BY <1>0, <1>t, <2>1 DEF CodesNumbered, Code
      <3>2. x.code \in 1..MaxRows BY <1>n, <2>3, <3>1
      <3>3. x.code # c.code
        <4>1. SUFFICES ASSUME x.code = c.code PROVE FALSE OBVIOUS
        <4>2. x.kind = c.kind /\ x.key = c.key BY <1>0, <2>1, <2>3, <4>1 DEF CodesNumbered
        <4>. QED BY <1>0, <2>1, <4>2 DEF CodesApart
      <3>. QED BY <1>8, <3>2, <3>3
    <2>. QED BY <2>2, <2>3 DEF GuessGood, Bound
  <1>11. GuessesCounted'
    <2>1. ASSUME NEW i \in 1..MaxRows PROVE wrong'[i] < 2 * MaxGuesses /\ (i > Len(rows') => wrong'[i] = 0)
      <3>1. CASE i = c.code BY <1>6, <1>9, <1>n, <3>1
      <3>2. CASE i # c.code BY <1>0, <1>8, <3>2 DEF GuessesCounted
      <3>. QED BY <3>1, <3>2
    <2>. QED BY <1>9, <1>10, <2>1 DEF GuessesCounted
  <1>12. CodesApart'
    <2>1. SUFFICES ASSUME NEW x \in codes', NEW y \in codes', x.kind \in Guessed, x.kind = y.kind, x.key = y.key
                   PROVE  x = y
      BY DEF CodesApart
    <2>. QED BY <1>0, <1>2, <1>4, <2>1 DEF CodesApart, SameCode
  <1>13. RowsBacked'
    <2>1. SUFFICES ASSUME NEW i \in DOMAIN rows', rows'[i].kind \in {"reset", "link"}, Pending(rows'[i])
                   PROVE  \E x \in codes' : Backs(x, rows'[i])
      BY DEF RowsBacked
    <2>2. PICK x \in codes : Backs(x, rows[i]) BY <1>0, <2>1 DEF RowsBacked
    <2>3. CASE x = c
      <3>1. Backs(d, rows'[i]) BY <1>4, <2>2, <2>3 DEF Backs, SameCode
      <3>. QED BY <1>2, <3>1
    <2>4. CASE x # c BY <1>2, <2>2, <2>4
    <2>. QED BY <2>3, <2>4
  <1>14. UNCHANGED <<jobs, updates, hooks, accScope>> /\ UNCHANGED <<creds, requests>> BY DEF mailVars
  <1>15. Touched(rows, rows') BY <1>t, TouchedSelf
  <1>16. Sound' /\ Promised BY <1>0, <1>14, <1>15, TouchKeeps
  <1>17. RowsFollow /\ (Len(rows) + 1)..Len(rows') = {} BY <1>0, <1>15, TouchFollows
  <1>18. UsersQuiet /\ AdmissionsQuiet BY DEF UsersQuiet, SameAccount, AdmissionsQuiet
  <1>19. AbsentBlank' /\ CredsGood' /\ CodesGood' /\ RequestsGood' BY <1>0, <1>5, <1>14, <1>18, QuietOpens
  <1>20. InvitesSpent' /\ ProofsSpent' BY <1>0, <1>t, <1>5, <1>17, <1>18, SpentFollow
  <1>21. CodesNumbered' BY <1>0, <1>5, <1>17, NumbersFollow
  <1>22. SourceCounted' BY <1>0, StillSource
  <1>23. Answered' BY <1>0, <1>14, <1>17, StillAnswered
  <1>24. HooksGood' BY <1>0, <1>14 DEF HooksGood
  <1>25. PanelTypes' BY <1>0, <1>5, <1>8, <1>14 DEF PanelTypes
  <1>26. PanelInv' BY <1>11, <1>12, <1>13, <1>16, <1>19, <1>20, <1>21, <1>22, <1>23, <1>24, <1>25
                   DEF PanelInv, OpensInv, AdmitsInv, OutboxInv, Sound
  <1>. QED BY <1>16, <1>26 DEF Kept

LEMMA CheckResetKept ==
    ASSUME PanelInv, NEW h \in Handlers, NEW address \in Addresses, CheckPasswordResetChallenge(h, address)
    PROVE  Kept
  <1>0. users \in [Users -> Account] /\ codes \in SUBSET Code /\ CodesGood BY DEF PanelInv, PanelTypes, OpensInv
  <1>1. UNCHANGED <<users, rows, cooldowns, creds, invitations>> /\ UNCHANGED mailVars BY DEF CheckPasswordResetChallenge
  <1>2. PICK c \in Standing("reset", address), code \in Known("reset", address) :
            /\ Open(c)
            /\ IF code = c.code /\ code # 0
               THEN /\ Begin(h, [NoRequest EXCEPT !.op = "reset", !.user = c.user, !.key = address, !.code = code,
                                                  !.pw = users[c.user].pw, !.old = users[c.user].old])
                    /\ UNCHANGED <<codes, wrong>>
               ELSE Miss(c) /\ UNCHANGED requests
    BY DEF CheckPasswordResetChallenge
  <1>3. c \in codes /\ c.kind = "reset" /\ c \in Code /\ CodeGood(c) BY <1>0 DEF Standing, CodesGood
  <1>4. CASE code = c.code /\ code # 0
    <2>1. c.user # Nobody /\ Exists(c.user) /\ c.user \in Users /\ c.code \in Nat
      BY <1>3, <1>4 DEF CodeGood, Exists, Code
    <2>2. users[c.user] \in Account BY <1>0, <2>1
    <2>3. users[c.user].pw \in Nat /\ users[c.user].old \in BOOLEAN BY <2>2 DEF Account
    <2>4. PICK r : r = [NoRequest EXCEPT !.op = "reset", !.user = c.user, !.key = address, !.code = code,
                                         !.pw = users[c.user].pw, !.old = users[c.user].old]
      OBVIOUS
    <2>5. Begin(h, r) /\ UNCHANGED <<codes, wrong>> BY <1>2, <1>4, <2>4
    <2>6. r \in Asked /\ r.op = "reset" /\ r.user = c.user /\ r.key = address
      BY <1>4, <2>1, <2>3, <2>4, NoRequestGood DEF Asked
    <2>7. RequestGood(r) BY <2>1, <2>6 DEF RequestGood
    <2>8. UNCHANGED <<users, rows, codes, cooldowns, creds, invitations, wrong>> BY <1>1, <2>5
    <2>. QED BY <1>1, <2>5, <2>6, <2>7, <2>8, AskKept
  <1>5. CASE ~(code = c.code /\ code # 0)
    <2>1. Miss(c) /\ Open(c) /\ c.kind \in Guessed BY <1>2, <1>3, <1>5 DEF Guessed
    <2>2. UNCHANGED <<users, rows, cooldowns, creds, requests, invitations>> BY <1>1, <1>2, <1>5
    <2>. QED BY <1>1, <1>3, <2>1, <2>2, MissKept
  <1>. QED BY <1>4, <1>5

LEMMA RegisterAsked ==
    ASSUME PanelInv, NEW h \in Handlers, NEW address \in Addresses, registerAccount(h, address)
    PROVE  Kept
  <1>0. codes \in SUBSET Code /\ invitations \in SUBSET Invitations BY DEF PanelInv, PanelTypes
  <1>1. UNCHANGED <<users, rows, cooldowns, creds, invitations>> /\ UNCHANGED mailVars BY DEF registerAccount
  <1>2. ASSUME NEW i \in invitations \cup {Nobody}, NEW code \in Nat, UNCHANGED <<codes, wrong>>, NEW r, Begin(h, r),
               \/ r = [NoRequest EXCEPT !.op = "register", !.user = i, !.key = address, !.code = code]
               \/ r = [NoRequest EXCEPT !.op = "register", !.user = i, !.key = address]
        PROVE  Kept
    <2>1. i \in Invitations \cup {Nobody} BY <1>0
    <2>2. r \in Asked /\ r.op = "register" /\ r.user = i /\ r.key = address
      <3>1. CASE r = [NoRequest EXCEPT !.op = "register", !.user = i, !.key = address, !.code = code]
        BY <2>1, <3>1, NoRequestGood DEF Asked
      <3>2. CASE r = [NoRequest EXCEPT !.op = "register", !.user = i, !.key = address]
        BY <2>1, <3>2, NoRequestGood DEF Asked
      <3>. QED BY <1>2, <3>1, <3>2
    <2>3. RequestGood(r) BY <2>1, <2>2 DEF RequestGood
    <2>4. UNCHANGED <<users, rows, codes, cooldowns, creds, invitations, wrong>> BY <1>1, <1>2
    <2>. QED BY <1>1, <1>2, <2>2, <2>3, <2>4, AskKept
  <1>3. ASSUME NEW i \in invitations \cup {Nobody}, NEW code, CheckRegistrationEmailVerification(h, address, i, code)
        PROVE  Kept
    <2>1. PICK c \in Standing("registration", address) :
            /\ Open(c)
            /\ IF code = c.code /\ code # 0
               THEN /\ Begin(h, [NoRequest EXCEPT !.op = "register", !.user = i, !.key = address, !.code = code])
                    /\ UNCHANGED <<codes, wrong>>
               ELSE Miss(c) /\ UNCHANGED requests
      BY <1>3 DEF CheckRegistrationEmailVerification
    <2>2. c \in codes /\ c.kind \in Guessed /\ c \in Code BY <1>0 DEF Standing, Guessed
    <2>3. CASE code = c.code /\ code # 0
      <3>1. code \in Nat BY <2>2, <2>3 DEF Code
      <3>. QED BY <1>2, <2>1, <2>3, <3>1
    <2>4. CASE ~(code = c.code /\ code # 0)
      <3>1. Miss(c) /\ Open(c) BY <2>1, <2>4
      <3>2. UNCHANGED <<users, rows, cooldowns, creds, requests, invitations>> BY <1>1, <2>1, <2>4
      <3>. QED BY <1>1, <2>2, <3>1, <3>2, MissKept
    <2>. QED BY <2>3, <2>4
  <1>4. ASSUME NEW i \in invitations \cup {Nobody}, UNCHANGED <<codes, wrong>>,
               Begin(h, [NoRequest EXCEPT !.op = "register", !.user = i, !.key = address])
        PROVE  Kept
    <2>1. 0 \in Nat OBVIOUS
    <2>. QED BY <1>2, <1>4, <2>1
  <1>. QED BY <1>3, <1>4 DEF registerAccount

-----------------------------------------------------------------------------
(* A registration. *)
LEMMA CounterCovers ==
    ASSUME PanelInv
    PROVE  /\ readRegistrationIPCounter \in Nat /\ Cardinality(Newcomers) \in Nat /\ IsFiniteSet(Newcomers)
           /\ Cardinality(Newcomers) <= readRegistrationIPCounter
           /\ \A u \in Newcomers : users[u].fresh <= IPWindow
  <1> DEFINE seen == {c \in cooldowns : c.what = "ip"}
  <1>0. SourceCounted /\ users \in [Users -> Account] BY DEF PanelInv, AdmitsInv, PanelTypes
  <1>1. Newcomers \in SUBSET Users /\ IsFiniteSet(Users) BY OutboxConstants DEF Newcomers
  <1>2. IsFiniteSet(Newcomers) /\ Cardinality(Newcomers) \in Nat BY <1>1, FS_Subset, FS_CardinalityType
  <1>3. CASE seen = {}
    <2>1. readRegistrationIPCounter = 0 BY <1>3 DEF readRegistrationIPCounter
    <2>2. Newcomers = {} BY <1>0, <1>3 DEF SourceCounted
    <2>3. Cardinality(Newcomers) = 0 BY <2>2, FS_EmptySet
    <2>. QED BY <1>2, <2>1, <2>2, <2>3
  <1>4. CASE seen # {}
    <2>1. PICK c : c = CHOOSE x \in seen : TRUE OBVIOUS
    <2>2. c \in seen BY <1>4, <2>1
    <2>3. readRegistrationIPCounter = c.key BY <1>4, <2>1 DEF readRegistrationIPCounter
    <2>4. /\ c.key \in Nat /\ c.left \in 1..IPWindow /\ Cardinality(Newcomers) <= c.key
          /\ \A u \in Newcomers : users[u].fresh <= c.left
      BY <1>0, <2>2 DEF SourceCounted
    <2>5. ASSUME NEW u \in Newcomers PROVE users[u].fresh <= IPWindow
      <3>1. users[u].fresh \in Nat BY <1>0, <1>1 DEF Account
      <3>. QED BY <2>4, <3>1, Constants
    <2>. QED BY <1>2, <2>3, <2>4, <2>5
  <1>. QED BY <1>3, <1>4

LEMMA RegisterKept ==
    ASSUME PanelInv, NEW h \in Handlers, registerUser(h)
    PROVE  Kept
  <1>0. /\ AbsentBlank /\ CredsGood /\ CodesGood /\ RowsBacked /\ RequestsGood
        /\ InvitesSpent /\ ProofsSpent /\ SourceCounted /\ CodesNumbered /\ CodesApart /\ GuessesCounted
        /\ Answered /\ HooksGood /\ PanelTypes /\ Sound
    BY SoundInv DEF PanelInv, OpensInv, AdmitsInv, OutboxInv
  <1>t. /\ users \in [Users -> Account] /\ codes \in SUBSET Code /\ rows \in Seq(OutRow) /\ creds \in SUBSET Cred
        /\ requests \in [Handlers -> Asked] /\ cooldowns \in SUBSET Cooling /\ invitations \in SUBSET Invitations
    BY <1>0 DEF PanelTypes
  <1>1. PICK r : r = requests[h] OBVIOUS
  <1>2. r \in Asked /\ r.op = "register" /\ r.user \in Invitations \cup {Nobody} /\ r.key \in Addresses /\ r.code \in Nat
    BY <1>0, <1>1, <1>t DEF registerUser, RequestsGood, RequestGood, Asked
  <1>3. Handled BY FinishHandled DEF registerUser
  <1>4. UNCHANGED wrong /\ UNCHANGED mailVars BY DEF registerUser
  <1>5. CASE ~Admitted(r)
    <2>1. UNCHANGED <<users, creds, codes, rows>> /\ UNCHANGED <<cooldowns, invitations, wrong>>
      BY <1>1, <1>4, <1>5 DEF registerUser
    <2>. QED BY <1>3, <1>4, <2>1, NothingKept
  <1>6. CASE Admitted(r)
    <2>1. PICK verified \in BOOLEAN : verified <=> "verify" \in switches
      <3>1. CASE "verify" \in switches BY <3>1
      <3>2. CASE "verify" \notin switches BY <3>2
      <3>. QED BY <3>1, <3>2
    <2>2. PICK inv : inv = resolveInvitationCodeTx(r) OBVIOUS
    <2>3. PICK p \in Nat : p = IF verified THEN r.code ELSE 0 BY <1>2
    <2>4. PICK u \in Users :
            /\ users[u].life = "absent"
            /\ users' = [users EXCEPT ![u] =
                    [Absent EXCEPT !.email = r.key, !.pw = 1, !.life = "active", !.fresh = IPWindow,
                                   !.invite = inv, !.proof = p]]
            /\ creds' = creds \cup {[user |-> u, pw |-> 1, via |-> "registration"]}
            /\ cooldowns' = {c \in cooldowns : c.what # "ip"}
                    \cup {[what |-> "ip", key |-> readRegistrationIPCounter + 1, left |-> IPWindow]}
            /\ IF verified THEN consumeRegistrationEmailChallengeTx(r) ELSE UNCHANGED <<codes, rows>>
            /\ invitations' = invitations \ {r.user}
      BY <1>1, <1>6, <2>1, <2>2, <2>3 DEF registerUser
    <2>5. inv = (IF r.user \in invitations THEN r.user ELSE Nobody) /\ inv \in invitations \cup {Nobody}
      BY <2>2 DEF resolveInvitationCodeTx
    <2>6. PICK a : a = [Absent EXCEPT !.email = r.key, !.pw = 1, !.life = "active", !.fresh = IPWindow,
                                      !.invite = inv, !.proof = p]
      OBVIOUS
    <2>7. /\ a \in Account /\ a.pw = 1 /\ a.life = "active" /\ a.fresh = IPWindow /\ a.invite = inv /\ a.proof = p
          /\ ~a.banned
      <3>1. Absent \in Account /\ Absent.banned = FALSE BY DEF Absent, Account
      <3>2. inv \in Invitations \cup {Nobody} BY <1>t, <2>5
      <3>. QED BY <1>2, <2>6, <3>1, <3>2, Constants DEF Account
    <2>8. users' \in [Users -> Account] /\ users'[u] = a /\ \A v \in Users : v # u => users'[v] = users[v]
      <3>1. users' = [users EXCEPT ![u] = a] BY <2>4, <2>6
      <3>. QED BY <1>t, <2>7, <3>1
    <2>9. \A v : Exists(v) => v # u /\ v \in Users /\ users'[v] = users[v] BY <2>4, <2>8 DEF Exists
    <2>10. Exists(u)' /\ \A v : Exists(v) => Exists(v)' BY <2>7, <2>8, <2>9 DEF Exists
    (* the tables *)
    <2>11. /\ Touched(rows, rows') /\ codes' \in SUBSET codes
           /\ \A c \in codes : c.kind # "registration" => c \in codes'
           /\ verified => \A c \in codes' : ~(c.kind = "registration" /\ c.key = r.key)
      <3>1. CASE verified
        <4>1. codes' = codes \ Standing("registration", r.key) /\ rows' = Cancel(rows, OfKey("registration", r.key))
          BY <2>4, <3>1 DEF consumeRegistrationEmailChallengeTx
        <4>2. Touched(rows, rows') BY <1>t, <4>1, CancelTouches
        <4>. QED BY <4>1, <4>2 DEF Standing
      <3>2. CASE ~verified
        <4>1. UNCHANGED <<codes, rows>> BY <2>4, <3>2
        <4>2. Touched(rows, rows') BY <1>t, <4>1, TouchedSelf
        <4>. QED BY <3>2, <4>1, <4>2
      <3>. QED BY <3>1, <3>2
    <2>12. UNCHANGED <<jobs, updates, hooks, accScope>> BY <1>4 DEF mailVars
    <2>13. Sound' /\ Promised BY <1>0, <2>11, <2>12, TouchKeeps
    <2>14. RowsFollow /\ Len(rows') = Len(rows) /\ (Len(rows) + 1)..Len(rows') = {} BY <1>0, <2>11, TouchFollows
    <2>15. CodesFollow /\ CodesApart' /\ \A c \in codes' : GuessGood(c)' BY <1>0, <1>t, <1>4, <2>11, FewerCodes
    <2>16. CodesNumbered' BY <1>0, <2>14, <2>15, NumbersFollow
    <2>17. GuessesCounted' BY <1>0, <1>4, <2>14, <2>15 DEF GuessesCounted
    (* what opens the accounts *)
    <2>18. AbsentBlank' BY <1>0, <2>7, <2>8 DEF AbsentBlank
    <2>19. PICK k : k = [user |-> u, pw |-> 1, via |-> "registration"] OBVIOUS
    <2>20. k \in Cred /\ k.user = u /\ k.pw = 1 /\ creds' = creds \cup {k} BY <2>4, <2>19 DEF Cred
    <2>21. CredsGood'
      <3>1. ASSUME NEW c \in creds' PROVE CredGood(c)'
        <4>1. CASE c \in creds
          <5>1. CredGood(c) BY <1>0, <4>1 DEF CredsGood
          <5>2. Exists(c.user) /\ Exists(c.user)' /\ users'[c.user] = users[c.user] BY <2>9, <2>10, <5>1 DEF CredGood
          <5>. QED BY <5>1, <5>2 DEF CredGood
        <4>2. CASE c = k BY <2>7, <2>8, <2>10, <2>20, <4>2 DEF CredGood
        <4>. QED BY <2>20, <4>1, <4>2
      <3>. QED BY <3>1 DEF CredsGood
    <2>22. CodesGood'
      <3>1. ASSUME NEW c \in codes' PROVE CodeGood(c)'
        <4>1. CodeGood(c) BY <1>0, <2>11 DEF CodesGood
        <4>2. c.kind # "registration" /\ c.user # Nobody => Exists(c.user)' /\ users'[c.user] = users[c.user]
          BY <2>9, <2>10, <4>1 DEF CodeGood
        <4>. QED BY <4>1, <4>2 DEF CodeGood
      <3>. QED BY <3>1 DEF CodesGood
    <2>23. RowsBacked'
      <3>1. SUFFICES ASSUME NEW i \in DOMAIN rows', rows'[i].kind \in {"reset", "link"}, Pending(rows'[i])
                     PROVE  \E c \in codes' : Backs(c, rows'[i])
        BY DEF RowsBacked
      <3>2. i \in 1..Len(rows) /\ i \in DOMAIN rows BY <1>t, <2>14 DEF RowsFollow
      <3>3. Follows(rows[i], rows'[i]) BY <3>2, <2>14 DEF RowsFollow
      <3>4. rows[i].kind \in {"reset", "link"} /\ Pending(rows[i]) BY <3>1, <3>3 DEF Follows, Identity
      <3>5. PICK c \in codes : Backs(c, rows[i]) BY <1>0, <3>2, <3>4 DEF RowsBacked
      <3>6. c \in codes' BY <2>11, <3>4, <3>5 DEF Backs
      <3>7. Backs(c, rows'[i]) BY <3>3, <3>5 DEF Follows, Identity, Backs
      <3>. QED BY <3>6, <3>7
    <2>24. requests' \in [Handlers -> Asked] /\ RequestsGood' BY <1>0, <1>t, <1>3, <2>10, HandledGood
    (* the admission *)
    <2>25. InvitesSpent'
      <3>1. \A v \in Users : users[v].invite \notin invitations BY <1>0 DEF InvitesSpent
      <3>2. inv \notin invitations' BY <1>t, <2>4, <2>5, Constants
      <3>3. \A v \in Users : users'[v].invite \notin invitations' BY <2>4, <2>7, <2>8, <3>1, <3>2
      <3>4. \A v \in Users : users[v].invite = inv => inv = Nobody BY <2>5, <3>1
      <3>5. ASSUME NEW v \in Users, NEW w \in Users, v # w, users'[v].invite = users'[w].invite
            PROVE  users'[v].invite = Nobody
        <4>1. CASE v = u BY <2>7, <2>8, <3>4, <3>5, <4>1
        <4>2. CASE w = u BY <2>7, <2>8, <3>4, <3>5, <4>2
        <4>3. CASE v # u /\ w # u BY <1>0, <2>8, <3>5, <4>3 DEF InvitesSpent
        <4>. QED BY <4>1, <4>2, <4>3
      <3>. QED BY <3>3, <3>5 DEF InvitesSpent
    <2>26. ASSUME verified
           PROVE  \E c \in codes : c.kind = "registration" /\ c.key = r.key /\ c.code = p /\ p # 0 /\ p <= Len(rows)
      <3>1. validateRegistrationEmailChallengeTx(r) /\ p = r.code BY <1>6, <2>1, <2>3, <2>26 DEF Admitted
      <3>2. PICK c \in Standing("registration", r.key) : c.code = r.code /\ r.code # 0
        BY <3>1 DEF validateRegistrationEmailChallengeTx
      <3>. QED BY <1>0, <3>1, <3>2 DEF Standing, CodesNumbered
    <2>27. ProofsSpent'
      <3>0. Len(rows) \in Nat BY <1>t
      <3>1. p <= Len(rows) BY <2>3, <2>26, <3>0
      <3>2. \A v \in Users : users'[v].proof <= Len(rows') BY <1>0, <2>7, <2>8, <2>14, <3>1 DEF ProofsSpent
      <3>3. ASSUME NEW v \in Users, NEW d \in codes', d.kind = "registration", users'[v].proof = d.code PROVE d.code = 0
        <4>0. d \in codes BY <2>11
        <4>1. CASE v # u BY <1>0, <2>8, <3>3, <4>0, <4>1 DEF ProofsSpent
        <4>2. CASE v = u /\ ~verified BY <2>3, <2>7, <2>8, <3>3, <4>2
        <4>3. CASE v = u /\ verified
          <5>1. PICK c \in codes : c.kind = "registration" /\ c.key = r.key /\ c.code = p /\ p # 0 BY <2>26, <4>3
          <5>2. d.code = p BY <2>7, <2>8, <3>3, <4>3
          <5>3. d.key = c.key
            <6>1. rows[p].key = c.key BY <1>0, <5>1 DEF CodesNumbered, Guessed
            <6>2. rows[p].key = d.key BY <1>0, <3>3, <4>0, <5>1, <5>2 DEF CodesNumbered, Guessed
            <6>. QED BY <6>1, <6>2
          <5>. QED BY <2>11, <3>3, <4>3, <5>1, <5>3
        <4>. QED BY <4>1, <4>2, <4>3
      <3>4. ASSUME NEW v \in Users, users[v].proof = p PROVE p = 0
        <4>1. CASE ~verified BY <2>3, <4>1
        <4>2. CASE verified
          <5>1. PICK c \in codes : c.kind = "registration" /\ c.code = p /\ p # 0 BY <2>26, <4>2
          <5>. QED BY <1>0, <3>4, <5>1 DEF ProofsSpent
        <4>. QED BY <4>1, <4>2
      <3>5. ASSUME NEW v \in Users, NEW w \in Users, v # w, users'[v].proof = users'[w].proof
            PROVE  users'[v].proof = 0
        <4>1. CASE v = u BY <2>7, <2>8, <3>4, <3>5, <4>1
        <4>2. CASE w = u BY <2>7, <2>8, <3>4, <3>5, <4>2
        <4>3. CASE v # u /\ w # u BY <1>0, <2>8, <3>5, <4>3 DEF ProofsSpent
        <4>. QED BY <4>1, <4>2, <4>3
      <3>. QED BY <3>2, <3>3, <3>5 DEF ProofsSpent
    <2>28. PICK n \in Nat : n = readRegistrationIPCounter + 1 BY CounterCovers
    <2>29. PICK m : m = [what |-> "ip", key |-> n, left |-> IPWindow] OBVIOUS
    <2>30. m \in Cooling /\ m.what = "ip" /\ m.key = n /\ m.left = IPWindow BY <2>29, Constants DEF Cooling
    <2>31. cooldowns' = {c \in cooldowns : c.what # "ip"} \cup {m} BY <2>4, <2>28, <2>29
    <2>32. cooldowns' \in SUBSET Cooling BY <1>t, <2>30, <2>31
    <2>33. SourceCounted'
      <3>1. Newcomers' = Newcomers \cup {u}
        <4>1. \A v \in Users : v # u => (users'[v].fresh > 0 <=> users[v].fresh > 0) BY <2>8
        <4>2. users'[u].fresh > 0 BY <2>7, <2>8, Constants
        <4>. QED BY <4>1, <4>2 DEF Newcomers
      <3>2. Cardinality(Newcomers') \in Nat /\ Cardinality(Newcomers') <= n
        <4>1. IsFiniteSet(Newcomers) /\ Cardinality(Newcomers) \in Nat /\ Cardinality(Newcomers) + 1 <= n
          BY <2>28, CounterCovers
        <4>2. /\ IsFiniteSet(Newcomers \cup {u})
              /\ Cardinality(Newcomers \cup {u}) \in {Cardinality(Newcomers), Cardinality(Newcomers) + 1}
          BY <4>1, FS_AddElement
        <4>. QED BY <3>1, <4>1, <4>2
      <3>3. n <= IPLimit BY <1>6, <2>28, CounterCovers, Constants DEF Admitted, Limited
      <3>4. \A c \in cooldowns' : c.what = "ip" => c = m BY <2>31
      <3>5. IPWindow \in 1..IPWindow BY Constants
      <3>6. ASSUME NEW v \in Newcomers' PROVE users'[v].fresh <= IPWindow
        <4>1. CASE v = u BY <2>7, <2>8, <4>1, Constants
        <4>2. CASE v # u
          <5>1. v \in Newcomers /\ v \in Users BY <3>1, <4>2 DEF Newcomers
          <5>. QED BY <2>8, <4>2, <5>1, CounterCovers
        <4>. QED BY <4>1, <4>2
      <3>7. m \in cooldowns' BY <2>31
      <3>8. Cardinality(Newcomers') <= IPLimit BY <3>2, <3>3, <2>28, Constants
      <3>. QED BY <2>30, <3>2, <3>4, <3>5, <3>6, <3>7, <3>8 DEF SourceCounted
    <2>34. Answered' BY <1>0, <2>12, <2>14, StillAnswered
    <2>35. HooksGood' BY <1>0, <2>12 DEF HooksGood
    <2>36. PanelTypes'
      <3>1. codes' \in SUBSET Code /\ creds' \in SUBSET Cred /\ invitations' \in SUBSET Invitations
        BY <1>t, <2>4, <2>11, <2>20
      <3>2. rows' \in Seq(OutRow) BY <2>11 DEF Touched
      <3>. QED BY <1>0, <1>4, <2>8, <2>12, <2>24, <2>32, <3>1, <3>2 DEF PanelTypes
    <2>37. OpensInv' BY <2>18, <2>21, <2>22, <2>23, <2>24 DEF OpensInv
    <2>38. AdmitsInv' BY <2>15, <2>16, <2>17, <2>25, <2>27, <2>33 DEF AdmitsInv
    <2>39. OutboxInv' BY <2>13, <2>34, <2>35 DEF OutboxInv, Sound
    <2>. QED BY <2>13, <2>36, <2>37, <2>38, <2>39 DEF Kept, PanelInv
  <1>. QED BY <1>5, <1>6

-----------------------------------------------------------------------------
LEMMA RequestKept ==
    ASSUME PanelInv, NEW h \in Handlers, Request(h)
    PROVE  Kept
  <1>0. \A address \in accScope.addresses : address \in Addresses BY DEF PanelInv, PanelTypes
  <1>1. ASSUME NEW u \in Users, login(h, u) \/ legacyLogin(h, u) PROVE Kept
    BY <1>1, LoginKept DEF login, legacyLogin
  <1>2. ASSUME NEW u \in Users, changePassword(h, u) PROVE Kept BY <1>2, ChangeAsked
  <1>3. CASE completePasswordLogin(h) BY <1>3, CompleteLoginKept
  <1>4. CASE ChangePassword(h) BY <1>4, ChangePasswordKept
  <1>5. CASE createAccessToken(h) \/ createQuickLoginLinkForUser(h)
    BY <1>5, SignedInKept DEF createAccessToken, createQuickLoginLinkForUser
  <1>6. CASE CreateAccessToken(h) BY <1>6, TokenKept
  <1>7. CASE CreateQuickLoginLink(h) BY <1>7, QuickKept
  <1>8. CASE confirmPasswordResetInput(h) BY <1>0, <1>8, CheckResetKept, ResetKept DEF confirmPasswordResetInput
  <1>9. ASSUME NEW address \in accScope.addresses, requestMailLoginLink(h, address) \/ registerAccount(h, address)
        PROVE  Kept
    BY <1>0, <1>9, LinkAsked, RegisterAsked
  <1>10. CASE RequestMailLoginLink(h) BY <1>10, LinkKept
  <1>11. CASE registerUser(h) BY <1>11, RegisterKept
  <1>. QED BY <1>1, <1>2, <1>3, <1>4, <1>5, <1>6, <1>7, <1>8, <1>9, <1>10, <1>11 DEF Request

LEMMA PanelNext ==
    ASSUME PanelInv, [AccountsNext]_accountVars
    PROVE  PanelInv' /\ [Promise!Next]_Mail
  <1>0. (\A address \in accScope.addresses : address \in Addresses) /\ (\A h \in accScope.handlers : h \in Handlers)
    BY DEF PanelInv, PanelTypes
  <1>1. CASE OutboxNext /\ UNCHANGED <<creds, requests, invitations, wrong>>
    <2>1. UNCHANGED Hold BY <1>1 DEF Hold
    <2>2. Kept BY <1>1, <2>1, OutboxKept
    <2>. QED BY <2>2 DEF Kept, Promised
  <1>2. ASSUME NEW h \in accScope.handlers, Request(h) PROVE Kept BY <1>0, <1>2, RequestKept
  <1>3. ASSUME NEW address \in accScope.addresses,
               issuePasswordReset(address) \/ issueRegistrationEmailVerification(address)
        PROVE  Kept
    BY <1>0, <1>3, RequestResetKept, VerificationKept DEF issuePasswordReset, issueRegistrationEmailVerification
  <1>4. CASE exchangeLoginLinkToken BY <1>4, ExchangeKept DEF exchangeLoginLinkToken, Kept, Promised
  <1>5. CASE RevokeUserSession BY <1>5, RevokeSessionKept DEF Kept, Promised
  <1>6. ASSUME NEW u \in Users, updateAdminUser(u) \/ resetAdminUserPassword(u) \/ applyAdminUserLifecycle(u)
        PROVE  Kept
    BY <1>6, AdminUpdateKept, AdminResetKept, LifecycleKept
       DEF updateAdminUser, resetAdminUserPassword, applyAdminUserLifecycle
  <1>7. CASE UNCHANGED accountVars
    <2>1. UNCHANGED Hold /\ UNCHANGED OtherVars /\ UNCHANGED <<rows, jobs>>
      BY <1>7 DEF accountVars, Hold, OtherVars
    <2>2. Sound /\ rows \in Seq(OutRow) BY SoundInv DEF Sound
    <2>3. Touched(rows, rows') BY <2>1, <2>2, TouchedSelf
    <2>4. WorkerStep BY <2>1, <2>2, <2>3, TouchStep
    <2>5. Kept BY <2>1, <2>4, WorkerKept
    <2>. QED BY <2>5 DEF Kept, Promised
  <1>8. CASE Kept BY <1>8 DEF Kept, Promised
  <1>. QED BY <1>1, <1>2, <1>3, <1>4, <1>5, <1>6, <1>7, <1>8 DEF AccountsNext

LEMMA PanelInit ==
    ASSUME NEW scope, ScopeOK(scope), AccountsInit(scope)
    PROVE  PanelInv /\ Promise!Init
  <1>1. /\ users \in [Users -> Account] /\ rows = <<>> /\ codes = {} /\ cooldowns = {} /\ creds = {}
        /\ jobs = [w \in Workers |-> Idle] /\ updates = [x \in Updates |-> Unseen] /\ hooks = [h \in Hooks |-> Unheard]
        /\ requests = [h \in Handlers |-> NoRequest] /\ invitations = Invitations /\ wrong = [i \in 1..MaxRows |-> 0]
        /\ accScope.addresses \subseteq Addresses /\ accScope.handlers \subseteq Handlers
    BY DEF ScopeOK, AccountsInit
  <1>2. \A u \in Users : /\ users[u].life = "absent" => users[u].email = Nobody
                         /\ users[u].fresh = 0 /\ users[u].invite = Nobody /\ users[u].proof = 0
    BY DEF ScopeOK, AccountsInit
  <1>3. rows \in Seq(OutRow) /\ Len(rows) = 0 /\ DOMAIN rows = {} BY <1>1
  <1>4. PanelTypes
    <2>1. Idle \in Job BY DEF Idle, Job
    <2>2. Unseen \in Update /\ Unheard \in Hook BY DEF Unseen, Unheard, Update, Hook
    <2>3. jobs \in [Workers -> Job] BY <1>1, <2>1
    <2>4. updates \in [Updates -> Update] /\ hooks \in [Hooks -> Hook] BY <1>1, <2>2
    <2>5. requests \in [Handlers -> Asked] BY <1>1, NoRequestGood
    <2>6. wrong \in [1..MaxRows -> Nat] BY <1>1
    <2>. QED BY <1>1, <1>3, <2>3, <2>4, <2>5, <2>6 DEF PanelTypes
  <1>5. RequestsGood
    <2>1. ASSUME NEW h \in Handlers PROVE RequestGood(requests[h])
      <3>1. requests[h] = NoRequest BY <1>1
      <3>. QED BY <3>1, NoRequestGood
    <2>. QED BY <2>1 DEF RequestsGood
  <1>6. OpensInv BY <1>1, <1>2, <1>3, <1>5 DEF OpensInv, AbsentBlank, CredsGood, CodesGood, RowsBacked
  <1>7. AdmitsInv
    <2>1. Newcomers = {} BY <1>2 DEF Newcomers
    <2>2. Cardinality(Newcomers) = 0 BY <2>1, FS_EmptySet
    <2>3. SourceCounted BY <1>1, <2>1, <2>2, Constants DEF SourceCounted
    <2>4. InvitesSpent BY <1>1, <1>2, Constants DEF InvitesSpent
    <2>5. ProofsSpent BY <1>1, <1>2, <1>3 DEF ProofsSpent
    <2>6. CodesNumbered /\ CodesApart BY <1>1, <1>3, Constants DEF CodesNumbered, CodesApart
    <2>7. GuessesCounted BY <1>1, <1>3, Constants DEF GuessesCounted
    <2>. QED BY <2>3, <2>4, <2>5, <2>6, <2>7 DEF AdmitsInv
  <1>8. OutboxInv
    <2>1. JobsGood
      <3>1. ASSUME NEW w \in Workers PROVE jobs[w] = Idle /\ jobs[w].stage = "idle" BY <1>1 DEF Idle
      <3>. QED BY <3>1 DEF JobsGood, JobGood
    <2>2. HooksGood BY <1>1 DEF HooksGood, Unheard
    <2>. QED BY <1>3, <2>1, <2>2 DEF OutboxInv, RowsCounted, Answered
  <1>9. Promise!Init BY <1>1 DEF Promise!Init, Mail
  <1>. QED BY <1>4, <1>6, <1>7, <1>8, <1>9 DEF PanelInv

LEMMA PanelInvariant ==
    ASSUME NEW scope, ScopeOK(scope)
    PROVE  AccountsSpec(scope) => []PanelInv
  <1>1. AccountsInit(scope) => PanelInv BY PanelInit
  <1>2. PanelInv /\ [AccountsNext]_accountVars => PanelInv' BY PanelNext
  <1>. QED BY <1>1, <1>2, PTL DEF AccountsSpec

(* Nothing that was obtained with an old password, or before a ban, opens an account, and no code   *)
(* that was revoked still waits in the outbox: revokeAllCredentialsTx removes them in one           *)
(* transaction, and the second step of every handler looks again at what its first step rested on, *)
(* for any number of accounts, requests in progress and messages.                                  *)
THEOREM OpensOnlyCurrent ==
    ASSUME NEW scope, ScopeOK(scope)
    PROVE  AccountsSpec(scope) => []CredentialsCurrent
  <1>1. PanelInv => CredentialsCurrent
    <2>1. SUFFICES ASSUME PanelInv PROVE CredentialsCurrent OBVIOUS
    <2>2. CredsGood /\ CodesGood /\ RowsBacked BY <2>1 DEF PanelInv, OpensInv
    <2>3. \A c \in creds : ~users[c.user].banned /\ (c.via # "session" => c.pw = users[c.user].pw)
      BY <2>2 DEF CredsGood, CredGood
    <2>4. \A c \in codes : c.kind \in {"reset", "link"} /\ c.user # Nobody => c.pw = users[c.user].pw
      BY <2>2 DEF CodesGood, CodeGood
    <2>. QED BY <2>2, <2>3, <2>4 DEF CredentialsCurrent, RowsBacked, Backs
  <1>. QED BY <1>1, PanelInvariant, PTL

(* Registration admits nobody twice on one code or invitation and not more from a source than its   *)
(* limit, and the guesses at a code stay below twice the limit, for every limit and every window    *)
(* that is not shorter than the life of a code.                                                     *)
THEOREM AdmitsOnlyEarned ==
    ASSUME NEW scope, ScopeOK(scope)
    PROVE  AccountsSpec(scope) => []AdmissionsEarned
  <1>1. PanelInv => AdmissionsEarned
    BY DEF PanelInv, AdmitsInv, InvitesSpent, ProofsSpent, SourceCounted, Newcomers, GuessesCounted, AdmissionsEarned
  <1>. QED BY <1>1, PanelInvariant, PTL

(* The outboxes implement what OutboxPromise says of them: every step of the workers, of those who  *)
(* queue messages and of those who cancel them is one of its steps or none.                         *)
THEOREM KeepsPromise ==
    ASSUME NEW scope, ScopeOK(scope)
    PROVE  AccountsSpec(scope) => PromiseKept
  <1>1. AccountsInit(scope) => Promise!Init BY PanelInit
  <1>2. PanelInv /\ [AccountsNext]_accountVars => [Promise!Next]_Mail BY PanelNext
  <1>. QED BY <1>1, <1>2, PanelInvariant, PTL DEF AccountsSpec, PromiseKept, Promise!Spec

------------------------------------------------------------------------------
(* Administrators' bulk jobs *)

Claimants == Clerks \cup Exporters \cup {Free}
ItemStates == {"none", "pending", "processing", "succeeded", "failed", "cancelled", "skipped"}
Item == [st : ItemStates, tries : Nat, claim : Claimants, stale : BOOLEAN, due : BOOLEAN, named : BOOLEAN]
OverStates == {"succeeded", "failed", "cancelled"}
JobRecord == [kind : {"none", "mail", "csv", "ban"}, status : {"none", "queued", "running", "cancelling"} \cup OverStates,
              claim : Claimants, stale : BOOLEAN, out : {"none", "live", "void", "expired"}, path : BOOLEAN,
              key : Keys \cup {Free}, scope : SUBSET Targets, overrun : BOOLEAN, targets : [Targets -> Item]]
Person == [life : {"active", "inactive", "anonymous"}, banned : BOOLEAN]
ClerkState == {AtRest} \cup [stage : {"claimed", "checked", "sent", "failed"}, job : BulkIds, user : Targets, tries : Nat]
ExporterState == {AtRest} \cup [stage : {"writing", "wrote", "published"}, job : BulkIds, at : Nat, rows : SUBSET Targets]

BulkTypeOK ==
    /\ people \in [Targets -> Person]
    /\ bulk \in [BulkIds -> JobRecord]
    /\ files \in [BulkIds -> SUBSET (Targets \cup {0})]
    /\ clerks \in [Clerks -> ClerkState]
    /\ exporters \in [Exporters -> ExporterState]
    /\ sweeping \in BulkIds \cup {0}
    /\ delivered \in [BulkIds -> [Targets -> Nat]]

\* The workers that may still send a mail to u.
About(j, u) == {w \in Clerks : clerks[w].stage \in {"claimed", "checked"} /\ clerks[w].job = j /\ clerks[w].user = u}

\* What a job of some kind may say of a target that got n mails.
ItemSound(kind, t, n) ==
    /\ t.tries <= MaxTries
    /\ kind = "mail" => t.st # "skipped" /\ (t.st = "succeeded" => n > 0)
    /\ kind # "mail" => t.st # "processing"
ItemEnded(kind, status, t) ==
    /\ status \in OverStates => t.st \notin {"pending", "processing"}
    /\ kind = "mail" /\ status = "succeeded" => t.st \in {"none", "succeeded"}
JobSound(job, n) == \A u \in Targets : ItemSound(job.kind, job.targets[u], n[u]) /\ ItemEnded(job.kind, job.status, job.targets[u])
JobsSound == \A j \in BulkIds : JobSound(bulk[j], delivered[j])

\* A mail is sent under an attempt.
AttemptsCounted == \A j \in BulkIds, u \in Targets :
    IsFiniteSet(About(j, u)) /\ delivered[j][u] + Cardinality(About(j, u)) <= Bulk(j, u).tries
SentMails == \A w \in Clerks : clerks[w].stage = "sent" => delivered[clerks[w].job][clerks[w].user] > 0
OneBan == \A i \in BulkIds, j \in BulkIds : bulk[i].kind = "ban" /\ bulk[j].kind = "ban" /\ bulk[i].key = bulk[j].key => i = j

Selected(job) == {u \in Targets : job.targets[u].st # "none"}
At(x, j) == exporters[x] # AtRest /\ exporters[x].job = j
ExportSound(j) ==
    LET job == bulk[j] IN
    /\ job.kind # "csv" => files[j] = NoFile
    /\ \A u \in Selected(job) : job.kind = "csv" /\ people[u].life = "anonymous" => job.out = "void"
    /\ files[j] \ NoFile \subseteq Selected(job)
    /\ job.path => job.status = "succeeded"
    /\ job.kind = "csv" /\ job.status = "succeeded" /\ ~job.overrun => \A x \in Exporters : ~At(x, j)
    /\ ~job.overrun => \A x \in Exporters, y \in Exporters : At(x, j) /\ At(y, j) => x = y
    /\ job.path /\ job.out = "live" /\ ~job.overrun => files[j] # NoFile
ExporterSound(x) == exporters[x] # AtRest =>
    LET e == exporters[x]  job == bulk[e.job] IN
    /\ job.kind = "csv" /\ e.rows \subseteq Selected(job)
    /\ e.stage = "published" /\ ~job.overrun => files[e.job] # NoFile
ExportsSound == (\A j \in BulkIds : ExportSound(j)) /\ (\A x \in Exporters : ExporterSound(x))

BulkInv == BulkTypeOK /\ JobsSound /\ AttemptsCounted /\ SentMails /\ OneBan /\ ExportsSound

LEMMA BulkInvProperty == ASSUME BulkInv PROVE BulkSound
<1> USE BulkConstants DEF BulkInv
<1>1. BulkHonest
  <2> SUFFICES ASSUME NEW j \in BulkIds
               PROVE  /\ \A i \in Jobs("ban") : bulk[j].kind = "ban" /\ bulk[i].key = bulk[j].key => i = j
                      /\ \A u \in Targets :
                          /\ bulk[j].kind = "mail" /\ Bulk(j, u).st = "succeeded" => delivered[j][u] > 0
                          /\ delivered[j][u] <= MaxTries
                      /\ Over(j) => \A u \in Targets : Bulk(j, u).st \notin {"pending", "processing"}
                      /\ bulk[j].kind = "mail" /\ bulk[j].status = "succeeded" =>
                           \A u \in Targets : Bulk(j, u).st # "none" => delivered[j][u] > 0
    BY DEF BulkHonest
  <2>1. \A i \in Jobs("ban") : bulk[j].kind = "ban" /\ bulk[i].key = bulk[j].key => i = j
    BY DEF Jobs, OneBan
  <2>2. \A u \in Targets : /\ ItemSound(bulk[j].kind, Bulk(j, u), delivered[j][u])
                           /\ ItemEnded(bulk[j].kind, bulk[j].status, Bulk(j, u))
    BY DEF JobsSound, JobSound, Bulk
  <2>3. ASSUME NEW u \in Targets PROVE delivered[j][u] <= MaxTries
    <3>1. Bulk(j, u).tries \in Nat /\ delivered[j][u] \in Nat
      BY DEF BulkTypeOK, Bulk, JobRecord, Item
    <3>2. IsFiniteSet(About(j, u)) /\ delivered[j][u] + Cardinality(About(j, u)) <= Bulk(j, u).tries
      BY DEF AttemptsCounted
    <3>3. Cardinality(About(j, u)) \in Nat
      BY <3>2, FS_CardinalityType
    <3>4. Bulk(j, u).tries <= MaxTries /\ MaxTries \in Nat
      BY <2>2 DEF ItemSound
    <3> HIDE DEF BulkInv
    <3> QED BY <3>1, <3>2, <3>3, <3>4
  <2> QED BY <2>1, <2>2, <2>3 DEF ItemSound, ItemEnded, Over, OverStates
<1>2. ExportsPrivate
  <2> SUFFICES ASSUME NEW j \in BulkIds, OpenCSV(j)
               PROVE  /\ \A u \in files[j] \ NoFile : people[u].life # "anonymous"
                      /\ bulk[j].overrun \/ files[j] # NoFile
    BY DEF ExportsPrivate
  <2> QED BY DEF ExportsSound, ExportSound, OpenCSV, Selected
<1> QED BY <1>1, <1>2 DEF BulkSound

-----------------------------------------------------------------------------
\* Jobs that move on.
\* What exports depend on in a job stays as it was, until the job ends.
Alike(v, w) ==
    /\ v.status \notin OverStates
    /\ w.kind = v.kind /\ w.key = v.key /\ w.path = v.path /\ w.out = v.out /\ w.overrun = v.overrun
    /\ w.kind = "csv" => w.status # "succeeded"
    /\ \A u \in Targets : /\ (w.targets[u].st = "none") <=> (v.targets[u].st = "none")
                          /\ w.targets[u].tries = v.targets[u].tries
MovedOn(v, w) == w = v \/ Alike(v, w)
\* A clerk goes on with what it does, or stops.
CalmClerk(c, d) ==
    /\ d.stage \in {"claimed", "checked"} => c.stage \in {"claimed", "checked"} /\ d.job = c.job /\ d.user = c.user
    /\ d.stage = "sent" => c = d
CalmExporter(e, f) ==
    \/ f = AtRest
    \/ /\ e # AtRest /\ f.job = e.job /\ f.rows \subseteq Selected(bulk[e.job])
       /\ f.stage = "published" => f = e

LEMMA MovedOnKeeps == ASSUME NEW v, NEW w, MovedOn(v, w)
                      PROVE  /\ w.kind = v.kind /\ w.key = v.key /\ w.path = v.path /\ w.out = v.out /\ w.overrun = v.overrun
                             /\ Selected(w) = Selected(v)
                             /\ \A u \in Targets : w.targets[u].tries = v.targets[u].tries
                             /\ w.kind = "csv" => (w.status = "succeeded" => v.status = "succeeded")
                             /\ v.status = "succeeded" => w = v
  BY DEF MovedOn, Alike, Selected, OverStates

LEMMA AtRestIdle == /\ \A c \in ClerkState : c # AtRest <=> c.stage \in {"claimed", "checked", "sent", "failed"}
                    /\ \A e \in ExporterState : e # AtRest <=> e.stage \in {"writing", "wrote", "published"}
                    /\ AtRest.stage = "idle"
  BY DEF ClerkState, ExporterState, AtRest

LEMMA CalmClerksKeep ==
    ASSUME BulkInv, clerks' \in [Clerks -> ClerkState], \A w \in Clerks : CalmClerk(clerks[w], clerks'[w]),
           UNCHANGED delivered, \A j \in BulkIds, u \in Targets : Bulk(j, u)'.tries = Bulk(j, u).tries
    PROVE  AttemptsCounted' /\ SentMails'
<1>1. AttemptsCounted'
  <2> SUFFICES ASSUME NEW j \in BulkIds, NEW u \in Targets
               PROVE  IsFiniteSet(About(j, u)') /\ delivered'[j][u] + Cardinality(About(j, u)') <= Bulk(j, u)'.tries
    BY DEF AttemptsCounted, About, Bulk
  <2>1. About(j, u)' \subseteq About(j, u)
    BY DEF About, CalmClerk
  <2>2. IsFiniteSet(About(j, u)) /\ delivered[j][u] + Cardinality(About(j, u)) <= Bulk(j, u).tries
    BY DEF AttemptsCounted, BulkInv
  <2>3. IsFiniteSet(About(j, u)') /\ Cardinality(About(j, u)') <= Cardinality(About(j, u))
    BY <2>1, <2>2, FS_Subset
  <2>4. Cardinality(About(j, u)') \in Nat /\ Cardinality(About(j, u)) \in Nat
    BY <2>2, <2>3, FS_CardinalityType
  <2>5. delivered[j][u] \in Nat /\ Bulk(j, u).tries \in Nat
    BY DEF BulkInv, BulkTypeOK, Bulk, JobRecord, Item
  <2> QED BY <2>2, <2>3, <2>4, <2>5
<1>2. SentMails'
  BY DEF SentMails, CalmClerk, BulkInv
<1> QED BY <1>1, <1>2

\* The step of most actions: jobs move on, clerks and exporters go on or stop, nobody's name is lost.
LEMMA JobsMoveOn ==
    ASSUME BulkInv,
           people' \in [Targets -> Person], \A u \in Targets : people'[u].life = "anonymous" => people[u].life = "anonymous",
           bulk' \in [BulkIds -> JobRecord],
           \A j \in BulkIds : JobSound(bulk'[j], delivered[j]) /\ MovedOn(bulk[j], bulk'[j]),
           clerks' \in [Clerks -> ClerkState], \A w \in Clerks : CalmClerk(clerks[w], clerks'[w]),
           exporters' \in [Exporters -> ExporterState], \A x \in Exporters : CalmExporter(exporters[x], exporters'[x]),
           UNCHANGED <<files, delivered>>, sweeping' \in BulkIds \cup {0}
    PROVE  BulkInv'
<1>1. BulkTypeOK'
  BY DEF BulkInv, BulkTypeOK
<1>2. JobsSound'
  BY DEF JobsSound
<1>3. AttemptsCounted' /\ SentMails'
  <2>1. \A j \in BulkIds, u \in Targets : Bulk(j, u)'.tries = Bulk(j, u).tries
    BY MovedOnKeeps DEF Bulk
  <2> QED BY <2>1, CalmClerksKeep
<1>4. OneBan'
  <2>1. \A j \in BulkIds : bulk'[j].kind = bulk[j].kind /\ bulk'[j].key = bulk[j].key
    BY MovedOnKeeps
  <2> QED BY <2>1 DEF OneBan, BulkInv
<1>5. \A x \in Exporters, j \in BulkIds : At(x, j)' => At(x, j)
  BY DEF At, CalmExporter, BulkInv, BulkTypeOK
<1>6. ASSUME NEW j \in BulkIds PROVE ExportSound(j)'
  <2>1. /\ bulk'[j].kind = bulk[j].kind /\ bulk'[j].path = bulk[j].path
        /\ bulk'[j].out = bulk[j].out /\ bulk'[j].overrun = bulk[j].overrun
        /\ Selected(bulk'[j]) = Selected(bulk[j])
        /\ bulk'[j].kind = "csv" => (bulk'[j].status = "succeeded" => bulk[j].status = "succeeded")
        /\ bulk[j].status = "succeeded" => bulk'[j] = bulk[j]
    BY MovedOnKeeps
  <2>2. ExportSound(j)
    BY DEF BulkInv, ExportsSound
  <2>3. Selected(bulk[j]) \subseteq Targets
    BY DEF Selected
  <2> QED BY <1>5, <2>1, <2>2, <2>3 DEF ExportSound
<1>7. ASSUME NEW x \in Exporters PROVE ExporterSound(x)'
  <2> SUFFICES ASSUME exporters'[x] # AtRest
               PROVE  LET e == exporters'[x]  job == bulk'[e.job] IN
                      /\ job.kind = "csv" /\ e.rows \subseteq Selected(job)
                      /\ e.stage = "published" /\ ~job.overrun => files'[e.job] # NoFile
    BY DEF ExporterSound, Selected
  <2>1. /\ exporters[x] # AtRest /\ exporters'[x].job = exporters[x].job
        /\ exporters'[x].rows \subseteq Selected(bulk[exporters[x].job])
        /\ exporters'[x].stage = "published" => exporters'[x] = exporters[x]
    BY DEF CalmExporter
  <2> DEFINE j == exporters[x].job
  <2>2. j \in BulkIds
    BY <2>1 DEF BulkInv, BulkTypeOK, ExporterState
  <2>3. bulk'[j].kind = bulk[j].kind /\ bulk'[j].overrun = bulk[j].overrun /\ Selected(bulk'[j]) = Selected(bulk[j])
    BY <2>2, MovedOnKeeps
  <2>4. ExporterSound(x)
    BY DEF BulkInv, ExportsSound
  <2> QED BY <2>1, <2>3, <2>4 DEF ExporterSound
<1> QED BY <1>1, <1>2, <1>3, <1>4, <1>6, <1>7 DEF BulkInv, ExportsSound

-----------------------------------------------------------------------------
\* What is done to one target, and to one job.
ItemsSound(job, n) == \A u \in Targets : ItemSound(job.kind, job.targets[u], n[u])

LEMMA RefreshMovesOn ==
    ASSUME NEW v \in JobRecord, v.status \notin OverStates, NEW job \in JobRecord, job.status \notin OverStates,
           NEW n, ItemsSound(job, n), Alike(v, job), job.kind = "csv" => job.status = "cancelling"
    PROVE  /\ refreshAdminUserBulkJobTx(job) \in JobRecord
           /\ JobSound(refreshAdminUserBulkJobTx(job), n)
           /\ MovedOn(v, refreshAdminUserBulkJobTx(job))
<1> DEFINE states == {job.targets[u].st : u \in Targets}
           r == refreshAdminUserBulkJobTx(job)
<1>1. CASE states \cap {"pending", "processing"} # {}
  <2>1. r = job
    BY <1>1 DEF refreshAdminUserBulkJobTx
  <2> QED BY <2>1 DEF JobSound, ItemsSound, ItemEnded, MovedOn, OverStates
<1>2. CASE states \cap {"pending", "processing"} = {}
  <2> DEFINE s == IF job.status = "cancelling" \/ "cancelled" \in states THEN "cancelled"
                  ELSE IF "failed" \in states THEN "failed" ELSE "succeeded"
  <2>1. r = [job EXCEPT !.status = s]
    BY <1>2 DEF refreshAdminUserBulkJobTx
  <2>2. s \in OverStates /\ (job.kind = "csv" => s # "succeeded") /\ (s = "succeeded" => {"cancelled", "failed"} \cap states = {})
    BY DEF OverStates
  <2> HIDE DEF s, r
  <2>3. r \in JobRecord /\ r.status = s /\ r.kind = job.kind /\ r.key = job.key /\ r.path = job.path /\ r.out = job.out
        /\ r.overrun = job.overrun /\ r.targets = job.targets
    BY <2>1, <2>2 DEF JobRecord
  <2>4. \A u \in Targets : job.targets[u].st \in states /\ job.targets[u].st \in ItemStates
    BY DEF JobRecord, Item
  <2>5. ASSUME NEW u \in Targets PROVE ItemEnded(r.kind, r.status, r.targets[u])
    <3>1. job.targets[u].st \notin {"pending", "processing"}
      BY <1>2, <2>4
    <3>2. ASSUME job.kind = "mail", s = "succeeded" PROVE job.targets[u].st \in {"none", "succeeded"}
      <4>1. job.targets[u].st # "skipped"
        BY <3>2 DEF ItemsSound, ItemSound
      <4> QED BY <2>2, <2>4, <3>1, <3>2, <4>1 DEF ItemStates
    <3> QED BY <2>3, <3>1, <3>2 DEF ItemEnded
  <2>6. JobSound(r, n)
    BY <2>3, <2>5 DEF JobSound, ItemsSound
  <2>7. MovedOn(v, r)
    BY <2>2, <2>3 DEF MovedOn, Alike
  <2> QED BY <2>3, <2>6, <2>7 DEF r
<1> QED BY <1>1, <1>2

LEMMA ItemSettled ==
    ASSUME NEW t \in Item, NEW to \in ItemStates
    PROVE  /\ Settled(t, to) \in Item /\ Settled(t, to).st = to /\ Settled(t, to).tries = t.tries
  BY DEF Settled, Item, Claimants

\* A job with other targets.
LEMMA Retargeted ==
    ASSUME NEW job \in JobRecord, NEW f \in [Targets -> Item]
    PROVE  LET w == [job EXCEPT !.targets = f] IN
           /\ w \in JobRecord /\ w.targets = f /\ w.kind = job.kind /\ w.status = job.status /\ w.key = job.key
           /\ w.path = job.path /\ w.out = job.out /\ w.overrun = job.overrun
  BY DEF JobRecord

LEMMA OneRetargeted ==
    ASSUME NEW job \in JobRecord, NEW u \in Targets, NEW t \in Item
    PROVE  LET w == [job EXCEPT !.targets[u] = t] IN
           /\ w \in JobRecord /\ w.targets = [job.targets EXCEPT ![u] = t] /\ w.kind = job.kind /\ w.status = job.status
           /\ w.key = job.key /\ w.path = job.path /\ w.out = job.out /\ w.overrun = job.overrun
           /\ w.targets[u] = t /\ \A x \in Targets \ {u} : w.targets[x] = job.targets[x]
<1>1. job.targets \in [Targets -> Item]
  BY DEF JobRecord
<1>2. [job EXCEPT !.targets[u] = t] = [job EXCEPT !.targets = [job.targets EXCEPT ![u] = t]]
  BY DEF JobRecord
<1>3. PICK f \in [Targets -> Item] : f = [job.targets EXCEPT ![u] = t]
  BY <1>1
<1>4. f[u] = t /\ \A x \in Targets \ {u} : f[x] = job.targets[x]
  BY <1>1, <1>3
<1>5. LET w == [job EXCEPT !.targets = f] IN
      /\ w \in JobRecord /\ w.targets = f /\ w.kind = job.kind /\ w.status = job.status /\ w.key = job.key
      /\ w.path = job.path /\ w.out = job.out /\ w.overrun = job.overrun
  BY Retargeted
<1>6. [job EXCEPT !.targets[u] = t] = [job EXCEPT !.targets = f]
  BY <1>2, <1>3
<1> QED BY <1>3, <1>4, <1>5, <1>6

\* A mail job one of whose open targets is settled.
LEMMA SettleOne ==
    ASSUME BulkInv, NEW j \in BulkIds, NEW u \in Targets, Bulk(j, u).st \in {"pending", "processing"},
           bulk[j].kind = "mail", NEW t \in Item, t.tries = Bulk(j, u).tries, t.st \notin {"none", "skipped"},
           t.st = "succeeded" => delivered[j][u] > 0
    PROVE  LET r == refreshAdminUserBulkJobTx([bulk[j] EXCEPT !.targets[u] = t]) IN
           r \in JobRecord /\ JobSound(r, delivered[j]) /\ MovedOn(bulk[j], r)
<1> PICK v \in JobRecord : v = bulk[j]
  BY DEF BulkInv, BulkTypeOK
<1> PICK w : w = [v EXCEPT !.targets[u] = t]
  OBVIOUS
<1>1. /\ w \in JobRecord /\ w.kind = v.kind /\ w.status = v.status
      /\ w.key = v.key /\ w.path = v.path /\ w.out = v.out /\ w.overrun = v.overrun
      /\ w.targets[u] = t /\ \A x \in Targets \ {u} : w.targets[x] = v.targets[x]
  BY OneRetargeted
<1>2. JobSound(v, delivered[j])
  BY DEF BulkInv, JobsSound
<1>3. v.status \notin OverStates
  BY <1>2 DEF JobSound, ItemEnded, Bulk
<1>4. ItemsSound(w, delivered[j])
  BY <1>1, <1>2 DEF ItemsSound, JobSound, ItemSound, Bulk
<1>5. Alike(v, w)
  BY <1>1, <1>3 DEF Alike, Bulk
<1> QED BY <1>1, <1>3, <1>4, <1>5, RefreshMovesOn

\* One job moves on.
LEMMA OneMovesOn ==
    ASSUME BulkInv, NEW j \in BulkIds, NEW r \in JobRecord, JobSound(r, delivered[j]), MovedOn(bulk[j], r),
           bulk' = [bulk EXCEPT ![j] = r]
    PROVE  /\ bulk' \in [BulkIds -> JobRecord]
           /\ \A i \in BulkIds : JobSound(bulk'[i], delivered[i]) /\ MovedOn(bulk[i], bulk'[i])
  BY DEF BulkInv, BulkTypeOK, JobsSound, MovedOn

LEMMA NoneMoves ==
    ASSUME BulkInv, UNCHANGED bulk
    PROVE  /\ bulk' \in [BulkIds -> JobRecord]
           /\ \A i \in BulkIds : JobSound(bulk'[i], delivered[i]) /\ MovedOn(bulk[i], bulk'[i])
  BY DEF BulkInv, BulkTypeOK, JobsSound, MovedOn

\* Clerks and exporters of which at most one changes.
LEMMA CalmAll ==
    ASSUME BulkInv
    PROVE  /\ UNCHANGED people => people' \in [Targets -> Person] /\ \A u \in Targets : people'[u].life = "anonymous" => people[u].life = "anonymous"
           /\ UNCHANGED clerks => clerks' \in [Clerks -> ClerkState] /\ \A w \in Clerks : CalmClerk(clerks[w], clerks'[w])
           /\ UNCHANGED exporters => exporters' \in [Exporters -> ExporterState] /\ \A x \in Exporters : CalmExporter(exporters[x], exporters'[x])
           /\ UNCHANGED sweeping => sweeping' \in BulkIds \cup {0}
<1>1. \A x \in Exporters : CalmExporter(exporters[x], exporters[x])
  BY DEF BulkInv, ExportsSound, ExporterSound, CalmExporter
<1> QED BY <1>1 DEF BulkInv, BulkTypeOK, CalmClerk

LEMMA CalmOneClerk ==
    ASSUME BulkInv, NEW w \in Clerks, NEW d \in ClerkState, CalmClerk(clerks[w], d), clerks' = [clerks EXCEPT ![w] = d]
    PROVE  clerks' \in [Clerks -> ClerkState] /\ \A x \in Clerks : CalmClerk(clerks[x], clerks'[x])
  BY DEF BulkInv, BulkTypeOK, CalmClerk

LEMMA CalmOneExporter ==
    ASSUME BulkInv, NEW x \in Exporters, NEW f \in ExporterState, CalmExporter(exporters[x], f), exporters' = [exporters EXCEPT ![x] = f]
    PROVE  exporters' \in [Exporters -> ExporterState] /\ \A y \in Exporters : CalmExporter(exporters[y], exporters'[y])
<1>1. \A y \in Exporters : CalmExporter(exporters[y], exporters[y])
  BY DEF BulkInv, ExportsSound, ExporterSound, CalmExporter
<1> QED BY <1>1 DEF BulkInv, BulkTypeOK

-----------------------------------------------------------------------------
\* The clerks' steps.
LEMMA ReapedMovesOn ==
    ASSUME BulkInv, NEW j \in BulkIds
    PROVE  Reaped(bulk[j]) \in JobRecord /\ JobSound(Reaped(bulk[j]), delivered[j]) /\ MovedOn(bulk[j], Reaped(bulk[j]))
<1> PICK v \in JobRecord : v = bulk[j]
  BY DEF BulkInv, BulkTypeOK
<1>1. JobSound(v, delivered[j])
  BY DEF BulkInv, JobsSound
<1>2. CASE v.kind # "mail" \/ v.status # "cancelling"
  BY <1>1, <1>2 DEF Reaped, MovedOn
<1>3. CASE v.kind = "mail" /\ v.status = "cancelling"
  <2> DEFINE f == [u \in Targets |-> IF v.targets[u].st = "processing" /\ v.targets[u].stale
                                     THEN [v.targets[u] EXCEPT !.st = "failed", !.claim = Free, !.stale = FALSE] ELSE v.targets[u]]
  <2>1. Reaped(v) = refreshAdminUserBulkJobTx([v EXCEPT !.targets = f])
    BY <1>3 DEF Reaped
  <2>2. ASSUME NEW u \in Targets
        PROVE  f[u] \in Item /\ f[u].tries = v.targets[u].tries
               /\ (f[u].st = v.targets[u].st \/ (v.targets[u].st # "none" /\ f[u].st = "failed"))
    <3>1. v.targets[u] \in Item
      BY DEF JobRecord
    <3> QED BY <3>1 DEF Item, ItemStates, Claimants
  <2>3. f \in [Targets -> Item]
    BY <2>2
  <2> HIDE DEF f
  <2> PICK w : w = [v EXCEPT !.targets = f]
    OBVIOUS
  <2>4. /\ w \in JobRecord /\ w.targets = f /\ w.kind = v.kind /\ w.status = v.status /\ w.key = v.key
        /\ w.path = v.path /\ w.out = v.out /\ w.overrun = v.overrun
    BY <2>3, Retargeted
  <2>5. ItemsSound(w, delivered[j])
    BY <2>2, <2>4, <1>1, <1>3 DEF ItemsSound, JobSound, ItemSound
  <2>6. v.status \notin OverStates /\ Alike(v, w)
    BY <2>2, <2>4, <1>3 DEF Alike, OverStates
  <2> QED BY <1>3, <2>1, <2>4, <2>5, <2>6, RefreshMovesOn
<1> QED BY <1>2, <1>3

LEMMA ReapKeeps == ASSUME BulkInv, NEW w \in Clerks, ReapCancellingAdminUserBulkMail(w) PROVE BulkInv'
<1>1. bulk' = [j \in BulkIds |-> IF bulk[j] = NoJob THEN NoJob ELSE Reaped(bulk[j])]
      /\ UNCHANGED <<people, files, clerks, exporters, sweeping, faults, delivered>>
  BY DEF ReapCancellingAdminUserBulkMail
<1>2. \A j \in BulkIds : bulk'[j] = bulk[j] \/ bulk'[j] = Reaped(bulk[j])
  BY <1>1
<1>3. \A j \in BulkIds : bulk'[j] \in JobRecord /\ JobSound(bulk'[j], delivered[j]) /\ MovedOn(bulk[j], bulk'[j])
  BY <1>2, ReapedMovesOn DEF MovedOn, BulkInv, BulkTypeOK, JobsSound
<1>4. bulk' \in [BulkIds -> JobRecord]
  BY <1>1, <1>3
<1> QED BY <1>1, <1>3, <1>4, CalmAll, JobsMoveOn

\* A claim that is still held is about an open target of a mail.
LEMMA HeldOpen ==
    ASSUME BulkInv, NEW w \in Clerks, clerks[w] # AtRest, HoldsItem(w)
    PROVE  /\ clerks[w].job \in BulkIds /\ clerks[w].user \in Targets
           /\ Bulk(clerks[w].job, clerks[w].user).st = "processing"
           /\ bulk[clerks[w].job].kind = "mail" /\ bulk[clerks[w].job].status \notin OverStates
<1> DEFINE j == clerks[w].job
           u == clerks[w].user
<1>1. j \in BulkIds /\ u \in Targets
  BY DEF BulkInv, BulkTypeOK, ClerkState
<1>2. Bulk(j, u).st = "processing"
  BY DEF HoldsItem
<1>3. ItemSound(bulk[j].kind, Bulk(j, u), delivered[j][u]) /\ ItemEnded(bulk[j].kind, bulk[j].status, Bulk(j, u))
  BY <1>1 DEF BulkInv, JobsSound, JobSound, Bulk
<1> QED BY <1>1, <1>2, <1>3 DEF ItemSound, ItemEnded

LEMMA ItemOf == ASSUME BulkInv, NEW j \in BulkIds, NEW u \in Targets
                PROVE  Bulk(j, u) \in Item /\ Bulk(j, u) = bulk[j].targets[u] /\ bulk[j] \in JobRecord
  BY DEF BulkInv, BulkTypeOK, Bulk, JobRecord

LEMMA CheckClaimKeeps == ASSUME BulkInv, NEW w \in Clerks, CheckClaim(w) PROVE BulkInv'
<1> DEFINE c == clerks[w]
<1>0. c \in ClerkState /\ c.stage = "claimed" /\ c # AtRest
  BY AtRestIdle DEF CheckClaim, BulkInv, BulkTypeOK
<1>1. UNCHANGED <<people, files, exporters, sweeping, faults, delivered>>
  BY DEF CheckClaim
<1>2. CASE AdminUserBulkMailClaimActive(w)
  <2>1. clerks' = [clerks EXCEPT ![w] = [clerks[w] EXCEPT !.stage = "checked"]] /\ UNCHANGED bulk
    BY <1>2 DEF CheckClaim
  <2> PICK d : d = [c EXCEPT !.stage = "checked"]
    OBVIOUS
  <2>2. d \in ClerkState /\ CalmClerk(c, d)
    BY <1>0 DEF ClerkState, CalmClerk, AtRest
  <2> QED BY <1>1, <2>1, <2>2, CalmOneClerk, NoneMoves, CalmAll, JobsMoveOn
<1>3. CASE ~AdminUserBulkMailClaimActive(w)
  <2>1. clerks' = [clerks EXCEPT ![w] = AtRest] /\ bulk' = ReleaseCancelledAdminUserBulkMailClaim(w)
    BY <1>3 DEF CheckClaim
  <2>2. AtRest \in ClerkState /\ CalmClerk(c, AtRest)
    BY AtRestIdle DEF ClerkState, CalmClerk
  <2>3. CASE HoldsItem(w) /\ bulk[c.job].status \in {"cancelling", "cancelled"}
    <3> PICK j \in BulkIds, u \in Targets : j = c.job /\ u = c.user
      BY <1>0, <2>3, HeldOpen
    <3> PICK t : t = Settled(Bulk(j, u), "cancelled")
      OBVIOUS
    <3>1. t \in Item /\ t.tries = Bulk(j, u).tries /\ t.st = "cancelled"
      BY ItemOf, ItemSettled DEF ItemStates
    <3> PICK r : r = refreshAdminUserBulkJobTx([bulk[j] EXCEPT !.targets[u] = t])
      OBVIOUS
    <3>2. r \in JobRecord /\ JobSound(r, delivered[j]) /\ MovedOn(bulk[j], r)
      BY <1>0, <2>3, <3>1, HeldOpen, SettleOne
    <3>3. bulk' = [bulk EXCEPT ![j] = r]
      BY <2>1, <2>3 DEF ReleaseCancelledAdminUserBulkMailClaim, Bulk
    <3> QED BY <1>1, <2>1, <2>2, <3>2, <3>3, OneMovesOn, CalmOneClerk, CalmAll, JobsMoveOn
  <2>4. CASE ~(HoldsItem(w) /\ bulk[c.job].status \in {"cancelling", "cancelled"})
    <3>1. UNCHANGED bulk
      BY <2>1, <2>4 DEF ReleaseCancelledAdminUserBulkMailClaim
    <3> QED BY <1>1, <2>1, <2>2, <3>1, NoneMoves, CalmOneClerk, CalmAll, JobsMoveOn
  <2> QED BY <2>3, <2>4
<1> QED BY <1>2, <1>3

LEMMA FinishMailKeeps == ASSUME BulkInv, NEW w \in Clerks, finishAdminUserBulkMail(w) PROVE BulkInv'
<1> DEFINE c == clerks[w]
<1>0. c \in ClerkState /\ c.stage \in {"sent", "failed"} /\ c # AtRest
  BY AtRestIdle DEF finishAdminUserBulkMail, BulkInv, BulkTypeOK
<1>1. clerks' = [clerks EXCEPT ![w] = AtRest] /\ UNCHANGED <<people, files, exporters, sweeping, faults, delivered>>
  BY DEF finishAdminUserBulkMail
<1>2. AtRest \in ClerkState /\ CalmClerk(c, AtRest)
  BY AtRestIdle DEF ClerkState, CalmClerk
<1>3. CASE HoldsItem(w)
  <2> PICK j \in BulkIds, u \in Targets : j = c.job /\ u = c.user
    BY <1>0, <1>3, HeldOpen
  <2> PICK t : t = IF c.stage = "sent" THEN Settled(Bulk(j, u), "succeeded") ELSE FailAdminUserBulkMail(Bulk(j, u), c)
    OBVIOUS
  <2>1. t \in Item /\ t.tries = Bulk(j, u).tries /\ t.st \in {"succeeded", "cancelled", "pending", "failed"}
        /\ (t.st = "succeeded" => c.stage = "sent")
    <3>1. Bulk(j, u) \in Item
      BY ItemOf
    <3>2. \A to \in ItemStates : /\ Settled(Bulk(j, u), to) \in Item /\ Settled(Bulk(j, u), to).tries = Bulk(j, u).tries
                                 /\ Settled(Bulk(j, u), to).st = to
      BY <3>1, ItemSettled
    <3>3. LET s == [Settled(Bulk(j, u), "pending") EXCEPT !.due = FALSE] IN
          s \in Item /\ s.tries = Bulk(j, u).tries /\ s.st = "pending"
      <4> PICK p \in Item : p = Settled(Bulk(j, u), "pending") /\ p.tries = Bulk(j, u).tries /\ p.st = "pending"
        BY <3>2 DEF ItemStates
      <4>1. [p EXCEPT !.due = FALSE] \in Item /\ [p EXCEPT !.due = FALSE].tries = p.tries /\ [p EXCEPT !.due = FALSE].st = p.st
        BY DEF Item
      <4> QED BY <4>1
    <3>4. (t \in {Settled(Bulk(j, u), "succeeded")} /\ c.stage = "sent") \/ t \in {FailAdminUserBulkMail(Bulk(j, u), c)}
      OBVIOUS
    <3>5. FailAdminUserBulkMail(Bulk(j, u), c) \in {Settled(Bulk(j, u), "cancelled"),
            [Settled(Bulk(j, u), "pending") EXCEPT !.due = FALSE], Settled(Bulk(j, u), "failed")}
      BY DEF FailAdminUserBulkMail
    <3> QED BY <3>2, <3>3, <3>4, <3>5 DEF ItemStates
  <2>2. t.st = "succeeded" => delivered[j][u] > 0
    BY <2>1 DEF BulkInv, SentMails
  <2> PICK r : r = refreshAdminUserBulkJobTx([bulk[j] EXCEPT !.targets[u] = t])
    OBVIOUS
  <2>3. r \in JobRecord /\ JobSound(r, delivered[j]) /\ MovedOn(bulk[j], r)
    BY <1>0, <1>3, <2>1, <2>2, HeldOpen, SettleOne
  <2>4. bulk' = [bulk EXCEPT ![j] = r]
    BY <1>3 DEF finishAdminUserBulkMail, Bulk
  <2> QED BY <1>1, <1>2, <2>3, <2>4, OneMovesOn, CalmOneClerk, CalmAll, JobsMoveOn
<1>4. CASE ~HoldsItem(w)
  <2>1. UNCHANGED bulk
    BY <1>4 DEF finishAdminUserBulkMail
  <2> QED BY <1>1, <1>2, <2>1, NoneMoves, CalmOneClerk, CalmAll, JobsMoveOn
<1> QED BY <1>3, <1>4

LEMMA CancelKeeps == ASSUME BulkInv, NEW j \in BulkIds, CancelAdminUserBulkJob(j) PROVE BulkInv'
<1> PICK v \in JobRecord : v = bulk[j]
  BY ItemOf DEF BulkInv, BulkTypeOK
<1> DEFINE f == [u \in Targets |-> IF v.targets[u].st = "pending"
                                   THEN [v.targets[u] EXCEPT !.st = "cancelled", !.claim = Free] ELSE v.targets[u]]
<1>1. UNCHANGED <<people, files, clerks, exporters, sweeping, faults, delivered>> /\ v.status \notin OverStates
  BY DEF CancelAdminUserBulkJob, Over, OverStates
<1>2. ASSUME NEW u \in Targets
      PROVE  f[u] \in Item /\ f[u].tries = v.targets[u].tries
             /\ (f[u].st = v.targets[u].st \/ (v.targets[u].st # "none" /\ f[u].st = "cancelled"))
  <2>1. v.targets[u] \in Item
    BY DEF JobRecord
  <2> QED BY <2>1 DEF Item, ItemStates, Claimants
<1>3. f \in [Targets -> Item]
  BY <1>2
<1> PICK x : x = [v EXCEPT !.status = "cancelling", !.targets = f]
  OBVIOUS
<1>4. bulk' = [bulk EXCEPT ![j] = refreshAdminUserBulkJobTx(x)]
  <2>1. f = [u \in Targets |-> IF Bulk(j, u).st = "pending" THEN [Bulk(j, u) EXCEPT !.st = "cancelled", !.claim = Free]
                               ELSE Bulk(j, u)]
    BY DEF Bulk
  <2> HIDE DEF f
  <2> QED BY <2>1, Zenon DEF CancelAdminUserBulkJob
<1> HIDE DEF f
<1>5. /\ x \in JobRecord /\ x.targets = f /\ x.kind = v.kind /\ x.status = "cancelling" /\ x.key = v.key
      /\ x.path = v.path /\ x.out = v.out /\ x.overrun = v.overrun
  BY <1>3 DEF JobRecord
<1>6. JobSound(v, delivered[j])
  BY DEF BulkInv, JobsSound
<1>7. ItemsSound(x, delivered[j])
  BY <1>2, <1>5, <1>6 DEF ItemsSound, JobSound, ItemSound
<1>8. Alike(v, x) /\ x.status \notin OverStates
  BY <1>1, <1>2, <1>5 DEF Alike, OverStates
<1> PICK r : r = refreshAdminUserBulkJobTx(x)
  OBVIOUS
<1>9. r \in JobRecord /\ JobSound(r, delivered[j]) /\ MovedOn(bulk[j], r)
  BY <1>1, <1>5, <1>7, <1>8, RefreshMovesOn
<1> QED BY <1>1, <1>4, <1>9, OneMovesOn, CalmAll, JobsMoveOn

LEMMA PersonChanged ==
    ASSUME BulkInv, NEW u \in Targets, NEW p \in Person, p.life # "anonymous", people' = [people EXCEPT ![u] = p]
    PROVE  people' \in [Targets -> Person] /\ \A x \in Targets : people'[x].life = "anonymous" => people[x].life = "anonymous"
  BY DEF BulkInv, BulkTypeOK

LEMMA DeactivateKeeps == ASSUME BulkInv, NEW u \in Targets, DeactivateUser(u) PROVE BulkInv'
<1>1. UNCHANGED <<files, clerks, exporters, sweeping, faults, delivered>>
  BY DEF DeactivateUser
<1>2. people' \in [Targets -> Person] /\ \A x \in Targets : people'[x].life = "anonymous" => people[x].life = "anonymous"
  <2> PICK p : p = [people[u] EXCEPT !.life = "inactive"]
    OBVIOUS
  <2>1. p \in Person /\ p.life # "anonymous" /\ people' = [people EXCEPT ![u] = p]
    BY DEF DeactivateUser, BulkInv, BulkTypeOK, Person
  <2> QED BY <2>1, PersonChanged
<1>3. ASSUME NEW j \in BulkIds
      PROVE  bulk'[j] \in JobRecord /\ JobSound(bulk'[j], delivered[j]) /\ MovedOn(bulk[j], bulk'[j])
  <2> PICK t : t = Settled(Bulk(j, u), "cancelled")
    OBVIOUS
  <2>1. t \in Item /\ t.tries = Bulk(j, u).tries /\ t.st = "cancelled"
    BY ItemOf, ItemSettled DEF ItemStates
  <2>2. bulk'[j] = IF bulk[j].kind # "mail" \/ Bulk(j, u).st \notin {"pending", "processing"} THEN bulk[j]
                   ELSE refreshAdminUserBulkJobTx([bulk[j] EXCEPT !.targets[u] = t])
    BY DEF DeactivateUser
  <2>3. CASE bulk[j].kind # "mail" \/ Bulk(j, u).st \notin {"pending", "processing"}
    BY <2>2, <2>3, ItemOf DEF MovedOn, BulkInv, JobsSound
  <2>4. CASE bulk[j].kind = "mail" /\ Bulk(j, u).st \in {"pending", "processing"}
    BY <2>1, <2>2, <2>4, SettleOne
  <2> QED BY <2>3, <2>4
<1>4. bulk' \in [BulkIds -> JobRecord]
  BY <1>3 DEF DeactivateUser
<1> QED BY <1>1, <1>2, <1>3, <1>4, CalmAll, JobsMoveOn

LEMMA RestoreKeeps == ASSUME BulkInv, NEW u \in Targets, RestoreUser(u) \/ Unban(u) PROVE BulkInv'
<1>1. UNCHANGED <<bulk, files, clerks, exporters, sweeping, faults, delivered>>
  BY DEF RestoreUser, Unban
<1>2. people' \in [Targets -> Person] /\ \A x \in Targets : people'[x].life = "anonymous" => people[x].life = "anonymous"
  BY DEF RestoreUser, Unban, BulkInv, BulkTypeOK, Person
<1> QED BY <1>1, <1>2, NoneMoves, CalmAll, JobsMoveOn

LEMMA ItemTouched ==
    ASSUME BulkInv, NEW j \in BulkIds, NEW u \in Targets, Bulk(j, u).st \in {"pending", "processing"},
           NEW t \in Item, t.st = Bulk(j, u).st, t.tries = Bulk(j, u).tries
    PROVE  LET r == [bulk[j] EXCEPT !.targets[u] = t] IN
           r \in JobRecord /\ JobSound(r, delivered[j]) /\ MovedOn(bulk[j], r)
<1> PICK v \in JobRecord : v = bulk[j]
  BY ItemOf
<1> PICK w : w = [v EXCEPT !.targets[u] = t]
  OBVIOUS
<1>1. /\ w \in JobRecord /\ w.kind = v.kind /\ w.status = v.status
      /\ w.key = v.key /\ w.path = v.path /\ w.out = v.out /\ w.overrun = v.overrun
      /\ w.targets[u] = t /\ \A x \in Targets \ {u} : w.targets[x] = v.targets[x]
  BY OneRetargeted
<1>2. JobSound(v, delivered[j])
  BY DEF BulkInv, JobsSound
<1>3. v.status \notin OverStates
  BY <1>2 DEF JobSound, ItemEnded, Bulk
<1>4. JobSound(w, delivered[j])
  BY <1>1, <1>2 DEF JobSound, ItemSound, ItemEnded, Bulk
<1>5. v.kind = "csv" => v.status # "succeeded"
  BY <1>3 DEF OverStates
<1>6. MovedOn(v, w)
  BY <1>1, <1>3, <1>5 DEF MovedOn, Alike, Bulk
<1> QED BY <1>1, <1>4, <1>6

LEMMA LeaseEndsKeeps == ASSUME BulkInv, LeaseEnds PROVE BulkInv'
<1>1. UNCHANGED <<people, files, clerks, exporters, sweeping, delivered>>
  BY DEF LeaseEnds
<1>2. PICK j \in BulkIds :
        \/ /\ bulk[j].kind = "csv" /\ bulk[j].status = "running" /\ ~bulk[j].stale
           /\ bulk' = [bulk EXCEPT ![j].stale = TRUE]
        \/ \E u \in Targets : /\ bulk[j].kind = "mail" /\ Bulk(j, u).st = "processing" /\ ~Bulk(j, u).stale
                              /\ bulk' = [bulk EXCEPT ![j].targets[u].stale = TRUE]
  BY DEF LeaseEnds
<1> PICK v \in JobRecord : v = bulk[j]
  BY ItemOf DEF BulkInv, BulkTypeOK
<1>3. JobSound(v, delivered[j])
  BY DEF BulkInv, JobsSound
<1>4. CASE v.kind = "csv" /\ v.status = "running" /\ bulk' = [bulk EXCEPT ![j].stale = TRUE]
  <2> PICK r : r = [v EXCEPT !.stale = TRUE]
    OBVIOUS
  <2>1. r \in JobRecord /\ bulk' = [bulk EXCEPT ![j] = r] /\ r.kind = v.kind /\ r.status = v.status /\ r.targets = v.targets
        /\ r.key = v.key /\ r.path = v.path /\ r.out = v.out /\ r.overrun = v.overrun
    BY <1>4 DEF JobRecord
  <2>2. JobSound(r, delivered[j])
    BY <1>3, <2>1 DEF JobSound
  <2>3. MovedOn(bulk[j], r)
    BY <1>4, <2>1 DEF MovedOn, Alike, OverStates
  <2> QED BY <1>1, <2>1, <2>2, <2>3, OneMovesOn, CalmAll, JobsMoveOn
<1>5. ASSUME NEW u \in Targets, Bulk(j, u).st = "processing", bulk' = [bulk EXCEPT ![j].targets[u].stale = TRUE]
      PROVE  BulkInv'
  <2> PICK b \in Item : b = Bulk(j, u)
    BY ItemOf
  <2>7. LET t == [b EXCEPT !.stale = TRUE] IN t \in Item /\ t.st = b.st /\ t.tries = b.tries
    BY DEF Item
  <2> PICK t \in Item : t = [b EXCEPT !.stale = TRUE] /\ t.st = b.st /\ t.tries = b.tries
    BY <2>7
  <2> PICK r : r = [bulk[j] EXCEPT !.targets[u] = t]
    OBVIOUS
  <2>1. r \in JobRecord /\ JobSound(r, delivered[j]) /\ MovedOn(bulk[j], r)
    BY <1>5, ItemTouched
  <2>2. bulk' = [bulk EXCEPT ![j] = r]
    BY <1>5 DEF Bulk
  <2> QED BY <1>1, <2>1, <2>2, OneMovesOn, CalmAll, JobsMoveOn
<1> QED BY <1>2, <1>4, <1>5

LEMMA RetryDueKeeps == ASSUME BulkInv, RetryDue PROVE BulkInv'
<1>1. UNCHANGED <<people, files, clerks, exporters, sweeping, faults, delivered>>
  BY DEF RetryDue
<1>2. PICK j \in BulkIds, u \in Targets : Bulk(j, u).st = "pending" /\ bulk' = [bulk EXCEPT ![j].targets[u].due = TRUE]
  BY DEF RetryDue
<1> PICK b \in Item : b = Bulk(j, u)
  BY ItemOf
<1>7. LET t == [b EXCEPT !.due = TRUE] IN t \in Item /\ t.st = b.st /\ t.tries = b.tries
  BY DEF Item
<1> PICK t \in Item : t = [b EXCEPT !.due = TRUE] /\ t.st = b.st /\ t.tries = b.tries
  BY <1>7
<1> PICK r : r = [bulk[j] EXCEPT !.targets[u] = t]
  OBVIOUS
<1>3. r \in JobRecord /\ JobSound(r, delivered[j]) /\ MovedOn(bulk[j], r)
  BY <1>2, ItemTouched
<1>4. bulk' = [bulk EXCEPT ![j] = r]
  BY <1>2 DEF Bulk
<1> QED BY <1>1, <1>3, <1>4, OneMovesOn, CalmAll, JobsMoveOn

LEMMA DieKeeps == ASSUME BulkInv, Die PROVE BulkInv'
<1>1. UNCHANGED <<people, bulk, files, delivered>>
  BY DEF Die
<1>2. CalmClerk(clerks[CHOOSE w \in Clerks : TRUE], AtRest) /\ AtRest \in ClerkState /\ \A c : CalmClerk(c, AtRest)
  BY AtRestIdle DEF CalmClerk, ClerkState
<1>3. AtRest \in ExporterState /\ \A e : CalmExporter(e, AtRest)
  BY DEF CalmExporter, ExporterState
<1>4. ASSUME NEW w \in Clerks, clerks' = [clerks EXCEPT ![w] = AtRest], UNCHANGED <<exporters, sweeping>> PROVE BulkInv'
  BY <1>1, <1>2, <1>4, NoneMoves, CalmAll, CalmOneClerk, JobsMoveOn
<1>5. ASSUME NEW x \in Exporters, exporters' = [exporters EXCEPT ![x] = AtRest], UNCHANGED <<clerks, sweeping>> PROVE BulkInv'
  BY <1>1, <1>3, <1>5, NoneMoves, CalmAll, CalmOneExporter, JobsMoveOn
<1>6. ASSUME sweeping' = 0, UNCHANGED <<clerks, exporters>> PROVE BulkInv'
  BY <1>1, <1>6, NoneMoves, CalmAll, JobsMoveOn
<1> QED BY <1>4, <1>5, <1>6 DEF Die

-----------------------------------------------------------------------------
\* The exporters' steps under their claim.
LEMMA ExporterAt ==
    ASSUME BulkInv, NEW x \in Exporters, exporters[x].stage \in {"writing", "wrote", "published"}
    PROVE  /\ exporters[x] # AtRest /\ exporters[x].job \in BulkIds /\ bulk[exporters[x].job] \in JobRecord
           /\ bulk[exporters[x].job].kind = "csv"
           /\ exporters[x] \in [stage : {"writing", "wrote", "published"}, job : BulkIds, at : Nat, rows : SUBSET Targets]
           /\ exporters[x].rows \subseteq Selected(bulk[exporters[x].job])
<1>1. exporters[x] # AtRest
  BY AtRestIdle DEF BulkInv, BulkTypeOK
<1>2. exporters[x] \in [stage : {"writing", "wrote", "published"}, job : BulkIds, at : Nat, rows : SUBSET Targets]
  BY <1>1 DEF BulkInv, BulkTypeOK, ExporterState
<1>3. ExporterSound(x)
  BY DEF BulkInv, ExportsSound
<1> QED BY <1>1, <1>2, <1>3, ItemOf DEF ExporterSound, BulkInv, BulkTypeOK

LEMMA WriteBatchKeeps == ASSUME BulkInv, NEW x \in Exporters, WriteBatch(x) PROVE BulkInv'
<1> PICK e : e = exporters[x]
  OBVIOUS
<1> PICK j : j = e.job
  OBVIOUS
<1> PICK u : u = Min(Unwritten(x))
  OBVIOUS
<1>1. UNCHANGED <<people, bulk, files, clerks, sweeping, faults, delivered>> /\ e.stage = "writing"
  BY DEF WriteBatch
<1>2. e # AtRest /\ j \in BulkIds /\ e \in [stage : {"writing", "wrote", "published"}, job : BulkIds, at : Nat, rows : SUBSET Targets]
      /\ e.rows \subseteq Selected(bulk[j])
  BY <1>1, ExporterAt
<1>3. u \in Targets /\ u \in Nat /\ u \in Selected(bulk[j])
  <2>1. Unwritten(x) \subseteq Targets /\ Unwritten(x) # {} /\ Unwritten(x) \subseteq Selected(bulk[j])
    BY DEF WriteBatch, Unwritten, Selected, Bulk
  <2>2. \E m \in Unwritten(x) : \A n \in Unwritten(x) : m <= n
    BY <2>1, BulkConstants, LeastNatural
  <2>3. u \in Unwritten(x)
    BY <2>2, Zenon DEF Min
  <2> QED BY <2>1, <2>3, BulkConstants
<1> PICK f : f = [e EXCEPT !.at = u, !.stage = "wrote", !.rows = IF Bulk(e.job, u).named THEN e.rows \cup {u} ELSE e.rows]
  OBVIOUS
<1>4. f \in [stage : {"writing", "wrote", "published"}, job : BulkIds, at : Nat, rows : SUBSET Targets] /\ f.job = j
      /\ f.stage = "wrote" /\ f.rows \subseteq Selected(bulk[j])
  BY <1>2, <1>3
<1>5. f \in ExporterState /\ CalmExporter(e, f)
  BY <1>2, <1>4 DEF ExporterState, CalmExporter
<1>6. exporters' = [exporters EXCEPT ![x] = f]
  BY DEF WriteBatch
<1> QED BY <1>1, <1>5, <1>6, NoneMoves, CalmAll, CalmOneExporter, JobsMoveOn

-----------------------------------------------------------------------------
\* An attempt begins with a claim and ends with a mail, or without one.
LEMMA Restarted ==
    ASSUME NEW job \in JobRecord
    PROVE  LET r == [job EXCEPT !.status = "running"] IN
           /\ r \in JobRecord /\ r.kind = job.kind /\ r.status = "running" /\ r.key = job.key /\ r.path = job.path
           /\ r.out = job.out /\ r.overrun = job.overrun /\ r.targets = job.targets
  BY DEF JobRecord

LEMMA ClaimMailKeeps == ASSUME BulkInv, NEW w \in Clerks, ClaimAdminUserBulkMail(w) PROVE BulkInv'
<1>1. UNCHANGED <<people, files, exporters, sweeping, faults, delivered>> /\ clerks[w] = AtRest
  BY DEF ClaimAdminUserBulkMail
<1>2. PICK j \in BulkIds, u \in Targets :
        /\ ClaimableItem(j, u)
        /\ IF Bulk(j, u).tries >= MaxTries
           THEN /\ bulk' = [bulk EXCEPT ![j] = refreshAdminUserBulkJobTx([bulk[j] EXCEPT !.targets[u] = Settled(Bulk(j, u), "failed")])]
                /\ UNCHANGED clerks
           ELSE /\ bulk' = [bulk EXCEPT ![j] = [bulk[j] EXCEPT !.status = "running",
                     !.targets[u] = [Bulk(j, u) EXCEPT !.st = "processing", !.tries = Bulk(j, u).tries + 1, !.claim = w, !.stale = FALSE]]]
                /\ clerks' = [clerks EXCEPT ![w] =
                     [stage |-> "claimed", job |-> j, user |-> u, tries |-> Bulk(j, u).tries + 1]]
  <2>1. PICK j \in BulkIds, u \in Targets :
        /\ ClaimableItem(j, u)
        /\ IF Bulk(j, u).tries >= MaxTries
           THEN /\ bulk' = [bulk EXCEPT ![j] = refreshAdminUserBulkJobTx([@ EXCEPT !.targets[u] = Settled(Bulk(j, u), "failed")])]
                /\ UNCHANGED clerks
           ELSE /\ bulk' = [bulk EXCEPT ![j] = [@ EXCEPT !.status = "running",
                     !.targets[u] = [Bulk(j, u) EXCEPT !.st = "processing", !.tries = Bulk(j, u).tries + 1, !.claim = w, !.stale = FALSE]]]
                /\ clerks' = [clerks EXCEPT ![w] =
                     [stage |-> "claimed", job |-> j, user |-> u, tries |-> Bulk(j, u).tries + 1]]
    BY Zenon DEF ClaimAdminUserBulkMail
  <2> QED BY <2>1
<1>3. bulk[j].kind = "mail" /\ Bulk(j, u).st \in {"pending", "processing"} /\ bulk[j].status \in {"queued", "running"}
  BY <1>2 DEF ClaimableItem
<1> PICK v \in JobRecord, b \in Item : v = bulk[j] /\ b = Bulk(j, u) /\ b = v.targets[u]
  BY ItemOf
<1>4. CASE b.tries >= MaxTries
  <2> PICK t \in Item : t = Settled(b, "failed") /\ t.st = "failed" /\ t.tries = b.tries
    <3>1. Settled(b, "failed") \in Item /\ Settled(b, "failed").st = "failed" /\ Settled(b, "failed").tries = b.tries
      BY ItemSettled DEF ItemStates
    <3> QED BY <3>1
  <2> PICK r : r = refreshAdminUserBulkJobTx([bulk[j] EXCEPT !.targets[u] = t])
    OBVIOUS
  <2>1. r \in JobRecord /\ JobSound(r, delivered[j]) /\ MovedOn(bulk[j], r)
    BY <1>3, SettleOne
  <2>2. bulk' = [bulk EXCEPT ![j] = r] /\ UNCHANGED clerks
    BY <1>2, <1>4
  <2> QED BY <1>1, <2>1, <2>2, OneMovesOn, CalmAll, JobsMoveOn
<1>5. CASE ~(b.tries >= MaxTries)
  <2>0. b.tries \in Nat /\ b.tries < MaxTries /\ MaxTries \in Nat
    BY <1>5, BulkConstants DEF Item
  <2> PICK n \in Nat : n = b.tries + 1
    BY <2>0
  <2> PICK t : t = [b EXCEPT !.st = "processing", !.tries = n, !.claim = w, !.stale = FALSE]
    OBVIOUS
  <2>1. t \in Item /\ t.st = "processing" /\ t.tries = n
    BY DEF Item, ItemStates, Claimants
  <2> PICK x : x = [v EXCEPT !.targets[u] = t]
    OBVIOUS
  <2>2. /\ x \in JobRecord /\ x.kind = v.kind /\ x.status = v.status
        /\ x.key = v.key /\ x.path = v.path /\ x.out = v.out /\ x.overrun = v.overrun
        /\ x.targets[u] = t /\ \A y \in Targets \ {u} : x.targets[y] = v.targets[y]
    BY <2>1, OneRetargeted
  <2> PICK r : r = [x EXCEPT !.status = "running"]
    OBVIOUS
  <2>3. /\ r \in JobRecord /\ r.kind = "mail" /\ r.status = "running"
        /\ r.key = v.key /\ r.path = v.path /\ r.out = v.out /\ r.overrun = v.overrun
        /\ r.targets[u] = t /\ \A y \in Targets \ {u} : r.targets[y] = v.targets[y]
    <3>1. r \in JobRecord /\ r.kind = x.kind /\ r.status = "running" /\ r.key = x.key /\ r.path = x.path /\ r.out = x.out
          /\ r.overrun = x.overrun /\ r.targets = x.targets
      BY <2>2, Restarted
    <3> QED BY <1>3, <2>2, <3>1
  <2>4. bulk' = [bulk EXCEPT ![j] = r]
    <3>1. r = [v EXCEPT !.status = "running", !.targets[u] = t]
      BY DEF JobRecord
    <3> QED BY <1>2, <1>5, <3>1
  <2> PICK d : d = [stage |-> "claimed", job |-> j, user |-> u, tries |-> n]
    OBVIOUS
  <2>5. d \in ClerkState /\ clerks' = [clerks EXCEPT ![w] = d]
    BY <1>2, <1>5 DEF ClerkState
  <2>6. JobSound(v, delivered[j])
    BY DEF BulkInv, JobsSound
  <2>7. JobSound(r, delivered[j])
    BY <1>3, <2>0, <2>1, <2>3, <2>6 DEF JobSound, ItemSound, ItemEnded, OverStates
  \* What the exports depend on is as it was; the claim is one attempt more.
  <2>8. ClaimOnly:: BulkTypeOK' /\ JobsSound'
    BY <1>1, <2>3, <2>4, <2>5, <2>7 DEF BulkInv, BulkTypeOK, JobsSound
  <2>9. AttemptsCounted'
    <3> SUFFICES ASSUME NEW i \in BulkIds, NEW y \in Targets
                 PROVE  IsFiniteSet(About(i, y)') /\ delivered'[i][y] + Cardinality(About(i, y)') <= Bulk(i, y)'.tries
      BY DEF AttemptsCounted, About, Bulk
    <3>1. /\ IsFiniteSet(About(i, y)) /\ delivered[i][y] + Cardinality(About(i, y)) <= Bulk(i, y).tries
          /\ delivered[i][y] \in Nat /\ Bulk(i, y).tries \in Nat
      BY DEF BulkInv, AttemptsCounted, BulkTypeOK, Bulk, JobRecord, Item
    <3>2. Cardinality(About(i, y)) \in Nat
      BY <3>1, FS_CardinalityType
    <3>3. w \notin About(i, y)
      BY <1>1, AtRestIdle DEF About
    <3>4. \A z \in Clerks : z # w => clerks'[z] = clerks[z]
      BY <2>5 DEF BulkInv, BulkTypeOK
    <3>5. clerks'[w] = d
      BY <2>5 DEF BulkInv, BulkTypeOK
    <3>6. CASE i = j /\ y = u
      <4>1. About(i, y)' = About(i, y) \cup {w}
        BY <3>4, <3>5, <3>6 DEF About
      <4>2. Bulk(i, y)'.tries = n
        BY <2>1, <2>3, <2>4, <3>6 DEF Bulk, BulkInv, BulkTypeOK
      <4>3. IsFiniteSet(About(i, y)') /\ Cardinality(About(i, y)') = Cardinality(About(i, y)) + 1
        BY <3>1, <3>3, <4>1, FS_AddElement
      <4>4. Bulk(i, y).tries = b.tries /\ b.tries \in Nat /\ delivered' = delivered
        BY <1>1, <3>6 DEF Item
      <4> QED BY <3>1, <3>2, <4>2, <4>3, <4>4
    <3>7. CASE ~(i = j /\ y = u)
      <4>1. About(i, y)' = About(i, y)
        BY <1>1, <3>3, <3>4, <3>5, <3>7 DEF About
      <4>2. Bulk(i, y)'.tries = Bulk(i, y).tries
        BY <2>3, <2>4, <3>7 DEF Bulk, BulkInv, BulkTypeOK
      <4> QED BY <1>1, <3>1, <4>1, <4>2
    <3> QED BY <3>6, <3>7
  <2>10. SentMails'
    BY <1>1, <2>5 DEF SentMails, BulkInv, BulkTypeOK
  <2>11. \A i \in BulkIds : /\ bulk'[i].kind = bulk[i].kind /\ bulk'[i].key = bulk[i].key /\ bulk'[i].path = bulk[i].path
                            /\ bulk'[i].out = bulk[i].out /\ bulk'[i].overrun = bulk[i].overrun
                            /\ Selected(bulk'[i]) = Selected(bulk[i])
                            /\ i # j => bulk'[i] = bulk[i]
    <3>1. Selected(r) = Selected(v)
      BY <1>3, <2>1, <2>3 DEF Selected
    <3> QED BY <1>3, <2>3, <2>4, <3>1 DEF BulkInv, BulkTypeOK
  <2>12. OneBan'
    BY <2>11 DEF OneBan, BulkInv
  <2>13. ASSUME NEW i \in BulkIds PROVE ExportSound(i)'
    <3>1. ExportSound(i)
      BY DEF BulkInv, ExportsSound
    <3>2. bulk'[i].status = "succeeded" <=> bulk[i].status = "succeeded"
      BY <1>3, <2>3, <2>4 DEF BulkInv, BulkTypeOK
    <3>3. \A x1 \in Exporters : At(x1, i)' <=> At(x1, i)
      BY <1>1 DEF At
    <3> QED BY <1>1, <2>11, <3>1, <3>2, <3>3 DEF ExportSound, Selected
  <2>14. ASSUME NEW y \in Exporters PROVE ExporterSound(y)'
    <3>1. exporters[y] # AtRest => exporters[y].job \in BulkIds
      BY DEF BulkInv, BulkTypeOK, ExporterState
    <3> QED BY <1>1, <2>11, <3>1 DEF ExporterSound, BulkInv, ExportsSound, Selected
  <2> QED BY <2>8, <2>9, <2>10, <2>12, <2>13, <2>14 DEF BulkInv, ExportsSound
<1> QED BY <1>4, <1>5

LEMMA SendBulkKeeps == ASSUME BulkInv, NEW w \in Clerks, SendBulkMail(w) PROVE BulkInv'
<1> PICK c : c = clerks[w]
  OBVIOUS
<1>1. UNCHANGED <<people, bulk, files, exporters, sweeping, faults>> /\ c.stage \in {"claimed", "checked"}
  BY DEF SendBulkMail
<1>2. c \in ClerkState /\ c # AtRest
  BY <1>1, AtRestIdle DEF BulkInv, BulkTypeOK
<1>3. c \in [stage : {"claimed", "checked", "sent", "failed"}, job : BulkIds, user : Targets, tries : Nat]
  BY <1>2 DEF ClerkState
<1>4. CASE clerks' = [clerks EXCEPT ![w].stage = "failed"] /\ UNCHANGED delivered
  <2> PICK d : d = [c EXCEPT !.stage = "failed"]
    OBVIOUS
  <2>1. d \in ClerkState /\ CalmClerk(c, d) /\ clerks' = [clerks EXCEPT ![w] = d]
    BY <1>3, <1>4 DEF ClerkState, CalmClerk
  <2> QED BY <1>1, <1>4, <2>1, NoneMoves, CalmOneClerk, CalmAll, JobsMoveOn
<1>5. CASE clerks' = [clerks EXCEPT ![w].stage = "sent"] /\ delivered' = [delivered EXCEPT ![c.job][c.user] = @ + 1]
  <2> PICK j \in BulkIds, u \in Targets : j = c.job /\ u = c.user
    BY <1>3
  <2> PICK d : d = [c EXCEPT !.stage = "sent"]
    OBVIOUS
  <2>1. d \in ClerkState /\ d.stage = "sent" /\ d.job = j /\ d.user = u /\ clerks' = [clerks EXCEPT ![w] = d]
    BY <1>3, <1>5 DEF ClerkState
  <2>2. /\ delivered' \in [BulkIds -> [Targets -> Nat]]
        /\ delivered'[j][u] = delivered[j][u] + 1 /\ delivered[j][u] \in Nat
        /\ \A i \in BulkIds, y \in Targets : ~(i = j /\ y = u) => delivered'[i][y] = delivered[i][y]
    <3> PICK n \in Nat : n = delivered[j][u]
      BY DEF BulkInv, BulkTypeOK
    <3>1. delivered' = [delivered EXCEPT ![j] = [delivered[j] EXCEPT ![u] = n + 1]]
      BY <1>5
    <3>2. delivered \in [BulkIds -> [Targets -> Nat]] /\ n + 1 \in Nat
      BY DEF BulkInv, BulkTypeOK
    <3> QED BY <3>1, <3>2
  <2>3. BulkTypeOK'
    BY <1>1, <2>1, <2>2 DEF BulkInv, BulkTypeOK
  <2>4. JobsSound'
    <3> SUFFICES ASSUME NEW i \in BulkIds, NEW y \in Targets
                 PROVE  ItemSound(bulk[i].kind, bulk[i].targets[y], delivered'[i][y])
                        /\ ItemEnded(bulk[i].kind, bulk[i].status, bulk[i].targets[y])
      BY <1>1 DEF JobsSound, JobSound
    <3>1. ItemSound(bulk[i].kind, bulk[i].targets[y], delivered[i][y])
          /\ ItemEnded(bulk[i].kind, bulk[i].status, bulk[i].targets[y])
      BY DEF BulkInv, JobsSound, JobSound
    <3>2. delivered'[i][y] > 0 \/ delivered'[i][y] = delivered[i][y]
      BY <2>2
    <3> QED BY <3>1, <3>2 DEF ItemSound
  <2>5. \A z \in Clerks : z # w => clerks'[z] = clerks[z]
    BY <2>1 DEF BulkInv, BulkTypeOK
  <2>6. clerks'[w] = d
    BY <2>1 DEF BulkInv, BulkTypeOK
  <2>7. AttemptsCounted'
    <3> SUFFICES ASSUME NEW i \in BulkIds, NEW y \in Targets
                 PROVE  IsFiniteSet(About(i, y)') /\ delivered'[i][y] + Cardinality(About(i, y)') <= Bulk(i, y).tries
      BY <1>1 DEF AttemptsCounted, About, Bulk
    <3>1. /\ IsFiniteSet(About(i, y)) /\ delivered[i][y] + Cardinality(About(i, y)) <= Bulk(i, y).tries
          /\ delivered[i][y] \in Nat /\ Bulk(i, y).tries \in Nat
      BY DEF BulkInv, AttemptsCounted, BulkTypeOK, Bulk, JobRecord, Item
    <3>2. Cardinality(About(i, y)) \in Nat
      BY <3>1, FS_CardinalityType
    <3>3. CASE i = j /\ y = u
      <4>1. About(i, y)' = About(i, y) \ {w} /\ w \in About(i, y)
        BY <1>1, <2>1, <2>5, <2>6, <3>3 DEF About
      <4>2. IsFiniteSet(About(i, y)') /\ Cardinality(About(i, y)') = Cardinality(About(i, y)) - 1
        BY <3>1, <4>1, FS_RemoveElement
      <4> QED BY <2>2, <3>1, <3>2, <3>3, <4>2
    <3>4. CASE ~(i = j /\ y = u)
      <4>1. About(i, y)' = About(i, y)
        BY <2>1, <2>5, <2>6, <3>4 DEF About
      <4> QED BY <2>2, <3>1, <3>4, <4>1
    <3> QED BY <3>3, <3>4
  <2>8. SentMails'
    <3> SUFFICES ASSUME NEW z \in Clerks, clerks'[z].stage = "sent" PROVE delivered'[clerks'[z].job][clerks'[z].user] > 0
      BY DEF SentMails
    <3>1. CASE z = w
      BY <2>1, <2>2, <2>6, <3>1
    <3>2. CASE z # w
      <4>1. clerks'[z] = clerks[z] /\ delivered[clerks[z].job][clerks[z].user] > 0
        BY <2>5, <3>2 DEF BulkInv, SentMails
      <4>2. clerks[z].job \in BulkIds /\ clerks[z].user \in Targets
        BY <4>1, AtRestIdle DEF BulkInv, BulkTypeOK, ClerkState
      <4> QED BY <2>2, <4>1, <4>2
    <3> QED BY <3>1, <3>2
  <2>9. OneBan' /\ ExportsSound'
    BY <1>1 DEF OneBan, BulkInv, ExportsSound, ExportSound, ExporterSound, At, Selected
  <2> QED BY <2>3, <2>4, <2>7, <2>8, <2>9 DEF BulkInv
<1> QED BY <1>4, <1>5 DEF SendBulkMail

-----------------------------------------------------------------------------
\* Steps that mails and bans do not feel.
\* One job is another record with the same mails.
LEMMA MailsAside ==
    ASSUME BulkInv, NEW j \in BulkIds, NEW r \in JobRecord, bulk' = [bulk EXCEPT ![j] = r], r.kind = bulk[j].kind, r.key = bulk[j].key,
           JobSound(r, delivered[j]), \A u \in Targets : r.targets[u].tries = bulk[j].targets[u].tries,
           people' \in [Targets -> Person], files' \in [BulkIds -> SUBSET (Targets \cup {0})],
           exporters' \in [Exporters -> ExporterState], sweeping' \in BulkIds \cup {0}, UNCHANGED <<clerks, delivered>>
    PROVE  BulkTypeOK' /\ JobsSound' /\ AttemptsCounted' /\ SentMails' /\ OneBan'
<1>1. BulkTypeOK'
  BY DEF BulkInv, BulkTypeOK
<1>2. \A i \in BulkIds : i # j => bulk'[i] = bulk[i]
  BY DEF BulkInv, BulkTypeOK
<1>3. bulk'[j] = r
  BY DEF BulkInv, BulkTypeOK
<1>4. JobsSound'
  BY <1>2, <1>3 DEF JobsSound, BulkInv
<1>5. \A i \in BulkIds, u \in Targets : Bulk(i, u)'.tries = Bulk(i, u).tries
  BY <1>2, <1>3 DEF Bulk
<1>6. AttemptsCounted' /\ SentMails'
  BY <1>5, CalmAll, CalmClerksKeep
<1>7. OneBan'
  BY <1>2, <1>3 DEF OneBan, BulkInv
<1> QED BY <1>1, <1>4, <1>6, <1>7

LEMMA MailsRest ==
    ASSUME BulkInv, UNCHANGED <<bulk, clerks, delivered>>,
           people' \in [Targets -> Person], files' \in [BulkIds -> SUBSET (Targets \cup {0})],
           exporters' \in [Exporters -> ExporterState], sweeping' \in BulkIds \cup {0}
    PROVE  BulkTypeOK' /\ JobsSound' /\ AttemptsCounted' /\ SentMails' /\ OneBan'
<1>1. BulkTypeOK' /\ JobsSound'
  BY DEF BulkInv, BulkTypeOK, JobsSound
<1>2. AttemptsCounted' /\ SentMails'
  BY CalmAll, CalmClerksKeep DEF Bulk
<1>3. OneBan'
  BY DEF OneBan, BulkInv
<1> QED BY <1>1, <1>2, <1>3

LEMMA ExportsAre == ASSUME BulkInv
                    PROVE  /\ \A j \in BulkIds : ExportSound(j) /\ Selected(bulk[j]) \subseteq Targets
                           /\ \A x \in Exporters : ExporterSound(x) /\ (exporters[x] # AtRest => exporters[x].job \in BulkIds)
  BY DEF BulkInv, ExportsSound, Selected, BulkTypeOK, ExporterState

LEMMA ZeroIsNobody == NoFile = {0} /\ NoFile \subseteq Targets \cup {0} /\ 0 \notin Targets
  BY BulkConstants DEF NoFile

LEMMA RefreshKeeps == ASSUME BulkInv, NEW x \in Exporters, RefreshAdminUserBulkCSVClaim(x) PROVE BulkInv'
<1> PICK e : e = exporters[x]
  OBVIOUS
<1>1. UNCHANGED <<people, files, clerks, sweeping, faults, delivered>> /\ e.stage = "wrote"
  BY DEF RefreshAdminUserBulkCSVClaim
<1>2. e # AtRest /\ e.job \in BulkIds /\ e \in [stage : {"writing", "wrote", "published"}, job : BulkIds, at : Nat, rows : SUBSET Targets]
      /\ e.rows \subseteq Selected(bulk[e.job])
  BY <1>1, ExporterAt
<1>3. CASE Exporting(x)
  <2> PICK j \in BulkIds, v \in JobRecord : j = e.job /\ v = bulk[j]
    BY <1>2, ItemOf DEF BulkInv, BulkTypeOK
  <2>1. v.status = "running"
    BY <1>3 DEF Exporting
  <2> PICK r : r = [v EXCEPT !.stale = FALSE]
    OBVIOUS
  <2>2. r \in JobRecord /\ r.kind = v.kind /\ r.status = v.status /\ r.targets = v.targets
        /\ r.key = v.key /\ r.path = v.path /\ r.out = v.out /\ r.overrun = v.overrun
    BY DEF JobRecord
  <2>3. JobSound(r, delivered[j]) /\ MovedOn(bulk[j], r)
    BY <2>1, <2>2 DEF JobSound, BulkInv, JobsSound, MovedOn, Alike, OverStates
  <2>4. bulk' = [bulk EXCEPT ![j] = r] /\ exporters' = [exporters EXCEPT ![x] = [e EXCEPT !.stage = "writing"]]
    BY <1>3 DEF RefreshAdminUserBulkCSVClaim
  <2> PICK f : f = [e EXCEPT !.stage = "writing"]
    OBVIOUS
  <2>5. f \in [stage : {"writing", "wrote", "published"}, job : BulkIds, at : Nat, rows : SUBSET Targets] /\ f.job = j
        /\ f.stage = "writing" /\ f.rows \subseteq Selected(bulk[j])
    BY <1>2
  <2>6. f \in ExporterState /\ CalmExporter(e, f)
    BY <1>2, <2>5 DEF ExporterState, CalmExporter
  <2> QED BY <1>1, <2>3, <2>4, <2>2, <2>6, OneMovesOn, CalmAll, CalmOneExporter, JobsMoveOn
<1>4. CASE ~Exporting(x)
  <2>1. exporters' = [exporters EXCEPT ![x] = AtRest] /\ UNCHANGED bulk
    BY <1>4 DEF RefreshAdminUserBulkCSVClaim
  <2>2. AtRest \in ExporterState /\ CalmExporter(e, AtRest)
    BY DEF CalmExporter, ExporterState
  <2> QED BY <1>1, <2>1, <2>2, NoneMoves, CalmAll, CalmOneExporter, JobsMoveOn
<1> QED BY <1>3, <1>4

\* A job whose open targets all end with it.
LEMMA FinishedJob ==
    ASSUME BulkInv, NEW j \in BulkIds, bulk[j].kind = "csv", NEW to \in {"succeeded", "failed"}
    PROVE  LET r == Finished(bulk[j], to) IN
           /\ r \in JobRecord /\ JobSound(r, delivered[j]) /\ r.kind = "csv" /\ r.status = to /\ r.key = bulk[j].key
           /\ r.path = bulk[j].path /\ r.out = bulk[j].out /\ r.overrun = bulk[j].overrun
           /\ \A u \in Targets : /\ r.targets[u].tries = bulk[j].targets[u].tries
                                 /\ r.targets[u].st = "none" <=> bulk[j].targets[u].st = "none"
<1> PICK v \in JobRecord : v = bulk[j]
  BY ItemOf DEF BulkInv, BulkTypeOK
<1> DEFINE f == [u \in Targets |-> IF v.targets[u].st = "pending" THEN [v.targets[u] EXCEPT !.st = to] ELSE v.targets[u]]
<1>1. ASSUME NEW u \in Targets
      PROVE  f[u] \in Item /\ f[u].tries = v.targets[u].tries /\ f[u].st # "pending"
             /\ (f[u].st = v.targets[u].st \/ (v.targets[u].st # "none" /\ f[u].st = to))
  <2>1. v.targets[u] \in Item
    BY DEF JobRecord
  <2>2. to \in ItemStates /\ to # "pending"
    BY DEF ItemStates
  <2> QED BY <2>1, <2>2 DEF Item
<1>2. f \in [Targets -> Item]
  BY <1>1
<1> PICK r : r = Finished(v, to)
  OBVIOUS
<1>3. r = [v EXCEPT !.status = to, !.claim = Free, !.stale = FALSE, !.targets = f]
  BY DEF Finished
<1> HIDE DEF f
<1>4. r \in JobRecord /\ r.targets = f /\ r.kind = v.kind /\ r.status = to /\ r.key = v.key /\ r.path = v.path
      /\ r.out = v.out /\ r.overrun = v.overrun
  BY <1>2, <1>3 DEF JobRecord, Claimants, OverStates
<1>5. JobSound(r, delivered[j])
  <2> SUFFICES ASSUME NEW u \in Targets
               PROVE  ItemSound("csv", f[u], delivered[j][u]) /\ ItemEnded("csv", to, f[u])
    BY <1>4 DEF JobSound
  <2>1. ItemSound("csv", v.targets[u], delivered[j][u])
    BY DEF BulkInv, JobsSound, JobSound
  <2> QED BY <1>1, <2>1 DEF ItemSound, ItemEnded
<1> QED BY <1>1, <1>4, <1>5

LEMMA FailKeeps == ASSUME BulkInv, NEW x \in Exporters, FailAdminUserBulkCSV(x) PROVE BulkInv'
<1> PICK e : e = exporters[x]
  OBVIOUS
<1>1. UNCHANGED <<people, files, clerks, sweeping, faults, delivered>> /\ e.stage \in {"writing", "wrote"}
      /\ exporters' = [exporters EXCEPT ![x] = AtRest]
  BY DEF FailAdminUserBulkCSV
<1>2. e.job \in BulkIds /\ bulk[e.job].kind = "csv"
  BY <1>1, ExporterAt
<1>3. AtRest \in ExporterState /\ CalmExporter(e, AtRest)
  BY DEF CalmExporter, ExporterState
<1>4. CASE Exporting(x)
  <2> PICK j \in BulkIds : j = e.job
    BY <1>2
  <2>1. bulk[j].status = "running"
    BY <1>4 DEF Exporting
  <2> PICK r : r = Finished(bulk[j], "failed")
    OBVIOUS
  <2>2. /\ r \in JobRecord /\ JobSound(r, delivered[j]) /\ r.kind = bulk[j].kind /\ r.status = "failed" /\ r.key = bulk[j].key
        /\ r.path = bulk[j].path /\ r.out = bulk[j].out /\ r.overrun = bulk[j].overrun
        /\ \A u \in Targets : /\ r.targets[u].tries = bulk[j].targets[u].tries
                              /\ r.targets[u].st = "none" <=> bulk[j].targets[u].st = "none"
    BY <1>2, FinishedJob
  <2>3. MovedOn(bulk[j], r)
    BY <2>1, <2>2 DEF MovedOn, Alike, OverStates
  <2>4. bulk' = [bulk EXCEPT ![j] = r]
    BY <1>4 DEF FailAdminUserBulkCSV
  <2> QED BY <1>1, <1>3, <2>2, <2>3, <2>4, OneMovesOn, CalmAll, CalmOneExporter, JobsMoveOn
<1>5. CASE ~Exporting(x)
  <2>1. UNCHANGED bulk
    BY <1>5 DEF FailAdminUserBulkCSV
  <2> QED BY <1>1, <1>3, <2>1, NoneMoves, CalmAll, CalmOneExporter, JobsMoveOn
<1> QED BY <1>4, <1>5

LEMMA ClaimCSVKeeps == ASSUME BulkInv, NEW x \in Exporters, NEW j \in BulkIds, ClaimAdminUserBulkCSV(x, j) PROVE BulkInv'
<1> PICK v \in JobRecord : v = bulk[j]
  BY ItemOf DEF BulkInv, BulkTypeOK
<1> PICK o \in BOOLEAN : o <=> v.overrun \/ \E y \in Exporters : At(y, j)
  <2>1. \E o \in BOOLEAN : o <=> v.overrun \/ \E y \in Exporters : At(y, j)
    <3>1. CASE v.overrun \/ \E y \in Exporters : At(y, j)
      <4> WITNESS TRUE \in BOOLEAN
      <4> QED BY <3>1
    <3>2. CASE ~(v.overrun \/ \E y \in Exporters : At(y, j))
      <4> WITNESS FALSE \in BOOLEAN
      <4> QED BY <3>2
    <3> QED BY <3>1, <3>2
  <2> QED BY <2>1
<1>1. /\ exporters[x] = AtRest /\ Exportable(j) /\ UNCHANGED <<people, files, clerks, sweeping, faults, delivered>>
      /\ exporters' = [exporters EXCEPT ![x] = [stage |-> "writing", job |-> j, at |-> 0, rows |-> {}]]
      /\ bulk' = [bulk EXCEPT ![j] = [v EXCEPT !.status = "running", !.claim = x, !.stale = FALSE,
            !.overrun = v.overrun \/ \E y \in Exporters : exporters[y] # AtRest /\ exporters[y].job = j]]
  BY DEF ClaimAdminUserBulkCSV
<1>2. v.kind = "csv" /\ v.status \in {"queued", "running"}
  BY <1>1 DEF Exportable
<1> PICK r : r = [v EXCEPT !.status = "running", !.claim = x, !.stale = FALSE,
                     !.overrun = v.overrun \/ \E y \in Exporters : exporters[y] # AtRest /\ exporters[y].job = j]
  OBVIOUS
<1>3. r = [v EXCEPT !.status = "running", !.claim = x, !.stale = FALSE, !.overrun = o]
  <2>1. v.overrun \in BOOLEAN
    BY DEF JobRecord
  <2>2. (v.overrun \/ \E y \in Exporters : exporters[y] # AtRest /\ exporters[y].job = j) = o
    BY <2>1, Zenon DEF At
  <2> QED BY <2>2
<1>4. /\ r \in JobRecord /\ r.kind = "csv" /\ r.status = "running" /\ r.key = v.key /\ r.path = v.path /\ r.out = v.out
      /\ (r.overrun <=> o) /\ r.targets = v.targets
  <2>1. x \in Claimants
    BY DEF Claimants
  <2> QED BY <1>2, <1>3, <2>1 DEF JobRecord
<1>5. bulk' = [bulk EXCEPT ![j] = r]
  BY <1>1
<1>6. JobSound(r, delivered[j])
  BY <1>2, <1>4 DEF JobSound, BulkInv, JobsSound, ItemEnded, OverStates
<1> PICK f : f = [stage |-> "writing", job |-> j, at |-> 0, rows |-> {}]
  OBVIOUS
<1>7. f \in ExporterState /\ f.stage = "writing" /\ f.job = j /\ f.rows = {} /\ exporters' = [exporters EXCEPT ![x] = f]
  BY <1>1 DEF ExporterState
<1>8. \A y \in Exporters : exporters'[y] = IF y = x THEN f ELSE exporters[y]
  BY <1>7 DEF BulkInv, BulkTypeOK
<1>9. \A i \in BulkIds : bulk'[i] = IF i = j THEN r ELSE bulk[i]
  BY <1>5 DEF BulkInv, BulkTypeOK
<1>10. exporters' \in [Exporters -> ExporterState]
  BY <1>7 DEF BulkInv, BulkTypeOK
<1>11. BulkTypeOK' /\ JobsSound' /\ AttemptsCounted' /\ SentMails' /\ OneBan'
  <2>1. files' \in [BulkIds -> SUBSET (Targets \cup {0})] /\ people' \in [Targets -> Person] /\ sweeping' \in BulkIds \cup {0}
    BY <1>1 DEF BulkInv, BulkTypeOK
  <2>2. r \in JobRecord /\ r.kind = bulk[j].kind /\ r.key = bulk[j].key /\ r.targets = bulk[j].targets
    BY <1>2, <1>4
  <2>3. UNCHANGED <<clerks, delivered>>
    BY <1>1
  <2> QED BY <1>5, <1>6, <1>10, <2>1, <2>2, <2>3, MailsAside
<1>12. f # AtRest
  BY <1>7, AtRestIdle
<1>13. ASSUME NEW i \in BulkIds PROVE ExportSound(i)'
  <2>1. ExportSound(i)
    BY ExportsAre
  <2>2. CASE i = j
    <3>1. Selected(r) = Selected(v)
      BY <1>4 DEF Selected
    <3>2. ~v.path
      BY <1>2, <2>1, <2>2 DEF ExportSound
    <3>3. ~o => \A y \in Exporters : At(y, j)' => y = x
      BY <1>8 DEF At
    <3>4. bulk'[j] = r /\ UNCHANGED <<people, files>>
      BY <1>1, <1>9
    <3>5. /\ \A u \in Selected(r) : people[u].life = "anonymous" => r.out = "void"
          /\ files[j] \ NoFile \subseteq Selected(r)
      BY <1>2, <1>4, <2>1, <2>2, <3>1 DEF ExportSound
    <3>6. ~r.path /\ r.kind = "csv" /\ r.status # "succeeded"
      BY <1>4, <3>2
    <3>7. ~r.overrun => \A y \in Exporters, z \in Exporters : At(y, j)' /\ At(z, j)' => y = z
      BY <1>4, <3>3
    <3> QED BY <2>2, <3>4, <3>5, <3>6, <3>7 DEF ExportSound, Selected
  <2>3. CASE i # j
    <3>1. \A y \in Exporters : At(y, i)' => At(y, i)
      BY <1>7, <1>8, <2>3 DEF At
    <3> QED BY <1>1, <1>9, <2>1, <2>3, <3>1 DEF ExportSound, Selected
  <2> QED BY <2>2, <2>3
<1>14. ASSUME NEW y \in Exporters PROVE ExporterSound(y)'
  <2>1. ExporterSound(y) /\ (exporters[y] # AtRest => exporters[y].job \in BulkIds)
    BY ExportsAre
  <2>2. CASE y = x
    <3> SUFFICES LET i == exporters'[y].job IN
                 /\ bulk'[i].kind = "csv" /\ exporters'[y].rows \subseteq Selected(bulk'[i])
                 /\ exporters'[y].stage = "published" /\ ~bulk'[i].overrun => files'[i] # NoFile
      BY DEF ExporterSound, Selected
    <3>1. exporters'[y] = f /\ bulk'[j] = r
      BY <1>8, <1>9, <2>2
    <3>2. r.kind = "csv" /\ f.stage # "published" /\ f.job = j /\ f.rows \subseteq Selected(r)
      BY <1>4, <1>7
    <3> QED BY <3>1, <3>2
  <2>3. CASE y # x
    <3> SUFFICES ASSUME exporters[y] # AtRest
                 PROVE  LET i == exporters[y].job IN
                        /\ bulk'[i].kind = "csv" /\ exporters[y].rows \subseteq Selected(bulk'[i])
                        /\ exporters[y].stage = "published" /\ ~bulk'[i].overrun => files[i] # NoFile
      BY <1>1, <1>8, <2>3 DEF ExporterSound, Selected
    <3> PICK i \in BulkIds : i = exporters[y].job
      BY <2>1
    <3>1. CASE i = j
      <4>1. o
        BY <3>1 DEF At
      <4>2. Selected(r) = Selected(v)
        BY <1>4 DEF Selected
      <4> QED BY <1>4, <1>9, <2>1, <3>1, <4>1, <4>2 DEF ExporterSound
    <3>2. CASE i # j
      BY <1>9, <2>1, <3>2 DEF ExporterSound
    <3> QED BY <3>1, <3>2
  <2> QED BY <2>2, <2>3
<1> QED BY <1>11, <1>13, <1>14 DEF BulkInv, ExportsSound

\* The exporters and the exports, one by one.
LEMMA ExportsSplit ==
    ASSUME \A j \in BulkIds : ExportSound(j)', \A x \in Exporters : ExporterSound(x)',
           BulkTypeOK', JobsSound', AttemptsCounted', SentMails', OneBan'
    PROVE  BulkInv'
  BY DEF BulkInv, ExportsSound

LEMMA PublishKeeps == ASSUME BulkInv, NEW x \in Exporters, Publish(x) PROVE BulkInv'
<1> PICK e : e = exporters[x]
  OBVIOUS
<1>1. UNCHANGED <<people, bulk, clerks, sweeping, faults, delivered>> /\ e.stage = "writing"
      /\ files' = [files EXCEPT ![e.job] = e.rows] /\ exporters' = [exporters EXCEPT ![x].stage = "published"]
  BY DEF Publish
<1>2. e # AtRest /\ e.job \in BulkIds /\ e \in [stage : {"writing", "wrote", "published"}, job : BulkIds, at : Nat, rows : SUBSET Targets]
      /\ e.rows \subseteq Selected(bulk[e.job]) /\ bulk[e.job].kind = "csv"
  BY <1>1, ExporterAt
<1> PICK j \in BulkIds : j = e.job
  BY <1>2
<1> PICK f : f = [e EXCEPT !.stage = "published"]
  OBVIOUS
<1>3. f \in ExporterState /\ f.stage = "published" /\ f.job = j /\ f.rows = e.rows /\ exporters' = [exporters EXCEPT ![x] = f]
  BY <1>1, <1>2 DEF ExporterState
<1>4. f # AtRest
  BY <1>3, AtRestIdle
<1>5. \A y \in Exporters : exporters'[y] = IF y = x THEN f ELSE exporters[y]
  BY <1>3 DEF BulkInv, BulkTypeOK
<1>6. /\ exporters' \in [Exporters -> ExporterState] /\ files' \in [BulkIds -> SUBSET (Targets \cup {0})]
      /\ people' \in [Targets -> Person] /\ sweeping' \in BulkIds \cup {0}
  BY <1>1, <1>2, <1>3 DEF BulkInv, BulkTypeOK
<1>7. \A i \in BulkIds : files'[i] = IF i = j THEN e.rows ELSE files[i]
  BY <1>1 DEF BulkInv, BulkTypeOK
<1>8. BulkTypeOK' /\ JobsSound' /\ AttemptsCounted' /\ SentMails' /\ OneBan'
  BY <1>1, <1>6, MailsRest
<1>9. e.rows # NoFile /\ NoFile = {0}
  BY <1>2, ZeroIsNobody
<1>10. \A y \in Exporters, i \in BulkIds : At(y, i)' <=> At(y, i)
  BY <1>2, <1>3, <1>4, <1>5 DEF At
<1>11. ASSUME NEW i \in BulkIds PROVE ExportSound(i)'
  <2>1. ExportSound(i)
    BY ExportsAre
  <2>2. files'[i] \ NoFile \subseteq Selected(bulk[i]) /\ (bulk[i].kind # "csv" => files'[i] = NoFile)
        /\ (files[i] # NoFile => files'[i] # NoFile)
    <3>1. CASE i = j
      BY <1>2, <1>7, <1>9, <3>1
    <3>2. CASE i # j
      BY <1>7, <2>1, <3>2 DEF ExportSound
    <3> QED BY <3>1, <3>2
  <2> QED BY <1>1, <1>10, <2>1, <2>2 DEF ExportSound, Selected
<1>12. ASSUME NEW y \in Exporters PROVE ExporterSound(y)'
  <2>1. ExporterSound(y) /\ (exporters[y] # AtRest => exporters[y].job \in BulkIds)
    BY ExportsAre
  <2> SUFFICES ASSUME exporters'[y] # AtRest
               PROVE  LET i == exporters'[y].job IN
                      /\ bulk[i].kind = "csv" /\ exporters'[y].rows \subseteq Selected(bulk[i])
                      /\ exporters'[y].stage = "published" /\ ~bulk[i].overrun => files'[i] # NoFile
    BY <1>1 DEF ExporterSound, Selected
  <2>2. CASE y = x
    <3>1. exporters'[y] = f
      BY <1>5, <2>2
    <3> QED BY <1>2, <1>3, <1>7, <1>9, <3>1
  <2>3. CASE y # x
    <3>1. exporters'[y] = exporters[y]
      BY <1>5, <2>3
    <3> PICK i \in BulkIds : i = exporters[y].job
      BY <2>1, <3>1
    <3>2. files[i] # NoFile => files'[i] # NoFile
      BY <1>7, <1>9
    <3> QED BY <2>1, <3>1, <3>2 DEF ExporterSound
  <2> QED BY <2>2, <2>3
<1> QED BY <1>8, <1>11, <1>12, ExportsSplit

WithPath(job, o) == [job EXCEPT !.path = TRUE, !.out = o]
LEMMA WithPathFields ==
    ASSUME NEW job \in JobRecord, NEW o \in {"void", "live"}, NEW r, r = WithPath(job, o)
    PROVE  /\ r \in JobRecord /\ r.kind = job.kind /\ r.status = job.status /\ r.key = job.key /\ r.path
           /\ r.out = o /\ r.overrun = job.overrun /\ r.targets = job.targets
<1> SUFFICES ASSUME NEW p \in BOOLEAN, p = TRUE, r = [job EXCEPT !.path = p, !.out = o]
             PROVE  /\ r \in JobRecord /\ r.kind = job.kind /\ r.status = job.status /\ r.key = job.key /\ r.path = p
                    /\ r.out = o /\ r.overrun = job.overrun /\ r.targets = job.targets
  BY Zenon DEF WithPath
<1> QED BY DEF JobRecord

LEMMA CompleteExportKeeps == ASSUME BulkInv, NEW x \in Exporters, CompleteAdminUserBulkCSV(x) PROVE BulkInv'
<1> PICK e : e = exporters[x]
  OBVIOUS
<1>1. UNCHANGED <<people, clerks, sweeping, faults, delivered>> /\ e.stage = "published"
      /\ exporters' = [exporters EXCEPT ![x] = AtRest]
  BY DEF CompleteAdminUserBulkCSV
<1>2. e # AtRest /\ e.job \in BulkIds /\ bulk[e.job].kind = "csv"
  BY <1>1, ExporterAt
<1> PICK j \in BulkIds, v \in JobRecord : j = e.job /\ v = bulk[j]
  BY <1>2, ItemOf DEF BulkInv, BulkTypeOK
<1>3. At(x, j)
  BY <1>2 DEF At
<1>4. \A y \in Exporters : exporters'[y] = IF y = x THEN AtRest ELSE exporters[y]
  BY <1>1 DEF BulkInv, BulkTypeOK
<1>5. exporters' \in [Exporters -> ExporterState] /\ people' \in [Targets -> Person] /\ sweeping' \in BulkIds \cup {0}
  BY <1>1 DEF BulkInv, BulkTypeOK, ExporterState
<1>6. ~v.overrun => \A y \in Exporters : At(y, j) => y = x
  BY <1>3, ExportsAre DEF ExportSound
<1>7. \A y \in Exporters, i \in BulkIds : At(y, i)' <=> At(y, i) /\ y # x
  BY <1>4 DEF At
<1>8. CASE Exporting(x)
  <2>0. v.status = "running" /\ v.kind = "csv" /\ ~v.path
    BY <1>2, <1>8, ExportsAre DEF Exporting, ExportSound
  <2> PICK g : g = Finished(bulk[j], "succeeded")
    OBVIOUS
  <2>1. /\ g \in JobRecord /\ JobSound(g, delivered[j]) /\ g.kind = "csv" /\ g.status = "succeeded" /\ g.key = v.key
        /\ g.path = v.path /\ g.out = v.out /\ g.overrun = v.overrun
        /\ \A u \in Targets : /\ g.targets[u].tries = v.targets[u].tries
                              /\ g.targets[u].st = "none" <=> v.targets[u].st = "none"
    BY <2>0, FinishedJob
  <2> PICK o : o = IF v.out = "void" THEN "void" ELSE "live"
    OBVIOUS
  <2> PICK r : r = WithPath(g, o)
    OBVIOUS
  <2>10. /\ r \in JobRecord /\ r.kind = g.kind /\ r.status = g.status /\ r.key = g.key /\ r.path
         /\ r.out = o /\ r.overrun = g.overrun /\ r.targets = g.targets
    <3>1. o \in {"void", "live"}
      OBVIOUS
    <3>2. g \in JobRecord
      BY <2>1
    <3> QED BY <3>1, <3>2, WithPathFields
  <2>11. r \in JobRecord /\ r.kind = g.kind /\ r.status = g.status /\ r.key = g.key
         /\ r.out = o /\ r.overrun = g.overrun /\ r.targets = g.targets
    BY <2>10
  <2>2. /\ r \in JobRecord /\ r.kind = "csv" /\ r.status = "succeeded" /\ r.key = v.key /\ r.out = o
        /\ r.overrun = v.overrun /\ r.targets = g.targets
    BY <2>1, <2>11
  <2>3. bulk' = [bulk EXCEPT ![j] = r] /\ UNCHANGED files
    BY <1>8, Zenon DEF CompleteAdminUserBulkCSV, WithPath
  <2>4. JobSound(r, delivered[j])
    <3>1. JobSound(g, delivered[j])
      BY <2>1
    <3> QED BY <2>11, <3>1 DEF JobSound
  <2>5. BulkTypeOK' /\ JobsSound' /\ AttemptsCounted' /\ SentMails' /\ OneBan'
    <3>1. r.kind = bulk[j].kind /\ r.key = bulk[j].key /\ \A u \in Targets : r.targets[u].tries = bulk[j].targets[u].tries
      <4>1. \A u \in Targets : g.targets[u].tries = v.targets[u].tries
        BY <2>1
      <4>2. v.kind = "csv"
        BY <1>2
      <4> QED BY <2>2, <4>1, <4>2
    <3>2. files' \in [BulkIds -> SUBSET (Targets \cup {0})] /\ UNCHANGED <<clerks, delivered>>
      BY <1>1, <2>3 DEF BulkInv, BulkTypeOK
    <3> QED BY <1>5, <2>2, <2>3, <2>4, <3>1, <3>2, MailsAside
  <2>6. \A i \in BulkIds : bulk'[i] = IF i = j THEN r ELSE bulk[i]
    BY <2>3 DEF BulkInv, BulkTypeOK
  <2>7. Selected(r) = Selected(v)
    <3>1. r.targets = g.targets /\ \A u \in Targets : g.targets[u].st = "none" <=> v.targets[u].st = "none"
      BY <2>1, <2>2
    <3>2. \A u \in Targets : r.targets[u].st # "none" <=> v.targets[u].st # "none"
      BY <3>1
    <3> QED BY <3>2, Zenon DEF Selected
  <2>8. ASSUME NEW i \in BulkIds PROVE ExportSound(i)'
    <3>1. ExportSound(i)
      BY ExportsAre
    <3>2. CASE i = j
      <4>1. bulk'[i] = r /\ UNCHANGED <<files, people>>
        BY <1>1, <2>3, <2>6, <3>2
      <4>2. /\ \A u \in Selected(r) : people[u].life = "anonymous" => r.out = "void"
            /\ files[j] \ NoFile \subseteq Selected(r)
        BY <2>0, <2>2, <2>7, <3>1, <3>2 DEF ExportSound
      <4>3. ~r.overrun => \A y \in Exporters : ~At(y, j)'
        BY <1>6, <1>7, <2>2
      <4>4. ~r.overrun => files[j] # NoFile
        BY <1>1, <1>2, <2>2, ExportsAre DEF ExporterSound
      <4>5. r.kind = "csv" /\ r.status = "succeeded"
        BY <2>2
      <4> HIDE DEF BulkInv
      <4> QED BY <3>2, <4>1, <4>2, <4>3, <4>4, <4>5 DEF ExportSound, Selected
    <3>3. CASE i # j
      BY <1>1, <1>7, <2>3, <2>6, <3>1, <3>3 DEF ExportSound, Selected
    <3> QED BY <3>2, <3>3
  <2>9. ASSUME NEW y \in Exporters PROVE ExporterSound(y)'
    <3>1. ExporterSound(y) /\ (exporters[y] # AtRest => exporters[y].job \in BulkIds)
      BY ExportsAre
    <3> SUFFICES ASSUME exporters'[y] # AtRest
                 PROVE  LET i == exporters'[y].job IN
                        /\ bulk'[i].kind = "csv" /\ exporters'[y].rows \subseteq Selected(bulk'[i])
                        /\ exporters'[y].stage = "published" /\ ~bulk'[i].overrun => files[i] # NoFile
      BY <2>3 DEF ExporterSound, Selected
    <3>2. exporters'[y] = exporters[y]
      BY <1>4
    <3> PICK i \in BulkIds : i = exporters[y].job
      BY <3>1, <3>2
    <3>3. bulk'[i].kind = bulk[i].kind /\ bulk'[i].overrun = bulk[i].overrun /\ Selected(bulk'[i]) = Selected(bulk[i])
      BY <2>0, <2>2, <2>6, <2>7
    <3> QED BY <3>1, <3>2, <3>3 DEF ExporterSound
  <2> QED BY <2>5, <2>8, <2>9, ExportsSplit
<1>9. CASE ~Exporting(x)
  <2>1. files' = [files EXCEPT ![j] = NoFile] /\ UNCHANGED bulk
    BY <1>9 DEF CompleteAdminUserBulkCSV
  <2>2. \A i \in BulkIds : files'[i] = IF i = j THEN NoFile ELSE files[i]
    BY <2>1 DEF BulkInv, BulkTypeOK
  <2>3. files' \in [BulkIds -> SUBSET (Targets \cup {0})]
    BY <2>1, ZeroIsNobody DEF BulkInv, BulkTypeOK
  <2>4. BulkTypeOK' /\ JobsSound' /\ AttemptsCounted' /\ SentMails' /\ OneBan'
    BY <1>1, <1>5, <2>1, <2>3, MailsRest
  <2>5. ASSUME NEW i \in BulkIds PROVE ExportSound(i)'
    <3>1. ExportSound(i)
      BY ExportsAre
    <3>2. CASE i = j
      <4>1. v.path => v.overrun
        BY <1>2, <1>3, <3>1, <3>2 DEF ExportSound
      <4> QED BY <1>1, <1>7, <2>1, <2>2, <3>1, <3>2, <4>1 DEF ExportSound, Selected
    <3>3. CASE i # j
      BY <1>1, <1>7, <2>1, <2>2, <3>1, <3>3 DEF ExportSound, Selected
    <3> QED BY <3>2, <3>3
  <2>6. ASSUME NEW y \in Exporters PROVE ExporterSound(y)'
    <3>1. ExporterSound(y) /\ (exporters[y] # AtRest => exporters[y].job \in BulkIds)
      BY ExportsAre
    <3> SUFFICES ASSUME exporters'[y] # AtRest
                 PROVE  LET i == exporters'[y].job IN
                        /\ bulk[i].kind = "csv" /\ exporters'[y].rows \subseteq Selected(bulk[i])
                        /\ exporters'[y].stage = "published" /\ ~bulk[i].overrun => files'[i] # NoFile
      BY <2>1 DEF ExporterSound, Selected
    <3>2. exporters'[y] = exporters[y] /\ y # x
      BY <1>4
    <3> PICK i \in BulkIds : i = exporters[y].job
      BY <3>1, <3>2
    <3>3. ~bulk[i].overrun => i # j
      BY <1>6, <3>2 DEF At
    <3> QED BY <2>2, <3>1, <3>2, <3>3 DEF ExporterSound
  <2> QED BY <2>4, <2>5, <2>6, ExportsSplit
<1> QED BY <1>8, <1>9

\* Where the exporters rest, ExporterSound follows from what the files and the jobs still say.
LEMMA ExportersKept ==
    ASSUME BulkInv, UNCHANGED exporters,
           \A i \in BulkIds : /\ bulk'[i].kind = bulk[i].kind /\ (bulk'[i].overrun <=> bulk[i].overrun)
                              /\ Selected(bulk'[i]) = Selected(bulk[i])
                              /\ (\E x \in Exporters : At(x, i)) /\ ~bulk[i].overrun => files'[i] = files[i]
    PROVE  \A x \in Exporters : ExporterSound(x)'
<1> SUFFICES ASSUME NEW x \in Exporters, exporters[x] # AtRest
             PROVE  LET i == exporters[x].job IN
                    /\ bulk'[i].kind = "csv" /\ exporters[x].rows \subseteq Selected(bulk'[i])
                    /\ exporters[x].stage = "published" /\ ~bulk'[i].overrun => files'[i] # NoFile
  BY DEF ExporterSound, Selected
<1> PICK i \in BulkIds : i = exporters[x].job
  BY ExportsAre
<1>1. ExporterSound(x) /\ At(x, i)
  BY ExportsAre DEF At
<1> QED BY <1>1 DEF ExporterSound

LEMMA CleanupKeeps == ASSUME BulkInv, CleanupExpired PROVE BulkInv'
<1>1. UNCHANGED <<people, clerks, exporters, faults, delivered>>
  BY DEF CleanupExpired
<1>2. exporters' \in [Exporters -> ExporterState] /\ people' \in [Targets -> Person]
  BY <1>1 DEF BulkInv, BulkTypeOK
<1>3. \A x \in Exporters, i \in BulkIds : At(x, i)' <=> At(x, i)
  BY <1>1 DEF At
<1>4. ASSUME NEW j \in BulkIds, Expired(j), sweeping' = j, files' = [files EXCEPT ![j] = NoFile], UNCHANGED bulk
      PROVE  BulkInv'
  <2>1. files' \in [BulkIds -> SUBSET (Targets \cup {0})]
    BY <1>4, ZeroIsNobody DEF BulkInv, BulkTypeOK
  <2>2. \A i \in BulkIds : files'[i] = IF i = j THEN NoFile ELSE files[i]
    BY <1>4 DEF BulkInv, BulkTypeOK
  <2>3. BulkTypeOK' /\ JobsSound' /\ AttemptsCounted' /\ SentMails' /\ OneBan'
    BY <1>1, <1>2, <1>4, <2>1, MailsRest
  <2>4. bulk[j].kind = "csv" /\ bulk[j].path /\ bulk[j].out \in {"expired", "void"}
    BY <1>4 DEF Expired
  <2>5. ASSUME NEW i \in BulkIds PROVE ExportSound(i)'
    <3>1. ExportSound(i)
      BY ExportsAre
    <3>2. CASE i = j
      BY <1>1, <1>3, <1>4, <2>2, <2>4, <3>1, <3>2 DEF ExportSound, Selected
    <3>3. CASE i # j
      BY <1>1, <1>3, <1>4, <2>2, <3>1, <3>3 DEF ExportSound, Selected
    <3> QED BY <3>2, <3>3
  <2>6. ASSUME NEW i \in BulkIds, NEW x \in Exporters, At(x, i), ~bulk[i].overrun PROVE files'[i] = files[i]
    <3>1. ExportSound(j)
      BY ExportsAre
    <3>2. i # j
      BY <2>4, <2>6, <3>1 DEF ExportSound
    <3> QED BY <2>2, <3>2
  <2>7. \A i \in BulkIds : /\ bulk'[i].kind = bulk[i].kind /\ (bulk'[i].overrun <=> bulk[i].overrun)
                           /\ Selected(bulk'[i]) = Selected(bulk[i])
                           /\ (\E x \in Exporters : At(x, i)) /\ ~bulk[i].overrun => files'[i] = files[i]
    BY <1>4, <2>6
  <2>8. \A x \in Exporters : ExporterSound(x)'
    BY <1>1, <2>7, ExportersKept
  <2> QED BY <2>3, <2>5, <2>8, ExportsSplit
<1>5. ASSUME sweeping # 0, sweeping' = 0, UNCHANGED files,
             bulk' = IF Expired(sweeping) THEN [bulk EXCEPT ![sweeping].path = FALSE] ELSE bulk
      PROVE  BulkInv'
  <2>1. files' \in [BulkIds -> SUBSET (Targets \cup {0})]
    BY <1>5 DEF BulkInv, BulkTypeOK
  <2>2. CASE ~Expired(sweeping)
    <3>1. UNCHANGED bulk /\ sweeping' \in BulkIds \cup {0}
      BY <1>5, <2>2
    <3> QED BY <1>1, <1>5, <3>1, NoneMoves, CalmAll, JobsMoveOn
  <2>3. CASE Expired(sweeping)
    <3> PICK j \in BulkIds, v \in JobRecord : j = sweeping /\ v = bulk[j]
      <4>1. sweeping \in BulkIds /\ bulk[sweeping] \in JobRecord
        BY <1>5 DEF BulkInv, BulkTypeOK
      <4> QED BY <4>1
    <3> PICK r : r = [v EXCEPT !.path = FALSE]
      OBVIOUS
    <3>1. r \in JobRecord /\ r.kind = v.kind /\ r.key = v.key /\ r.status = v.status /\ r.targets = v.targets /\ ~r.path
          /\ r.out = v.out /\ (r.overrun <=> v.overrun)
      BY DEF JobRecord
    <3>2. bulk' = [bulk EXCEPT ![j] = r]
      BY <1>5, <2>3
    <3>3. \A i \in BulkIds : bulk'[i] = IF i = j THEN r ELSE bulk[i]
      BY <3>2 DEF BulkInv, BulkTypeOK
    <3>4. JobSound(r, delivered[j])
      BY <3>1 DEF BulkInv, JobsSound, JobSound
    <3>5. BulkTypeOK' /\ JobsSound' /\ AttemptsCounted' /\ SentMails' /\ OneBan'
      <4>1. r.kind = bulk[j].kind /\ r.key = bulk[j].key /\ r.targets = bulk[j].targets /\ r \in JobRecord
        BY <3>1
      <4>2. sweeping' \in BulkIds \cup {0}
        BY <1>5
      <4>3. UNCHANGED <<clerks, delivered>>
        BY <1>1
      <4> HIDE DEF BulkInv
      <4> QED BY <1>2, <2>1, <3>2, <3>4, <4>1, <4>2, <4>3, MailsAside
    <3>6. Selected(r) = Selected(v)
      BY <3>1 DEF Selected
    <3>7. ASSUME NEW i \in BulkIds PROVE ExportSound(i)'
      <4>1. ExportSound(i)
        BY ExportsAre
      <4>2. CASE i = j
        BY <1>1, <1>3, <1>5, <3>1, <3>3, <3>6, <4>1, <4>2 DEF ExportSound, Selected
      <4>3. CASE i # j
        BY <1>1, <1>3, <1>5, <3>3, <4>1, <4>3 DEF ExportSound, Selected
      <4> QED BY <4>2, <4>3
    <3>8. \A i \in BulkIds : /\ bulk'[i].kind = bulk[i].kind /\ (bulk'[i].overrun <=> bulk[i].overrun)
                             /\ Selected(bulk'[i]) = Selected(bulk[i])
                             /\ (\E x \in Exporters : At(x, i)) /\ ~bulk[i].overrun => files'[i] = files[i]
      BY <1>5, <3>1, <3>3, <3>6
    <3>9. \A x \in Exporters : ExporterSound(x)'
      BY <1>1, <3>8, ExportersKept
    <3> QED BY <3>5, <3>7, <3>9, ExportsSplit
  <2> QED BY <2>2, <2>3
<1> QED BY <1>4, <1>5 DEF CleanupExpired

LEMMA ExpireKeeps == ASSUME BulkInv, OutputExpires PROVE BulkInv'
<1>1. UNCHANGED <<people, files, clerks, exporters, sweeping, faults, delivered>>
  BY DEF OutputExpires
<1> PICK j \in BulkIds : bulk[j].kind = "csv" /\ bulk[j].out = "live" /\ bulk' = [bulk EXCEPT ![j].out = "expired"]
  BY DEF OutputExpires
<1> PICK v \in JobRecord : v = bulk[j]
  BY ItemOf DEF BulkInv, BulkTypeOK
<1> PICK r : r = [v EXCEPT !.out = "expired"]
  OBVIOUS
<1>2. r \in JobRecord /\ r.kind = v.kind /\ r.key = v.key /\ r.status = v.status /\ r.targets = v.targets /\ (r.path <=> v.path)
      /\ r.out = "expired" /\ (r.overrun <=> v.overrun)
  BY DEF JobRecord
<1>3. bulk' = [bulk EXCEPT ![j] = r]
  OBVIOUS
<1>4. \A i \in BulkIds : bulk'[i] = IF i = j THEN r ELSE bulk[i]
  BY <1>3 DEF BulkInv, BulkTypeOK
<1>5. JobSound(r, delivered[j])
  BY <1>2 DEF BulkInv, JobsSound, JobSound
<1>6. /\ exporters' \in [Exporters -> ExporterState] /\ files' \in [BulkIds -> SUBSET (Targets \cup {0})]
      /\ people' \in [Targets -> Person] /\ sweeping' \in BulkIds \cup {0}
  BY <1>1 DEF BulkInv, BulkTypeOK
<1>7. BulkTypeOK' /\ JobsSound' /\ AttemptsCounted' /\ SentMails' /\ OneBan'
  <2>1. r.kind = bulk[j].kind /\ r.key = bulk[j].key /\ r.targets = bulk[j].targets /\ r \in JobRecord
    BY <1>2
  <2> QED BY <1>1, <1>3, <1>5, <1>6, <2>1, MailsAside
<1>8. Selected(r) = Selected(v)
  BY <1>2 DEF Selected
<1>9. \A x \in Exporters, i \in BulkIds : At(x, i)' <=> At(x, i)
  BY <1>1 DEF At
<1>10. ASSUME NEW i \in BulkIds PROVE ExportSound(i)'
  <2>1. ExportSound(i)
    BY ExportsAre
  <2>2. CASE i = j
    BY <1>1, <1>2, <1>4, <1>8, <1>9, <2>1, <2>2 DEF ExportSound, Selected
  <2>3. CASE i # j
    BY <1>1, <1>4, <1>9, <2>1, <2>3 DEF ExportSound, Selected
  <2> QED BY <2>2, <2>3
<1>11. \A i \in BulkIds : /\ bulk'[i].kind = bulk[i].kind /\ (bulk'[i].overrun <=> bulk[i].overrun)
                          /\ Selected(bulk'[i]) = Selected(bulk[i])
                          /\ (\E x \in Exporters : At(x, i)) /\ ~bulk[i].overrun => files'[i] = files[i]
  BY <1>1, <1>2, <1>4, <1>8
<1>12. \A x \in Exporters : ExporterSound(x)'
  BY <1>1, <1>11, ExportersKept
<1> QED BY <1>7, <1>10, <1>12, ExportsSplit

LEMMA Voided ==
    ASSUME NEW job \in JobRecord, NEW o \in {"none", "live", "void", "expired"}
    PROVE  LET r == [job EXCEPT !.out = o] IN
           /\ r \in JobRecord /\ r.kind = job.kind /\ r.status = job.status /\ (r.path <=> job.path)
           /\ (r.overrun <=> job.overrun) /\ r.out = o /\ r.targets = job.targets /\ r.key = job.key
  BY DEF JobRecord

LEMMA AnonymizeKeeps == ASSUME BulkInv, NEW u \in Targets, AnonymizeUser(u) PROVE BulkInv'
<1>1. UNCHANGED <<files, clerks, exporters, sweeping, faults, delivered>> /\ people' = [people EXCEPT ![u].life = "anonymous"]
      /\ bulk' = [j \in BulkIds |->
           IF bulk[j] = NoJob \/ Bulk(j, u).st = "none" THEN bulk[j]
           ELSE [bulk[j] EXCEPT !.targets[u].named = FALSE, !.out = IF bulk[j].kind = "csv" THEN "void" ELSE bulk[j].out]]
  BY DEF AnonymizeUser
<1>2. ASSUME NEW j \in BulkIds
      PROVE  /\ bulk'[j] \in JobRecord /\ bulk'[j].kind = bulk[j].kind /\ bulk'[j].key = bulk[j].key
             /\ bulk'[j].status = bulk[j].status /\ (bulk'[j].path <=> bulk[j].path) /\ (bulk'[j].overrun <=> bulk[j].overrun)
             /\ bulk'[j].out \in {bulk[j].out, "void"}
             /\ bulk[j].kind = "csv" /\ u \in Selected(bulk[j]) => bulk'[j].out = "void"
             /\ \A y \in Targets : /\ bulk'[j].targets[y].st = bulk[j].targets[y].st
                                   /\ bulk'[j].targets[y].tries = bulk[j].targets[y].tries
  <2> PICK v \in JobRecord : v = bulk[j]
    BY ItemOf DEF BulkInv, BulkTypeOK
  <2>1. CASE v = NoJob \/ v.targets[u].st = "none"
    <3>1. bulk'[j] = v
      BY <1>1, <2>1 DEF Bulk
    <3>2. v = NoJob => v.kind = "none"
      BY DEF NoJob
    <3> QED BY <2>1, <3>1, <3>2 DEF Selected
  <2>2. CASE ~(v = NoJob \/ v.targets[u].st = "none")
    <3> PICK b \in Item : b = v.targets[u]
      BY DEF JobRecord
    <3>7. PICK t : t = [b EXCEPT !.named = FALSE]
      OBVIOUS
    <3>1. t \in Item /\ t.st = b.st /\ t.tries = b.tries
      BY <3>7 DEF Item
    <3>8. PICK w : w = [v EXCEPT !.targets[u] = t]
      OBVIOUS
    <3>2. /\ w \in JobRecord /\ w.targets = [v.targets EXCEPT ![u] = t] /\ w.kind = v.kind /\ w.status = v.status
          /\ w.key = v.key /\ w.path = v.path /\ w.out = v.out /\ w.overrun = v.overrun
          /\ w.targets[u] = t /\ \A x \in Targets \ {u} : w.targets[x] = v.targets[x]
      BY <3>1, <3>8, OneRetargeted
    <3>6. PICK o : o = IF v.kind = "csv" THEN "void" ELSE v.out
      OBVIOUS
    <3>3. LET r == [w EXCEPT !.out = o] IN
          /\ r \in JobRecord /\ r.kind = w.kind /\ r.status = w.status /\ (r.path <=> w.path) /\ (r.overrun <=> w.overrun)
          /\ r.out = o /\ r.targets = w.targets /\ r.key = w.key
      <4>1. o \in {"none", "live", "void", "expired"}
        BY <3>6 DEF JobRecord
      <4>2. w \in JobRecord
        BY <3>2
      <4> QED BY <4>1, <4>2, Voided
    <3>4. bulk'[j] = [w EXCEPT !.out = o]
      <4>1. bulk'[j] = [v EXCEPT !.targets[u].named = FALSE, !.out = o]
        BY <1>1, <2>2, <3>6 DEF Bulk
      <4>2. [v EXCEPT !.targets[u].named = FALSE, !.out = o] = [[v EXCEPT !.targets[u] = t] EXCEPT !.out = o]
        BY <3>7
      <4> QED BY <3>8, <4>1, <4>2
    <3> PICK r : r = bulk'[j]
      OBVIOUS
    <3>5. /\ r \in JobRecord /\ r.kind = v.kind /\ r.status = v.status /\ (r.path <=> v.path) /\ (r.overrun <=> v.overrun)
          /\ r.out = o /\ r.key = v.key
          /\ r.targets[u] = t /\ \A x \in Targets \ {u} : r.targets[x] = v.targets[x]
      <4> PICK q : q = [w EXCEPT !.out = o]
        OBVIOUS
      <4>1. /\ q \in JobRecord /\ q.kind = w.kind /\ q.status = w.status /\ (q.path <=> w.path) /\ (q.overrun <=> w.overrun)
            /\ q.out = o /\ q.targets = w.targets /\ q.key = w.key
        BY <3>3, Zenon
      <4>2. r = q
        BY <3>4
      <4>3. /\ r \in JobRecord /\ r.kind = w.kind /\ r.status = w.status /\ (r.path <=> w.path) /\ (r.overrun <=> w.overrun)
            /\ r.out = o /\ r.targets = w.targets /\ r.key = w.key
        BY <4>1, <4>2, Zenon
      <4> QED BY <3>2, <4>3, Zenon
    <3> QED BY <3>1, <3>5, <3>6 DEF Selected
  <2> QED BY <2>1, <2>2
<1>3. bulk' \in [BulkIds -> JobRecord]
  BY <1>1, <1>2
<1>4. /\ exporters' \in [Exporters -> ExporterState] /\ files' \in [BulkIds -> SUBSET (Targets \cup {0})]
      /\ sweeping' \in BulkIds \cup {0} /\ clerks' \in [Clerks -> ClerkState] /\ delivered' \in [BulkIds -> [Targets -> Nat]]
  BY <1>1 DEF BulkInv, BulkTypeOK
<1>5. people' \in [Targets -> Person] /\ \A y \in Targets : people'[y].life = "anonymous" => people[y].life = "anonymous" \/ y = u
  BY <1>1 DEF BulkInv, BulkTypeOK, Person
<1>6. BulkTypeOK'
  BY <1>3, <1>4, <1>5 DEF BulkTypeOK
<1>7. JobsSound'
  <2> SUFFICES ASSUME NEW j \in BulkIds, NEW y \in Targets
               PROVE  /\ ItemSound(bulk'[j].kind, bulk'[j].targets[y], delivered[j][y])
                      /\ ItemEnded(bulk'[j].kind, bulk'[j].status, bulk'[j].targets[y])
    BY <1>1 DEF JobsSound, JobSound
  <2>1. /\ ItemSound(bulk[j].kind, bulk[j].targets[y], delivered[j][y])
        /\ ItemEnded(bulk[j].kind, bulk[j].status, bulk[j].targets[y])
    BY DEF BulkInv, JobsSound, JobSound
  <2>2. /\ bulk'[j].kind = bulk[j].kind /\ bulk'[j].status = bulk[j].status
        /\ bulk'[j].targets[y].st = bulk[j].targets[y].st /\ bulk'[j].targets[y].tries = bulk[j].targets[y].tries
    BY <1>2
  <2> HIDE DEF BulkInv
  <2> QED BY <2>1, <2>2 DEF ItemSound, ItemEnded
<1>8. AttemptsCounted' /\ SentMails'
  <2>1. \A i \in BulkIds, y \in Targets : Bulk(i, y)'.tries = Bulk(i, y).tries
    BY <1>2 DEF Bulk
  <2> QED BY <1>1, <2>1, CalmAll, CalmClerksKeep
<1>9. OneBan'
  BY <1>2 DEF OneBan, BulkInv
<1>10. \A i \in BulkIds : Selected(bulk'[i]) = Selected(bulk[i])
  BY <1>2 DEF Selected
<1>11. \A x \in Exporters, i \in BulkIds : At(x, i)' <=> At(x, i)
  BY <1>1 DEF At
<1>12. ASSUME NEW i \in BulkIds PROVE ExportSound(i)'
  <2>1. ExportSound(i) /\ Selected(bulk[i]) \subseteq Targets
    BY ExportsAre
  <2>2. /\ bulk'[i].kind = bulk[i].kind /\ Selected(bulk'[i]) = Selected(bulk[i])
        /\ bulk'[i].status = bulk[i].status /\ (bulk'[i].path <=> bulk[i].path) /\ (bulk'[i].overrun <=> bulk[i].overrun)
        /\ bulk'[i].out \in {bulk[i].out, "void"}
        /\ bulk[i].kind = "csv" /\ u \in Selected(bulk[i]) => bulk'[i].out = "void"
    BY <1>2, <1>10
  <2> QED BY <1>1, <1>5, <1>11, <2>1, <2>2 DEF ExportSound, Selected
<1>13. \A i \in BulkIds : /\ bulk'[i].kind = bulk[i].kind /\ (bulk'[i].overrun <=> bulk[i].overrun)
                          /\ Selected(bulk'[i]) = Selected(bulk[i])
                          /\ (\E x \in Exporters : At(x, i)) /\ ~bulk[i].overrun => files'[i] = files[i]
  BY <1>1, <1>2, <1>10
<1>14. \A x \in Exporters : ExporterSound(x)'
  BY <1>1, <1>13, ExportersKept
<1> QED BY <1>6, <1>7, <1>8, <1>9, <1>12, <1>14, ExportsSplit

-----------------------------------------------------------------------------
\* New jobs.
LEMMA JobAdded ==
    ASSUME BulkInv, NEW j \in BulkIds, bulk[j] = NoJob, NEW r \in JobRecord, bulk' = [bulk EXCEPT ![j] = r],
           JobSound(r, delivered[j]), ~r.path, ~r.overrun, r.kind = "csv" => r.status = "queued",
           \A u \in Selected(r) : r.kind = "csv" => people[u].life # "anonymous",
           \A u \in Targets : r.targets[u].tries = 0,
           \A i \in BulkIds : r.kind = "ban" /\ bulk[i].kind = "ban" => bulk[i].key # r.key,
           people' \in [Targets -> Person], \A u \in Targets : people'[u].life = people[u].life,
           UNCHANGED <<files, clerks, exporters, sweeping, delivered>>
    PROVE  BulkInv'
<1>0. bulk[j].kind = "none" /\ ~bulk[j].path /\ \A u \in Targets : bulk[j].targets[u].tries = 0
  BY DEF NoJob, Outside, Fresh
<1>1. \A i \in BulkIds : bulk'[i] = IF i = j THEN r ELSE bulk[i]
  BY DEF BulkInv, BulkTypeOK
<1>2. BulkTypeOK' /\ JobsSound'
  BY <1>1 DEF BulkInv, BulkTypeOK, JobsSound
<1>3. AttemptsCounted' /\ SentMails'
  <2>1. \A i \in BulkIds, u \in Targets : Bulk(i, u)'.tries = Bulk(i, u).tries
    BY <1>0, <1>1 DEF Bulk
  <2> QED BY <2>1, CalmAll, CalmClerksKeep
<1>4. OneBan'
  BY <1>1 DEF OneBan, BulkInv
<1>5. \A x \in Exporters : ~At(x, j)
  BY <1>0, ExportsAre DEF ExporterSound, At
<1>6. \A x \in Exporters, i \in BulkIds : At(x, i)' <=> At(x, i)
  BY DEF At
<1>7. ASSUME NEW i \in BulkIds PROVE ExportSound(i)'
  <2>1. ExportSound(i) /\ Selected(bulk[i]) \subseteq Targets
    BY ExportsAre
  <2>2. CASE i = j
    <3>1. files[j] = NoFile
      BY <1>0, <2>1, <2>2 DEF ExportSound
    <3>2. bulk'[i] = r /\ files'[i] = NoFile /\ r.status = r.status
      BY <1>1, <2>2, <3>1
    <3>3. \A u \in Selected(r) : r.kind = "csv" => people'[u].life # "anonymous"
      BY DEF Selected
    <3>4. \A x \in Exporters : ~At(x, i)'
      BY <1>5, <1>6, <2>2
    <3> HIDE DEF BulkInv
    <3> QED BY <3>2, <3>3, <3>4 DEF ExportSound, Selected
  <2>3. CASE i # j
    <3>1. bulk'[i] = bulk[i] /\ files'[i] = files[i]
      BY <1>1, <2>3
    <3>2. \A u \in Selected(bulk[i]) : people'[u].life = people[u].life
      BY <2>1
    <3> QED BY <1>6, <2>1, <3>1, <3>2 DEF ExportSound, Selected
  <2> QED BY <2>2, <2>3
<1>8. ASSUME NEW x \in Exporters PROVE ExporterSound(x)'
  <2>1. ExporterSound(x) /\ (exporters[x] # AtRest => exporters[x].job \in BulkIds /\ exporters[x].job # j)
    BY <1>5, ExportsAre DEF At
  <2> QED BY <1>1, <2>1 DEF ExporterSound, Selected
<1> QED BY <1>2, <1>3, <1>4, <1>7, <1>8, ExportsSplit

LEMMA NewJob ==
    ASSUME BulkInv, NEW kind \in {"mail", "csv", "ban"}, NEW scope \in SUBSET Targets,
           NEW r, r = createAdminUserBulkJobTx(kind, scope)
    PROVE  /\ r \in JobRecord /\ r.kind = kind /\ r.status = "queued" /\ ~r.path /\ ~r.overrun /\ r.key = Free
           /\ \A u \in Targets : /\ r.targets[u].tries = 0 /\ r.targets[u].st \in {"none", "pending"}
                                 /\ r.targets[u].st = "none" <=> u \notin Snapshot(kind, scope)
<1>1. Fresh \in Item /\ Outside \in Item /\ Fresh.st = "pending" /\ Outside.st = "none" /\ Fresh.tries = 0 /\ Outside.tries = 0
  BY DEF Fresh, Outside, Item, ItemStates, Claimants
<1>2. NoJob \in JobRecord /\ ~NoJob.path /\ ~NoJob.overrun /\ NoJob.key = Free
  <2>1. [u \in Targets |-> Outside] \in [Targets -> Item]
    BY <1>1
  <2> QED BY <2>1 DEF NoJob, JobRecord, Claimants
<1> PICK f : f = [u \in Targets |-> IF u \in Snapshot(kind, scope) THEN Fresh ELSE Outside]
  OBVIOUS
<1>3. /\ f \in [Targets -> Item]
      /\ \A u \in Targets : f[u].tries = 0 /\ f[u].st \in {"none", "pending"} /\ (f[u].st = "none" <=> u \notin Snapshot(kind, scope))
  BY <1>1
<1>5. r = [NoJob EXCEPT !.kind = kind, !.status = "queued", !.scope = scope, !.targets = f]
  BY DEF createAdminUserBulkJobTx
<1>4. r \in JobRecord /\ r.kind = kind /\ r.status = "queued" /\ ~r.path /\ ~r.overrun /\ r.key = Free /\ r.targets = f
  BY <1>2, <1>3, <1>5 DEF JobRecord
<1> QED BY <1>3, <1>4

LEMMA CreateKeeps ==
    ASSUME BulkInv, NEW j \in BulkIds, NEW kind \in {"mail", "csv"}, NEW scope \in SUBSET Targets, CreateAdminUserBulkJob(j, kind, scope)
    PROVE  BulkInv'
<1> PICK r : r = createAdminUserBulkJobTx(kind, scope)
  OBVIOUS
<1>1. /\ r \in JobRecord /\ r.kind = kind /\ r.status = "queued" /\ ~r.path /\ ~r.overrun /\ r.key = Free
      /\ \A u \in Targets : /\ r.targets[u].tries = 0 /\ r.targets[u].st \in {"none", "pending"}
                            /\ r.targets[u].st = "none" <=> u \notin Snapshot(kind, scope)
  BY NewJob
<1>2. bulk[j] = NoJob /\ bulk' = [bulk EXCEPT ![j] = r] /\ UNCHANGED <<people, files, clerks, exporters, sweeping, faults, delivered>>
  BY DEF CreateAdminUserBulkJob, NextId
<1>3. JobSound(r, delivered[j])
  <2>1. \A u \in Targets : r.targets[u].tries <= MaxTries
    BY <1>1, BulkConstants
  <2> QED BY <1>1, <2>1 DEF JobSound, ItemSound, ItemEnded, OverStates
<1>4. \A u \in Selected(r) : people[u].life # "anonymous"
  BY <1>1 DEF Selected, Snapshot
<1>5. people' \in [Targets -> Person] /\ \A u \in Targets : people'[u].life = people[u].life
  BY <1>2 DEF BulkInv, BulkTypeOK
<1> QED BY <1>1, <1>2, <1>3, <1>4, <1>5, JobAdded

LEMMA BanKeeps ==
    ASSUME BulkInv, NEW j \in BulkIds, NEW k \in Keys, NEW scope \in SUBSET Targets, BanAdminUsers(j, k, scope)
    PROVE  BulkInv'
<1> DEFINE hit == {u \in Snapshot("ban", scope) : u # Admin /\ ~people[u].banned}
<1> PICK c : c = createAdminUserBulkJobTx("ban", scope)
  OBVIOUS
<1>1. /\ c \in JobRecord /\ c.kind = "ban" /\ c.status = "queued" /\ ~c.path /\ ~c.overrun /\ c.key = Free
      /\ \A u \in Targets : /\ c.targets[u].tries = 0 /\ c.targets[u].st \in {"none", "pending"}
                            /\ c.targets[u].st = "none" <=> u \notin Snapshot("ban", scope)
  BY NewJob
<1> DEFINE f == [u \in Targets |-> IF c.targets[u].st = "none" THEN c.targets[u]
                                   ELSE [c.targets[u] EXCEPT !.st = IF u \in hit THEN "succeeded" ELSE "skipped"]]
<1> PICK x : x = [c EXCEPT !.key = k, !.status = "running", !.targets = f]
  OBVIOUS
<1>2. /\ bulk[j] = NoJob /\ {i \in Jobs("ban") : bulk[i].key = k} = {} /\ bulk' = [bulk EXCEPT ![j] = refreshAdminUserBulkJobTx(x)]
      /\ people' = [u \in Targets |-> IF u \in hit THEN [people[u] EXCEPT !.banned = TRUE] ELSE people[u]]
      /\ UNCHANGED <<files, clerks, exporters, sweeping, faults, delivered>>
  BY DEF BanAdminUsers, NextId
<1>3. people' \in [Targets -> Person] /\ \A u \in Targets : people'[u].life = people[u].life
  <2>1. \A u \in Targets : people[u] \in Person
    BY DEF BulkInv, BulkTypeOK
  <2>2. \A p \in Person : [p EXCEPT !.banned = TRUE] \in Person /\ [p EXCEPT !.banned = TRUE].life = p.life
    BY DEF Person
  <2> HIDE DEF hit
  <2> QED BY <1>2, <2>1, <2>2
<1>4. ASSUME NEW u \in Targets PROVE f[u] \in Item /\ f[u].tries = 0 /\ f[u].st \in {"none", "succeeded", "skipped"}
  <2> PICK b \in Item : b = c.targets[u]
    BY <1>1 DEF JobRecord
  <2>1. b.tries = 0
    BY <1>1
  <2> PICK s \in {"succeeded", "skipped"} : s = IF u \in hit THEN "succeeded" ELSE "skipped"
    OBVIOUS
  <2>2. [b EXCEPT !.st = s] \in Item /\ [b EXCEPT !.st = s].tries = b.tries /\ [b EXCEPT !.st = s].st = s
    BY DEF Item, ItemStates
  <2>3. f[u] = IF b.st = "none" THEN b ELSE [b EXCEPT !.st = s]
    OBVIOUS
  <2> HIDE DEF f, hit
  <2> QED BY <2>1, <2>2, <2>3
<1>5. f \in [Targets -> Item]
  BY <1>4
<1> HIDE DEF f, hit
<1>6. x \in JobRecord /\ x.kind = "ban" /\ x.status = "running" /\ ~x.path /\ ~x.overrun /\ x.key = k /\ x.targets = f
  BY <1>1, <1>5 DEF JobRecord
<1>7. ItemsSound(x, delivered[j])
  <2>1. \A u \in Targets : f[u].tries <= MaxTries
    BY <1>4, BulkConstants
  <2> QED BY <1>4, <1>6, <2>1 DEF ItemsSound, ItemSound
<1> PICK r : r = refreshAdminUserBulkJobTx(x)
  OBVIOUS
<1>8. r \in JobRecord /\ JobSound(r, delivered[j]) /\ MovedOn(x, r)
  <2>1. Alike(x, x) /\ x.status \notin OverStates
    BY <1>6 DEF Alike, OverStates
  <2> QED BY <1>6, <1>7, <2>1, RefreshMovesOn
<1>9. r.kind = "ban" /\ ~r.path /\ ~r.overrun /\ r.key = k /\ \A u \in Targets : r.targets[u].tries = 0
  <2>1. CASE r = x
    BY <1>4, <1>6, <2>1
  <2>2. CASE Alike(x, r)
    <3>1. r.kind = x.kind /\ r.key = x.key /\ \A u \in Targets : r.targets[u].tries = x.targets[u].tries
      BY <2>2, Zenon DEF Alike
    <3>2. r.path = x.path /\ r.overrun = x.overrun
      BY <2>2, Zenon DEF Alike
    <3>3. ~r.path /\ ~r.overrun
      BY <1>6, <3>2, Zenon
    <3> QED BY <1>4, <1>6, <3>1, <3>3
  <2> QED BY <1>8, <2>1, <2>2 DEF MovedOn
<1>10. \A i \in BulkIds : bulk[i].kind = "ban" => bulk[i].key # k
  BY <1>2 DEF Jobs
<1> QED BY <1>2, <1>3, <1>8, <1>9, <1>10, JobAdded

-----------------------------------------------------------------------------
LEMMA BulkInitInv == BulkInit => BulkInv
<1> SUFFICES ASSUME BulkInit PROVE BulkInv
  OBVIOUS
<1>1. \A u \in Targets : NoJob.targets[u].st = "none" /\ NoJob.targets[u].tries = 0
  BY DEF NoJob, Outside, Fresh
<1>2. NoJob \in JobRecord /\ NoJob.kind = "none" /\ NoJob.status = "none" /\ ~NoJob.path
  <2>1. Outside \in Item
    BY DEF Fresh, Outside, Item, ItemStates, Claimants
  <2>2. [u \in Targets |-> Outside] \in [Targets -> Item]
    BY <2>1
  <2> QED BY <2>2 DEF NoJob, JobRecord, Claimants
<1>3. AtRest \in ClerkState /\ AtRest \in ExporterState /\ AtRest.stage = "idle"
  BY DEF AtRest, ClerkState, ExporterState
<1>4. /\ \A u \in Targets : people[u] = [life |-> "active", banned |-> FALSE]
      /\ \A j \in BulkIds : bulk[j] = NoJob /\ files[j] = NoFile /\ \A u \in Targets : delivered[j][u] = 0
      /\ \A w \in Clerks : clerks[w] = AtRest
      /\ \A x \in Exporters : exporters[x] = AtRest
  BY DEF BulkInit
<1>5. BulkTypeOK
  <2>1. people \in [Targets -> Person]
    BY DEF BulkInit, Person
  <2>2. bulk \in [BulkIds -> JobRecord]
    BY <1>2 DEF BulkInit
  <2>3. files \in [BulkIds -> SUBSET (Targets \cup {0})]
    BY ZeroIsNobody DEF BulkInit
  <2>4. clerks \in [Clerks -> ClerkState] /\ exporters \in [Exporters -> ExporterState]
    BY <1>3 DEF BulkInit
  <2>5. sweeping \in BulkIds \cup {0} /\ delivered \in [BulkIds -> [Targets -> Nat]]
    BY DEF BulkInit
  <2> QED BY <2>1, <2>2, <2>3, <2>4, <2>5 DEF BulkTypeOK
<1>6. JobsSound
  <2>1. \A u \in Targets : NoJob.targets[u].tries <= MaxTries
    BY <1>1, BulkConstants
  <2> QED BY <1>1, <1>2, <1>4, <2>1 DEF JobsSound, JobSound, ItemSound, ItemEnded, OverStates
<1>7. AttemptsCounted /\ SentMails
  <2>1. \A j \in BulkIds, u \in Targets : About(j, u) = {}
    BY <1>3, <1>4 DEF About
  <2>2. IsFiniteSet({}) /\ Cardinality({}) = 0
    BY FS_EmptySet
  <2>3. AttemptsCounted
    <3> SUFFICES ASSUME NEW j \in BulkIds, NEW u \in Targets
                 PROVE  IsFiniteSet(About(j, u)) /\ delivered[j][u] + Cardinality(About(j, u)) <= Bulk(j, u).tries
      BY DEF AttemptsCounted
    <3>1. delivered[j][u] = 0 /\ Bulk(j, u).tries = 0 /\ About(j, u) = {}
      BY <1>1, <1>4, <2>1 DEF Bulk
    <3> QED BY <2>2, <3>1
  <2> QED BY <1>3, <1>4, <2>3 DEF SentMails
<1>8. OneBan
  BY <1>2, <1>4 DEF OneBan
<1>9. ExportsSound
  <2>1. Selected(NoJob) = {}
    BY <1>1 DEF Selected
  <2> QED BY <1>2, <1>4, <2>1 DEF ExportsSound, ExportSound, ExporterSound, At
<1> QED BY <1>5, <1>6, <1>7, <1>8, <1>9 DEF BulkInv

LEMMA BulkStutter == ASSUME BulkInv, UNCHANGED bulkVars PROVE BulkInv'
<1>1. UNCHANGED <<people, bulk, files, clerks, exporters, sweeping, faults, delivered>>
  BY DEF bulkVars
<1> QED BY <1>1, NoneMoves, CalmAll, JobsMoveOn

LEMMA MeanwhileKeeps == ASSUME BulkInv, TimePasses \/ Meanwhile PROVE BulkInv'
  BY LeaseEndsKeeps, RetryDueKeeps, ExpireKeeps, CancelKeeps, DeactivateKeeps, RestoreKeeps, AnonymizeKeeps, CleanupKeeps, DieKeeps
     DEF TimePasses, Meanwhile, cancelAdminUserBulkJob

LEMMA MailKeeps == ASSUME BulkInv, MailNext PROVE BulkInv'
<1>1. ASSUME NEW j \in BulkIds, NEW scope \in SUBSET Targets, createAdminUserBulkMail(j, scope) \/ legacyAdminUserBulkMail(j, scope)
      PROVE  BulkInv'
  BY <1>1, CreateKeeps DEF createAdminUserBulkMail, legacyAdminUserBulkMail
<1>2. ASSUME NEW w \in Clerks, RunMailOnce(w) PROVE BulkInv'
  BY <1>2, ReapKeeps, ClaimMailKeeps, CheckClaimKeeps, SendBulkKeeps, FinishMailKeeps DEF RunMailOnce
<1> QED BY <1>1, <1>2, MeanwhileKeeps DEF MailNext

LEMMA ExportKeeps == ASSUME BulkInv, ExportNext PROVE BulkInv'
<1>1. ASSUME NEW j \in BulkIds, NEW scope \in SUBSET Targets, createAdminUserBulkCSV(j, scope) \/ legacyAdminUserBulkCSV(j, scope)
      PROVE  BulkInv'
  BY <1>1, CreateKeeps DEF createAdminUserBulkCSV, legacyAdminUserBulkCSV
<1>2. ASSUME NEW x \in Exporters, runCSVOnce(x) PROVE BulkInv'
  BY <1>2, ClaimCSVKeeps, WriteBatchKeeps, RefreshKeeps, PublishKeeps, CompleteExportKeeps, FailKeeps DEF runCSVOnce, processClaimedCSVWithToken
<1> QED BY <1>1, <1>2, MeanwhileKeeps DEF ExportNext

LEMMA BansKeep == ASSUME BulkInv, BanNext PROVE BulkInv'
<1>1. ASSUME NEW j \in BulkIds, NEW scope \in SUBSET Targets,
             legacyAdminUserBulkBan(j, scope) \/ \E k \in Keys : banAdminUsers(j, k, scope)
      PROVE  BulkInv'
  BY <1>1, BanKeeps DEF legacyAdminUserBulkBan, banAdminUsers
<1> QED BY <1>1, RestoreKeeps, DeactivateKeeps, AnonymizeKeeps DEF BanNext

\* What an administrator is told about a job is true and no export tells more than it may
\* (admin_user_bulk_jobs.go, bulkops), for every set of users, jobs and workers, with mails, exports
\* and bans in one panel and any number of workers that die, are overtaken or find their user gone.
THEOREM BulkJobsHonest == BulkSpec => []BulkSound
<1>1. ASSUME BulkInv, [MailNext \/ ExportNext \/ BanNext]_bulkVars PROVE BulkInv'
  BY <1>1, MailKeeps, ExportKeeps, BansKeep, BulkStutter
<1>2. BulkInv => BulkSound
  BY BulkInvProperty
<1> QED BY <1>1, <1>2, BulkInitInv, PTL DEF BulkSpec
=============================================================================
