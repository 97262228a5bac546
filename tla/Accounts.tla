------------------------------ MODULE Accounts ------------------------------
(***************************************************************************)
(* Accounts and what opens them: passwords, sessions and access tokens,    *)
(* mailed codes and links, registration behind its policy, and the         *)
(* administrator's edits.  A handler that hashes a password, or that was   *)
(* authenticated before it writes, works in two steps; everything may      *)
(* happen between them.  The mail the codes travel in is module Outbox.    *)
(*                                                                         *)
(* A password is its number, counted per account; hash.old says that it is *)
(* still stored in the form of the old panel, which the next login         *)
(* replaces.  A code is the number of the row that carries it, 0 if none   *)
(* does; guessing a code right is left out.                                *)
(***************************************************************************)
EXTENDS Outbox

CONSTANTS
    Handlers,       \* HTTP requests in progress
    Invitations,    \* invitation codes, all single use
    MaxPasswords,   \* bound: passwords an account ever has
    MaxGuesses,     \* wrong codes before a challenge locks
    FailureWindow,  \* passwordResetFailureWindow and its like
    IPLimit,        \* register_limit_count
    IPWindow        \* register_limit_expire

ASSUME AccountConstants ==
    /\ {MaxPasswords, MaxGuesses, IPLimit, IPWindow} \subseteq Nat \ {0}
    /\ FailureWindow \in Nat /\ FailureWindow >= CodeLife
    /\ Nobody \notin Invitations

VARIABLES
    creds,          \* live sessions and access tokens
    requests,       \* what each handler holds between its two steps
    invitations,    \* invitation codes not consumed
    wrong           \* wrong guesses at each code so far

accountVars == <<users, rows, jobs, switches, switched, codes, cooldowns, updates, hooks, accScope,
                 creds, requests, invitations, wrong>>
mailVars == <<jobs, switches, switched, updates, hooks, accScope>>

NoRequest == [op |-> "none", user |-> Nobody, key |-> Nobody, code |-> 0, pw |-> 0, old |-> FALSE,
              tries |-> 0]

Absent == [email |-> Nobody, pw |-> 0, old |-> FALSE, banned |-> FALSE, before |-> FALSE,
           life |-> "absent", chat |-> FALSE, fresh |-> 0, invite |-> Nobody, proof |-> 0]

Owner(address) == {u \in Users : users[u].email = address}
NextCode == Len(rows) + 1
Begin(h, r) == requests[h] = NoRequest /\ requests' = [requests EXCEPT ![h] = r]
Finish(h) == requests' = [requests EXCEPT ![h] = NoRequest]

\* Sessions, tokens, links and reset codes go, with the mail that carries them, claimed or not.
RevokedRows(table, u) ==
    [i \in DOMAIN table |->
        IF table[i].kind \in {"link", "reset"} /\ table[i].user = u /\ Pending(table[i])
        THEN Ended(table[i], "cancelled") ELSE table[i]]
KeptCodes(u) == {c \in codes : ~(c.user = u /\ c.kind \in {"link", "quick", "reset"})}
revokeAllCredentialsTx(u, table) ==
    /\ creds' = {c \in creds : c.user # u}
    /\ codes' = KeptCodes(u)
    /\ rows' = RevokedRows(table, u)

-----------------------------------------------------------------------------
Challenge(kind, address, user, code, old) ==
    [kind |-> kind, key |-> address, user |-> user, code |-> code, life |-> CodeLife,
     resend |-> Cooldown, pw |-> IF user = Nobody THEN 0 ELSE users[user].pw,
     fails |-> IF old = {} THEN 0 ELSE (CHOOSE c \in old : TRUE).fails,
     lock |-> IF old = {} THEN 0 ELSE (CHOOSE c \in old : TRUE).lock]

\* A login in two steps: the password is checked against the hash that was read,
authenticatePasswordLogin(h, u, op) ==
    /\ users[u].email # Nobody /\ ~users[u].banned
    /\ Begin(h, [NoRequest EXCEPT !.op = op, !.user = u, !.key = users[u].email,
                                  !.pw = users[u].pw, !.old = users[u].old])
    /\ UNCHANGED <<users, rows, codes, cooldowns, creds, invitations, wrong>>
    /\ UNCHANGED mailVars

login(h, u) == Does("Login") /\ authenticatePasswordLogin(h, u, "login")
legacyLogin(h, u) == Does("LegacyLogin") /\ authenticatePasswordLogin(h, u, "legacyLogin")

\* Mutant: the second step looks at the ban only.
StillOpen(r) == ~users[r.user].banned

Unchanged(r) ==
    LET a == users[r.user] IN ~a.banned /\ a.email = r.key /\ a.pw = r.pw /\ a.old = r.old

\* and the session, or the old panel's token, is created if nothing it rests on has changed,
completePasswordLoginTx(h) ==
    LET r == requests[h] IN
    /\ Unchanged(r)
    /\ users' = [users EXCEPT ![r.user].old = FALSE]
    /\ creds' = creds \cup {[user |-> r.user, pw |-> r.pw, via |-> "password"]}

CompletePasswordLoginAndCreateSession(h) == requests[h].op = "login" /\ completePasswordLoginTx(h)
CompletePasswordLoginAndCreateAccessToken(h) == requests[h].op = "legacyLogin" /\ completePasswordLoginTx(h)

\* or a conflict is retried once with what is stored now, if the password still opens it.
completePasswordLogin(h) ==
    LET r == requests[h] IN
    /\ \/ (CompletePasswordLoginAndCreateSession(h) \/ CompletePasswordLoginAndCreateAccessToken(h)) /\ Finish(h)
       \/ /\ r.op \in {"login", "legacyLogin"} /\ ~Unchanged(r)
          /\ LET a == users[r.user] IN
             IF r.tries = 0 /\ ~a.banned /\ a.pw = r.pw /\ a.email # Nobody
             THEN requests' = [requests EXCEPT ![h].tries = 1, ![h].key = a.email, ![h].old = a.old]
             ELSE Finish(h)
          /\ UNCHANGED <<users, creds>>
    /\ UNCHANGED <<rows, codes, cooldowns, invitations, wrong>>
    /\ UNCHANGED mailVars

\* The account after a new password, and everything it revokes.
NewPassword(u) ==
    /\ users' = [users EXCEPT ![u].pw = @ + 1, ![u].old = FALSE]
    /\ revokeAllCredentialsTx(u, rows)

Current(r) == users[r.user].pw = r.pw /\ users[r.user].old = r.old

changePassword(h, u) ==
    /\ Does("ChangePassword") /\ users[u].pw < MaxPasswords
    /\ \E c \in creds : c.user = u
    /\ Begin(h, [NoRequest EXCEPT !.op = "change", !.user = u, !.pw = users[u].pw, !.old = users[u].old])
    /\ UNCHANGED <<users, rows, codes, cooldowns, creds, invitations, wrong>>
    /\ UNCHANGED mailVars

ChangePassword(h) ==
    LET r == requests[h] IN
    /\ r.op = "change"
    /\ IF Current(r) THEN NewPassword(r.user) ELSE UNCHANGED <<users, creds, codes, rows>>
    /\ Finish(h)
    /\ UNCHANGED <<cooldowns, invitations, wrong>>
    /\ UNCHANGED mailVars

\* A signed-in user asks for a token or a quick link; the insert looks at the ban again, and at
\* nothing else.
SignedIn(h, op) ==
    /\ Does("CreateCredential")
    /\ \E c \in creds : Begin(h, [NoRequest EXCEPT !.op = op, !.user = c.user, !.pw = c.pw])
    /\ UNCHANGED <<users, rows, codes, cooldowns, creds, invitations, wrong>>
    /\ UNCHANGED mailVars

createAccessToken(h) == SignedIn(h, "token")
createQuickLoginLinkForUser(h) == SignedIn(h, "quick")

CreateAccessToken(h) ==
    LET r == requests[h] IN
    /\ r.op = "token"
    /\ creds' = IF users[r.user].banned THEN creds
                ELSE creds \cup {[user |-> r.user, pw |-> r.pw, via |-> "session"]}
    /\ Finish(h)
    /\ UNCHANGED <<users, rows, codes, cooldowns, invitations, wrong>>
    /\ UNCHANGED mailVars

CreateQuickLoginLink(h) ==
    LET r == requests[h] IN
    /\ r.op = "quick"
    /\ codes' = IF users[r.user].banned THEN codes
                ELSE codes \cup {[Challenge("quick", Nobody, r.user, 0, {}) EXCEPT !.pw = r.pw]}
    /\ Finish(h)
    /\ UNCHANGED <<users, rows, creds, cooldowns, invitations, wrong>>
    /\ UNCHANGED mailVars

RevokeUserSession ==
    /\ Does("Revoke")
    /\ \E c \in creds : creds' = creds \ {c}
    /\ UNCHANGED <<users, rows, codes, cooldowns, requests, invitations, wrong>>
    /\ UNCHANGED mailVars

-----------------------------------------------------------------------------
Standing(kind, address) == {c \in codes : c.kind = kind /\ c.key = address}

\* A reset or a registration code: a new one replaces the old and its mail, keeps the count of the
\* wrong guesses while their window lasts, and is mailed only if mailed is true.
IssueCode(kind, address, user, mailed) ==
    LET old == Standing(kind, address)
        code == IF mailed THEN NextCode ELSE 0
        table == Cancel(rows, OfKey(kind, address))
    IN  /\ \A c \in old : c.resend = 0
        /\ Len(rows) < MaxRows
        /\ codes' = (codes \ old) \cup {Challenge(kind, address, user, code, old)}
        /\ rows' = IF mailed THEN Append(table, Row(kind, user, address, code)) ELSE table

\* Anyone asks for a reset of an address; the answer does not tell whether it is registered.
RequestPasswordReset(address) ==
    /\ "smtp" \in switches
    /\ \/ \E u \in Owner(address) : IssueCode("reset", address, u, TRUE)
       \/ Owner(address) = {} /\ IssueCode("reset", address, Nobody, FALSE)
    /\ UNCHANGED <<users, cooldowns, creds, requests, invitations, wrong>>
    /\ UNCHANGED mailVars

issuePasswordReset(address) == Does("RequestPasswordReset") /\ RequestPasswordReset(address)

\* A code somebody can know: one that was delivered to this address, or 0 for a guess.
Known(kind, address) ==
    {0} \cup {rows[i].code : i \in {j \in OfKey(kind, address) : rows[j].deliveries > 0}}

Locked(c) == c.fails >= MaxGuesses /\ c.lock > 0
Open(c) == ~Locked(c) /\ c.life > 0

\* A wrong code is counted against the challenge, for as long as the window of the first lasts.
Miss(c) ==
    /\ codes' = (codes \ {c}) \cup
        {[c EXCEPT !.fails = IF @ < MaxGuesses THEN @ + 1 ELSE @,
                   !.lock = IF c.fails = 0 THEN FailureWindow ELSE @]}
    /\ wrong' = IF c.code = 0 THEN wrong ELSE [wrong EXCEPT ![c.code] = @ + 1]

CheckPasswordResetChallenge(h, address) ==
    /\ \E c \in Standing("reset", address), code \in Known("reset", address) :
        /\ Open(c)
        /\ IF code = c.code /\ code # 0
           THEN /\ Begin(h, [NoRequest EXCEPT !.op = "reset", !.user = c.user, !.key = address, !.code = code,
                                           !.pw = users[c.user].pw, !.old = users[c.user].old])
                /\ users[c.user].pw < MaxPasswords
                /\ UNCHANGED <<codes, wrong>>
           ELSE Miss(c) /\ UNCHANGED requests
    /\ UNCHANGED <<users, rows, cooldowns, creds, invitations>>
    /\ UNCHANGED mailVars

\* The new password is hashed by now; the code must still stand for the same account and password.
ResetPasswordWithChallenge(h) ==
    LET r == requests[h] IN
    /\ r.op = "reset"
    /\ IF /\ Current(r)
          /\ \E c \in Standing("reset", r.key) : Open(c) /\ c.code = r.code /\ c.user = r.user
       THEN NewPassword(r.user)
       ELSE UNCHANGED <<users, creds, codes, rows>>
    /\ Finish(h)
    /\ UNCHANGED <<cooldowns, invitations, wrong>>
    /\ UNCHANGED mailVars

confirmPasswordResetInput(h) ==
    /\ Does("ConfirmPasswordReset")
    /\ \/ \E address \in accScope.addresses : CheckPasswordResetChallenge(h, address)
       \/ ResetPasswordWithChallenge(h)

\* A login link by mail: the cooldown is kept for every address, the link is queued only if the
\* account the handler found still is the address's.
requestMailLoginLink(h, address) ==
    /\ Does("RequestMailLoginLink")
    /\ \/ \E u \in Owner(address) :
            ~users[u].banned /\ Begin(h, [NoRequest EXCEPT !.op = "link", !.user = u, !.key = address])
       \/ /\ \A u \in Owner(address) : users[u].banned
          /\ Begin(h, [NoRequest EXCEPT !.op = "link", !.key = address])
    /\ UNCHANGED <<users, rows, codes, cooldowns, creds, invitations, wrong>>
    /\ UNCHANGED mailVars

RequestMailLoginLink(h) ==
    LET r == requests[h]
        queued == r.user # Nobody /\ users[r.user].email = r.key /\ ~users[r.user].banned
    IN
    /\ r.op = "link"
    /\ IF On("link") /\ Len(rows) < MaxRows /\ ~\E c \in cooldowns : c.what = "link" /\ c.key = r.key
       THEN /\ cooldowns' = cooldowns \cup {[what |-> "link", key |-> r.key, left |-> Cooldown]}
            /\ IF queued
               THEN /\ rows' = Append(rows, Row("link", r.user, r.key, NextCode))
                    /\ codes' = codes \cup {Challenge("link", r.key, r.user, NextCode, {})}
               ELSE UNCHANGED <<rows, codes>>
       ELSE UNCHANGED <<rows, codes, cooldowns>>
    /\ Finish(h)
    /\ UNCHANGED <<users, creds, invitations, wrong>>
    /\ UNCHANGED mailVars

\* A link is good for one session, and its mail, if still queued, is not sent any more.
ExchangeLoginLink ==
    /\ \E c \in codes :
        /\ c.kind \in {"link", "quick"} /\ c.life > 0 /\ ~users[c.user].banned
        /\ c.kind = "link" => c.code \in Known("link", c.key)
        /\ codes' = codes \ {c}
        /\ rows' = Cancel(rows, OfCode("link", c.code))
        /\ creds' = creds \cup {[user |-> c.user, pw |-> c.pw,
                                via |-> IF c.kind = "link" THEN "link" ELSE "session"]}
    /\ UNCHANGED <<users, cooldowns, requests, invitations, wrong>>
    /\ UNCHANGED mailVars

exchangeLoginLinkToken == Does("ExchangeLoginLink") /\ ExchangeLoginLink

-----------------------------------------------------------------------------
\* Registrations from the one source are limited; the policy's other checks of an address are one
\* bit of the scope (stop, white list).
readRegistrationIPCounter == LET seen == {c \in cooldowns : c.what = "ip"} IN
    IF seen = {} THEN 0 ELSE (CHOOSE c \in seen : TRUE).key
Limited == readRegistrationIPCounter >= IPLimit

RequestRegistrationEmailVerification(address) ==
    /\ {"verify", "smtp"} \subseteq switches /\ ~Limited
    /\ IssueCode("registration", address, Nobody, Owner(address) = {})
    /\ UNCHANGED <<users, cooldowns, creds, requests, invitations, wrong>>
    /\ UNCHANGED mailVars

issueRegistrationEmailVerification(address) ==
    Does("RequestVerification") /\ RequestRegistrationEmailVerification(address)

CheckRegistrationEmailVerification(h, address, i, code) ==
    \E c \in Standing("registration", address) :
        /\ Open(c)
        /\ IF code = c.code /\ code # 0
           THEN /\ Begin(h, [NoRequest EXCEPT !.op = "register", !.user = i, !.key = address, !.code = code])
                /\ UNCHANGED <<codes, wrong>>
           ELSE Miss(c) /\ UNCHANGED requests

\* The handler checks policy and code before it hashes the password,
registerAccount(h, address) ==
    /\ Does("Register") /\ ~Limited /\ Owner(address) = {}
    /\ \E i \in invitations \cup {Nobody} :
        IF "verify" \in switches
        THEN \E code \in Known("registration", address) : CheckRegistrationEmailVerification(h, address, i, code)
        ELSE Begin(h, [NoRequest EXCEPT !.op = "register", !.user = i, !.key = address]) /\ UNCHANGED <<codes, wrong>>
    /\ UNCHANGED <<users, rows, cooldowns, creds, invitations>>
    /\ UNCHANGED mailVars

resolveInvitationCodeTx(r) == IF r.user \in invitations THEN r.user ELSE Nobody
validateRegistrationEmailChallengeTx(r) ==
    \E c \in Standing("registration", r.key) : Open(c) /\ c.code = r.code /\ r.code # 0
consumeRegistrationEmailChallengeTx(r) ==
    /\ codes' = codes \ Standing("registration", r.key)
    /\ rows' = Cancel(rows, OfKey("registration", r.key))

\* Mutant: the handler's own checks are relied on.
AdmittedEarlier(r) == Owner(r.key) = {}

\* and one transaction reads the policy again, checks everything, inserts the account and its
\* session, counts the source, and consumes code and invitation.  An invitation that is gone is
\* dropped unless one is required.
Admitted(r) ==
    /\ ~Limited
    /\ accScope.inviteForce => resolveInvitationCodeTx(r) # Nobody
    /\ "verify" \in switches => validateRegistrationEmailChallengeTx(r)
    /\ Owner(r.key) = {}

registerUser(h) ==
    LET r == requests[h]
        verified == "verify" \in switches
    IN
    /\ r.op = "register"
    /\ IF Admitted(r)
       THEN \E u \in Users :
            /\ users[u].life = "absent"
            /\ users' = [users EXCEPT ![u] =
                    [Absent EXCEPT !.email = r.key, !.pw = 1, !.life = "active", !.fresh = IPWindow,
                                   !.invite = resolveInvitationCodeTx(r),
                                   !.proof = IF verified THEN r.code ELSE 0]]
            /\ creds' = creds \cup {[user |-> u, pw |-> 1, via |-> "registration"]}
            /\ cooldowns' = {c \in cooldowns : c.what # "ip"}
                    \cup {[what |-> "ip", key |-> readRegistrationIPCounter + 1, left |-> IPWindow]}
            /\ IF verified THEN consumeRegistrationEmailChallengeTx(r) ELSE UNCHANGED <<codes, rows>>
            /\ invitations' = invitations \ {r.user}
       ELSE UNCHANGED <<users, creds, cooldowns, codes, rows, invitations>>
    /\ Finish(h)
    /\ UNCHANGED wrong
    /\ UNCHANGED mailVars

-----------------------------------------------------------------------------
\* A reminder to an address or an account that should get none is cancelled, unless a worker has it.
cancelSubscriptionRemindersForUserChangeTx(u, email, ban) ==
    Cancel(rows, {i \in OfUser({"reminder"}, u) \cap Unclaimed({"reminder"}) : rows[i].key # email \/ ban})

\* An administrator's form: address, ban, roles, password.  Any of them revokes the credentials.
UpdateAdminUser(u) ==
    /\ users[u].life \in {"active", "deactivated"}
    /\ \E email \in accScope.addresses, ban \in BOOLEAN, password \in BOOLEAN :
        /\ Owner(email) \subseteq {u}
        /\ users[u].life = "deactivated" => ban
        /\ password => users[u].pw < MaxPasswords
        /\ <<email, ban, password>> # <<users[u].email, users[u].banned, FALSE>>
        /\ users' = [users EXCEPT ![u].email = email, ![u].banned = ban,
                                  ![u].pw = IF password THEN @ + 1 ELSE @,
                                  ![u].old = IF password THEN FALSE ELSE @]
        /\ revokeAllCredentialsTx(u, cancelSubscriptionRemindersForUserChangeTx(u, email, ban))
    /\ UNCHANGED <<cooldowns, requests, invitations, wrong>>
    /\ UNCHANGED mailVars

ResetAdminUserPassword(u) ==
    /\ users[u].life = "active" /\ users[u].pw < MaxPasswords
    /\ NewPassword(u)
    /\ UNCHANGED <<cooldowns, requests, invitations, wrong>>
    /\ UNCHANGED mailVars

\* Every message to the account is cancelled, claimed or not.
cancelUserLifecycleNotificationsTx(u) == Cancel(rows, {i \in DOMAIN rows : rows[i].user = u})
anonymizeUserTx(u) ==
    users' = [users EXCEPT ![u].life = "anonymized", ![u].email = Nobody, ![u].chat = FALSE,
                           ![u].pw = @ + 1, ![u].old = FALSE]

\* Deactivation bans and remembers the ban before it; within the recovery window the account can be
\* restored, after it anonymized.
ChangeUserLifecycle(u) ==
    /\ \/ /\ users[u].life = "active"
          /\ users' = [users EXCEPT ![u].life = "deactivated", ![u].before = users[u].banned, ![u].banned = TRUE]
       \/ /\ users[u].life = "deactivated"
          /\ users' = [users EXCEPT ![u].life = "active", ![u].banned = users[u].before, ![u].before = FALSE]
       \/ /\ users[u].life = "deactivated" /\ users[u].pw < MaxPasswords
          /\ anonymizeUserTx(u)
    /\ revokeAllCredentialsTx(u, cancelUserLifecycleNotificationsTx(u))
    /\ UNCHANGED <<cooldowns, requests, invitations, wrong>>
    /\ UNCHANGED mailVars

-----------------------------------------------------------------------------
updateAdminUser(u) == Does("UpdateAdminUser") /\ UpdateAdminUser(u)
resetAdminUserPassword(u) == Does("ResetAdminUserPassword") /\ ResetAdminUserPassword(u)
applyAdminUserLifecycle(u) == Does("Lifecycle") /\ ChangeUserLifecycle(u)

Request(h) ==
    \/ \E u \in Users : login(h, u) \/ legacyLogin(h, u) \/ changePassword(h, u)
    \/ completePasswordLogin(h) \/ ChangePassword(h)
    \/ createAccessToken(h) \/ CreateAccessToken(h) \/ createQuickLoginLinkForUser(h) \/ CreateQuickLoginLink(h)
    \/ confirmPasswordResetInput(h)
    \/ \E address \in accScope.addresses : requestMailLoginLink(h, address) \/ registerAccount(h, address)
    \/ RequestMailLoginLink(h) \/ registerUser(h)

AccountsInit(scope) ==
    /\ accScope = scope
    /\ users = scope.users
    /\ switches = scope.on /\ switched = 0
    /\ rows = <<>> /\ codes = {} /\ cooldowns = {}
    /\ jobs = [w \in Workers |-> Idle]
    /\ updates = [x \in Updates |-> Unseen]
    /\ hooks = [h \in Hooks |-> Unheard]
    /\ creds = {}
    /\ requests = [h \in Handlers |-> NoRequest]
    /\ invitations = Invitations
    /\ wrong = [i \in 1..MaxRows |-> 0]

AccountsNext ==
    \/ OutboxNext /\ UNCHANGED <<creds, requests, invitations, wrong>>
    \/ \E h \in accScope.handlers : Request(h)
    \/ \E address \in accScope.addresses :
        issuePasswordReset(address) \/ issueRegistrationEmailVerification(address)
    \/ exchangeLoginLinkToken \/ RevokeUserSession
    \/ \E u \in Users : updateAdminUser(u) \/ resetAdminUserPassword(u) \/ applyAdminUserLifecycle(u)

\* A scope the panel can start in: accounts of some addresses, none of them registered just now.
Account == [email : Addresses \cup {Nobody}, pw : Nat, old : BOOLEAN, banned : BOOLEAN, before : BOOLEAN,
            life : {"absent", "active", "deactivated", "anonymized"}, chat : BOOLEAN, fresh : Nat,
            invite : Invitations \cup {Nobody}, proof : Nat]
ScopeOK(scope) ==
    /\ scope.users \in [Users -> Account]
    /\ scope.addresses \subseteq Addresses /\ scope.handlers \subseteq Handlers
    /\ \A u \in Users : LET a == scope.users[u] IN
        /\ a.life = "absent" => a.email = Nobody
        /\ a.fresh = 0 /\ a.invite = Nobody /\ a.proof = 0

AccountsSpec(scope) == AccountsInit(scope) /\ [][AccountsNext]_accountVars

-----------------------------------------------------------------------------
\* Nothing that was obtained with an old password, or before a ban, opens an account: neither a
\* session nor a token, nor a code or link, nor one that still waits in the outbox for a worker,
\* however the revocation fell between the two steps of the handler.  Exempt is what a signed-in
\* user created for himself, which only looks at the ban.
CredentialsCurrent ==
    /\ \A c \in creds : ~users[c.user].banned /\ (c.via # "session" => c.pw = users[c.user].pw)
    /\ \A c \in codes : c.kind \in {"reset", "link"} /\ c.user # Nobody => c.pw = users[c.user].pw
    /\ \A i \in DOMAIN rows :
        rows[i].kind \in {"reset", "link"} /\ Pending(rows[i])
            => \E c \in codes : c.kind = rows[i].kind /\ c.code = rows[i].code /\ c.user = rows[i].user

\* Registration admits nobody twice on one mailed code or one invitation, not more accounts from a
\* source than its limit within its window, although the handler's checks are a step before the
\* transaction.  And the guesses at a code stay limited, although a code can be asked for again: one
\* that inherits the wrong guesses at the code before it sees what is left of their window, and one
\* window of its own.
AdmissionsEarned ==
    /\ \A u, v \in Users : u # v =>
        /\ users[u].invite = users[v].invite => users[u].invite = Nobody
        /\ users[u].proof = users[v].proof => users[u].proof = 0
    /\ Cardinality({u \in Users : users[u].fresh > 0}) <= IPLimit
    /\ \A i \in 1..MaxRows : wrong[i] < 2 * MaxGuesses
=============================================================================
