------------------------------ MODULE MCPanel -------------------------------
EXTENDS Accounts, BulkJobs

VARIABLE part

MCUsers == {"ann", "bob"}
MCAddresses == {"a@", "b@"}
Somebody(address) == [Absent EXCEPT !.email = address, !.pw = 1, !.old = TRUE, !.life = "active"]

Two == [u \in Users |-> Somebody(IF u = "ann" THEN "a@" ELSE "b@")]
Staff == [u \in Users |-> [Two[u] EXCEPT !.chat = TRUE]]
One == [u \in Users |-> IF u = "ann" THEN Somebody("a@") ELSE Absent]
None == [u \in Users |-> Absent]

Scopes == {
    [ops |-> {"EnqueueTicketMail", "ScheduleSubscriptionReminders", "Faults", "Switch"},
     users |-> One, addresses |-> {}, on |-> {"smtp", "remind"}, handlers |-> Handlers, inviteForce |-> FALSE],
    [ops |-> {"EnqueueTelegramAdminNotification", "ChangeRecipient", "Faults", "Switch"},
     users |-> [One EXCEPT !["ann"].chat = TRUE], addresses |-> {}, on |-> {"telegram"}, handlers |-> Handlers, inviteForce |-> FALSE],
    [ops |-> {"Webhook", "Faults"},
     users |-> One, addresses |-> {}, on |-> {"telegram"}, handlers |-> Handlers, inviteForce |-> FALSE],
    [ops |-> {"Login", "ChangePassword", "CreateCredential", "Revoke", "UpdateAdminUser", "Lifecycle"},
     users |-> One, addresses |-> {"a@"}, on |-> {}, handlers |-> Handlers, inviteForce |-> FALSE],
    [ops |-> {"RequestPasswordReset", "ConfirmPasswordReset", "ResetAdminUserPassword", "Login"},
     users |-> One, addresses |-> {"a@"}, on |-> {"smtp"}, handlers |-> Handlers, inviteForce |-> FALSE],
    [ops |-> {"RequestMailLoginLink", "ExchangeLoginLink", "UpdateAdminUser", "Faults"},
     users |-> One, addresses |-> {"a@"}, on |-> {"smtp", "mailLogin"}, handlers |-> {CHOOSE h \in Handlers : TRUE}, inviteForce |-> FALSE],
    [ops |-> {"RequestVerification", "Register"},
     users |-> None, addresses |-> {"a@"}, on |-> {"smtp", "verify"}, handlers |-> Handlers, inviteForce |-> FALSE],
    [ops |-> {"RequestVerification", "Register", "Switch"},
     users |-> None, addresses |-> {"a@"}, on |-> {"smtp", "verify"}, handlers |-> {CHOOSE h \in Handlers : TRUE}, inviteForce |-> FALSE],
    [ops |-> {"LegacyLogin", "UpdateAdminUser"},
     users |-> One, addresses |-> {"a@", "b@"}, on |-> {}, handlers |-> Handlers, inviteForce |-> FALSE],
    [ops |-> {"Register", "Revoke"},
     users |-> None, addresses |-> {"a@", "b@"}, on |-> {}, handlers |-> Handlers, inviteForce |-> TRUE]}

ASSUME ScopesGood == \A s \in Scopes : ScopeOK(s)

TheScope == CHOOSE s \in Scopes : s.ops = {"Register", "Revoke"}

Init ==
    /\ BulkInit
    /\ \/ part = "accounts" /\ \E s \in Scopes : AccountsInit(s)
       \/ part \in {"mail", "export", "ban"} /\ AccountsInit(TheScope)

Next ==
    \/ part = "accounts" /\ AccountsNext /\ UNCHANGED <<bulkVars, part>>
    \/ part = "mail" /\ MailNext /\ bulk'[2] = NoJob /\ UNCHANGED <<accountVars, part>>
    \/ part = "export" /\ ExportNext /\ bulk'[2] = NoJob /\ UNCHANGED <<accountVars, part>>
    \/ part = "ban" /\ BanNext /\ UNCHANGED <<accountVars, part>>

vars == <<accountVars, bulkVars, part>>

\* The workers of the outboxes and of the administrator's jobs keep polling, and the clock runs.
Polls(A) == A /\ part = "accounts" /\ UNCHANGED <<creds, requests, invitations, wrong, bulkVars, part>>
Works(A) == A /\ part \in {"mail", "export", "ban"} /\ UNCHANGED <<accountVars, part>>
Fairness ==
    /\ \A w \in Mailers : WF_vars(Polls(Mailer(w)))
    /\ \A w \in Bots : WF_vars(Polls(Bot(w)))
    /\ WF_vars(Polls(Prune)) /\ WF_vars(Polls(Tick))
    /\ \A w \in Clerks : WF_vars(Works(RunMailOnce(w)))
    /\ \A x \in Exporters : WF_vars(Works(runCSVOnce(x)))
    /\ WF_vars(Works(LeaseEnds)) /\ WF_vars(Works(RetryDue)) /\ WF_vars(Works(CleanupExpired))
Spec == Init /\ [][Next]_vars /\ Fairness
=============================================================================
