------------------------------- MODULE Outbox -------------------------------
(***************************************************************************)
(* The outboxes of the panel and the workers that empty them.  Five tables *)
(* hold mail (password reset, registration, login link, ticket, reminder), *)
(* one holds Telegram messages; all follow one protocol.  A worker claims  *)
(* a due row under a lease, checks at the last moment that its claim still *)
(* stands, sends, and records the outcome under its claim.  Meanwhile rows *)
(* are cancelled, channels are switched, leases run out and workers die    *)
(* between any two steps.                                                  *)
(*                                                                         *)
(* A claim token is the number of the attempt: a row is claimed at most    *)
(* once per attempt.  Times are what is left of them (wait, lease, life),  *)
(* so that behaviours need no end of time.  What a transaction under       *)
(* lockWrite does is one step.                                             *)
(***************************************************************************)
EXTENDS Integers, Sequences, FiniteSets

CONSTANTS
    Users,
    Addresses,      \* e-mail addresses, registered or not
    Mailers,        \* mailer workers, one per panel process
    Bots,           \* Telegram workers
    Hooks,          \* handlers of Telegram's webhook calls
    Updates,        \* updates Telegram calls the webhook with
    Nobody,         \* no user, no address
    MaxRows,        \* bound: rows queued in a behaviour
    MaxSwitches,    \* bound: edits of the settings in a behaviour
    MaxAttempts,    \* maxTicketMailAttempts and its like
    ClaimLease,     \* mailClaimLease, telegramClaimLease
    RetryDelay,     \* mailRetryDelay and its like
    Margin,         \* a code is mailed only if it lives longer than this
    CodeLife,       \* passwordResetCodeTTL and its like
    Cooldown        \* passwordResetSendCooldown, ticketMailThrottle and their like

ASSUME OutboxConstants ==
    /\ {MaxRows, MaxSwitches, RetryDelay, Margin, Cooldown} \subseteq Nat
    /\ {MaxAttempts, ClaimLease, CodeLife} \subseteq Nat \ {0}
    /\ Margin < CodeLife /\ Cooldown <= CodeLife
    /\ Nobody \notin Users \cup Addresses
    /\ IsFiniteSet(Users) /\ IsFiniteSet(Mailers \cup Bots)

VARIABLES
    users,          \* the accounts
    rows,           \* the outbox tables
    jobs,           \* what each worker is doing
    switches,       \* the channels that are on (app_settings, trusted_plugins)
    switched,       \* edits of the settings so far
    codes,          \* password_reset_challenges, registration_email_challenges, login_link_tokens
    cooldowns,      \* ticket_mail_throttle, mail_login_request_limits, registration_ip_limits
    updates,        \* telegram_webhook_updates
    hooks,          \* webhook handlers
    accScope        \* the operations of this behaviour

outboxVars == <<users, rows, jobs, switches, switched, codes, cooldowns, updates, hooks, accScope>>

-----------------------------------------------------------------------------
MailKinds == <<"reset", "registration", "link", "ticket", "reminder">>
Workers == Mailers \cup Bots
Idle == [stage |-> "idle", row |-> 0, token |-> 0]
Unheard == [stage |-> "idle", update |-> Nobody]
Unseen == [by |-> Nobody, done |-> FALSE, lease |-> 0]

\* The switches a kind of message needs to be claimed.
Needs(kind) ==
    CASE kind \in {"reset", "ticket"} -> {"smtp"}
      [] kind = "registration" -> {"smtp", "verify"}
      [] kind = "link" -> {"smtp", "mailLogin"}
      [] kind = "reminder" -> {"smtp", "remind"}
      [] OTHER -> {"telegram"}

On(kind) == Needs(kind) \subseteq switches
Does(op) == op \in accScope.ops

Row(kind, user, key, code) ==
    [kind |-> kind, user |-> user, key |-> key, code |-> code, status |-> "pending",
     attempt |-> 0, wait |-> 0, claim |-> 0, lease |-> 0, deliveries |-> 0]

Pending(r) == r.status = "pending"
Ended(r, status) == [r EXCEPT !.status = status, !.wait = 0, !.claim = 0, !.lease = 0]

\* The table after the pending rows in gone have ended; a ticket mail is never cancelled, it fails.
Cancel(table, gone) ==
    [i \in DOMAIN table |->
        IF i \in gone /\ Pending(table[i])
        THEN Ended(table[i], IF table[i].kind = "ticket" THEN "failed" ELSE "cancelled")
        ELSE table[i]]

Unclaimed(kinds) == {i \in DOMAIN rows : rows[i].kind \in kinds /\ rows[i].claim = 0}
OfKey(kind, key) == {i \in DOMAIN rows : rows[i].kind = kind /\ rows[i].key = key}
OfCode(kind, code) == {i \in DOMAIN rows : rows[i].kind = kind /\ rows[i].code = code}
OfUser(kinds, u) == {i \in DOMAIN rows : rows[i].kind \in kinds /\ rows[i].user = u}

\* A staff member Telegram notices go to.
Recipient(u) == users[u].email # Nobody /\ users[u].chat

\* What the claim of a row joins with: the code it carries lives on, the recipient still is one.
Usable(r) ==
    CASE r.kind \in {"reset", "registration"} ->
            \E c \in codes : c.kind = r.kind /\ c.key = r.key /\ c.life > Margin
      [] r.kind = "link" -> \E c \in codes : c.kind = "link" /\ c.code = r.code /\ c.life > Margin
      [] r.kind = "notice" -> Recipient(r.user)
      [] OTHER -> TRUE

Stale(r) == Pending(r) /\ r.claim # 0 /\ r.lease = 0
Exhausted(r) == Stale(r) /\ r.attempt >= MaxAttempts

Claimable(r) ==
    /\ Pending(r) /\ On(r.kind) /\ Usable(r)
    /\ r.attempt < MaxAttempts /\ r.wait = 0
    /\ r.claim = 0 \/ Stale(r)

Claim(r) == [r EXCEPT !.attempt = @ + 1, !.claim = r.attempt + 1, !.lease = ClaimLease]

\* No mail of a kind that RunOnce asks for before this one can be claimed.
Reached(kind) ==
    \A i \in DOMAIN rows : \A k \in 1..Len(MailKinds) :
        (Claimable(rows[i]) /\ rows[i].kind = MailKinds[k])
            => \E j \in 1..k : MailKinds[j] = kind

\* Mutant: a row whose worker died in the last attempt is left as it is.
Unrecovered == rows

\* The claims of ticket mails and reminders first fail those whose last attempt was never recorded.
Recovered ==
    [i \in DOMAIN rows |->
        IF rows[i].kind \in {"ticket", "reminder"} /\ Exhausted(rows[i]) /\ Reached(rows[i].kind)
        THEN Ended(rows[i], "failed") ELSE rows[i]]

Take(w, table, i) ==
    /\ rows' = [table EXCEPT ![i] = Claim(@)]
    /\ jobs' = [jobs EXCEPT ![w] = [stage |-> "claimed", row |-> i, token |-> rows[i].attempt + 1]]

\* One table's claim; which of its due rows is left open.
ClaimMail(w, kind) ==
    \E i \in DOMAIN rows :
        rows[i].kind = kind /\ Claimable(rows[i]) /\ Reached(kind) /\ Take(w, Recovered, i)

ClaimPasswordResetMail(w) == ClaimMail(w, "reset")
ClaimRegistrationEmailVerificationMail(w) == ClaimMail(w, "registration")
ClaimLoginLinkMail(w) == ClaimMail(w, "link")
ClaimTicketMail(w) == ClaimMail(w, "ticket")
ClaimSubscriptionReminder(w) == ClaimMail(w, "reminder")

\* One round of a mailer: the first kind with a claimable row, or nothing but the recovery.
RunOnce(w) ==
    /\ jobs[w] = Idle
    /\ \/ ClaimPasswordResetMail(w) \/ ClaimRegistrationEmailVerificationMail(w) \/ ClaimLoginLinkMail(w)
       \/ ClaimTicketMail(w) \/ ClaimSubscriptionReminder(w)
       \/ /\ Reached("none") /\ Recovered # rows
          /\ rows' = Recovered
          /\ UNCHANGED jobs
    /\ UNCHANGED <<users, switches, switched, codes, cooldowns, updates, hooks, accScope>>

\* The Telegram claim drops due notices to those who are no longer staff with that chat, then fails
\* the exhausted, then claims.
Redirected ==
    [i \in DOMAIN rows |->
        LET r == rows[i] IN
        IF r.kind = "notice" /\ Pending(r) /\ r.wait = 0 /\ ~Recipient(r.user) THEN Ended(r, "cancelled")
        ELSE IF r.kind \in {"notice", "command"} /\ Exhausted(r) THEN Ended(r, "failed")
        ELSE r]

ClaimTelegramMessage(w) ==
    /\ jobs[w] = Idle
    /\ \/ \E i \in DOMAIN rows :
            /\ rows[i].kind \in {"notice", "command"} /\ Claimable(rows[i])
            /\ Take(w, Redirected, i)
       \/ /\ \A i \in DOMAIN rows : rows[i].kind \in {"notice", "command"} => ~Claimable(rows[i])
          /\ Redirected # rows
          /\ rows' = Redirected
          /\ UNCHANGED jobs
    /\ UNCHANGED <<users, switches, switched, codes, cooldowns, updates, hooks, accScope>>

Carries(w, kinds) == jobs[w] # Idle /\ rows[jobs[w].row].kind \in kinds
Owned(w) == Pending(rows[jobs[w].row]) /\ rows[jobs[w].row].claim = jobs[w].token

Stage(w, stage) == jobs' = [jobs EXCEPT ![w].stage = stage]
Rest(w) == jobs' = [jobs EXCEPT ![w] = Idle]
OnlyRows == UNCHANGED <<users, switches, switched, codes, cooldowns, updates, hooks, accScope>>

\* The mail cannot be built: a missing key, a cipher or a template that does not open.
PrepareFails(w) ==
    /\ Does("Faults") /\ jobs[w].stage = "claimed"
    /\ Stage(w, "refused")
    /\ OnlyRows /\ UNCHANGED rows

\* The last look at the claim before the message leaves the process.
OutboxClaimActive(w) ==
    /\ jobs[w].stage = "claimed"
    /\ IF Owned(w) THEN Stage(w, "sending") ELSE Rest(w)
    /\ OnlyRows /\ UNCHANGED rows

\* The server takes the message or not, and the worker learns of it or not.
Send(w) ==
    /\ jobs[w].stage = "sending"
    /\ \E accepted, told \in IF Does("Faults") THEN BOOLEAN ELSE {TRUE} :
        /\ rows' = IF accepted THEN [rows EXCEPT ![jobs[w].row].deliveries = @ + 1] ELSE rows
        /\ Stage(w, IF accepted /\ told THEN "sent" ELSE "refused")
    /\ OnlyRows

\* What a worker does with the row it claimed, up to the answer of the server.
Deliver(w, kinds) == Carries(w, kinds) /\ (PrepareFails(w) \/ OutboxClaimActive(w) \/ Send(w))

deliverPasswordReset(w) == Deliver(w, {"reset"})
deliverRegistrationEmailVerification(w) == Deliver(w, {"registration"})
deliverLoginLink(w) == Deliver(w, {"link"})
deliverTicket(w) == Deliver(w, {"ticket"})
deliverSubscriptionReminder(w) == Deliver(w, {"reminder"})
deliverClaimed(w) == Deliver(w, {"notice", "command"})

\* Mutant: the outcome is recorded whatever has become of the claim.
CompleteAnyClaim(w) ==
    /\ jobs[w].stage = "sent"
    /\ rows' = [rows EXCEPT ![jobs[w].row] = Ended(@, "sent")]
    /\ Rest(w)
    /\ OnlyRows

Complete(w) ==
    /\ jobs[w].stage = "sent"
    /\ rows' = IF Owned(w) THEN [rows EXCEPT ![jobs[w].row] = Ended(@, "sent")] ELSE rows
    /\ Rest(w)
    /\ OnlyRows

CompletePasswordResetMail(w) == Carries(w, {"reset"}) /\ Complete(w)
CompleteRegistrationEmailVerificationMail(w) == Carries(w, {"registration"}) /\ Complete(w)
CompleteLoginLinkMail(w) == Carries(w, {"link"}) /\ Complete(w)
CompleteTicketMail(w) == Carries(w, {"ticket"}) /\ Complete(w)
CompleteSubscriptionReminder(w) == Carries(w, {"reminder"}) /\ Complete(w)
CompleteTelegramMessage(w) == Carries(w, {"notice", "command"}) /\ Complete(w)

\* A failure ends the row after the last attempt or when its channel went off (not for Telegram,
\* whose rows are cancelled with the channel); otherwise it is due again later.
Failed(r) ==
    IF r.attempt >= MaxAttempts \/ (r.kind \notin {"notice", "command"} /\ ~On(r.kind))
    THEN Ended(r, "failed")
    ELSE [r EXCEPT !.wait = RetryDelay, !.claim = 0, !.lease = 0]

RecordFailure(w) ==
    /\ jobs[w].stage = "refused"
    /\ rows' = IF Owned(w) THEN [rows EXCEPT ![jobs[w].row] = Failed(@)] ELSE rows
    /\ Rest(w)
    /\ OnlyRows

FailPasswordResetMail(w) == Carries(w, {"reset"}) /\ RecordFailure(w)
FailRegistrationEmailVerificationMail(w) == Carries(w, {"registration"}) /\ RecordFailure(w)
FailLoginLinkMail(w) == Carries(w, {"link"}) /\ RecordFailure(w)
FailTicketMail(w) == Carries(w, {"ticket"}) /\ RecordFailure(w)
FailSubscriptionReminder(w) == Carries(w, {"reminder"}) /\ RecordFailure(w)
FailTelegramMessage(w) == Carries(w, {"notice", "command"}) /\ RecordFailure(w)

\* The process dies, or the outcome cannot be written; the claim stays until its lease runs out.
WorkerDies(w) ==
    /\ Does("Faults") /\ jobs[w] # Idle
    /\ Rest(w)
    /\ OnlyRows /\ UNCHANGED rows

-----------------------------------------------------------------------------
\* An administrator's reply in a ticket mails its owner, at most one per throttle period.
enqueueTicketMailTx(u) ==
    /\ Does("EnqueueTicketMail") /\ users[u].email # Nobody /\ Len(rows) < MaxRows
    /\ "smtp" \in switches
    /\ ~\E c \in cooldowns : c.what = "ticket" /\ c.key = u
    /\ rows' = Append(rows, Row("ticket", u, users[u].email, Len(rows) + 1))
    /\ cooldowns' = cooldowns \cup {[what |-> "ticket", key |-> u, left |-> Cooldown]}
    /\ UNCHANGED <<users, jobs, switches, switched, codes, updates, hooks, accScope>>

\* Today's reminders for the accounts that near their end and were not reminded yet; one day is
\* modelled, in batches of one.
ScheduleSubscriptionReminders ==
    /\ Does("ScheduleSubscriptionReminders") /\ On("reminder")
    /\ \E u \in Users :
        /\ users[u].email # Nobody /\ ~users[u].banned
        /\ OfUser({"reminder"}, u) = {} /\ Len(rows) < MaxRows
        /\ rows' = Append(rows, Row("reminder", u, users[u].email, Len(rows) + 1))
    /\ UNCHANGED <<users, jobs, switches, switched, codes, cooldowns, updates, hooks, accScope>>

telegramNotificationEnabledTx == "telegram" \in switches
enqueueTelegramAdminNotificationTx ==
    /\ Does("EnqueueTelegramAdminNotification") /\ telegramNotificationEnabledTx
    /\ LET all == {u \in Users : Recipient(u)}
           one == CHOOSE f \in [1..Cardinality(all) -> all] : \A u \in all : \E i \in DOMAIN f : f[i] = u
       IN  /\ all # {} /\ Len(rows) + Cardinality(all) <= MaxRows
           /\ rows' = rows \o [i \in DOMAIN one |-> Row("notice", one[i], one[i], Len(rows) + i)]
    /\ UNCHANGED <<users, jobs, switches, switched, codes, cooldowns, updates, hooks, accScope>>

\* A new ticket or a payment is announced to the staff with a chat.
enqueueTelegramTicketNotificationTx == enqueueTelegramAdminNotificationTx
enqueueTelegramPaymentNotificationTx == enqueueTelegramAdminNotificationTx

\* A staff member binds or unbinds a chat, or is no longer staff.
ChangeRecipient(u) ==
    /\ Does("ChangeRecipient") /\ switched < MaxSwitches /\ users[u].email # Nobody
    /\ users' = [users EXCEPT ![u].chat = ~@]
    /\ switched' = switched + 1
    /\ UNCHANGED <<rows, jobs, switches, codes, cooldowns, updates, hooks, accScope>>

-----------------------------------------------------------------------------
Switchable == Does("Switch") /\ switched < MaxSwitches

Switch(on, table, kept) ==
    /\ switches' = on
    /\ rows' = table
    /\ codes' = kept
    /\ switched' = switched + 1
    /\ UNCHANGED <<users, jobs, updates, hooks, accScope>>

MailTables == {"ticket", "reset", "registration", "link", "reminder"}

ensureSMTPCanBeDisabled == switches \cap {"verify", "mailLogin"} = {}
cancelAllUnclaimedMailTx == Cancel(rows, Unclaimed(MailTables))
cancelUnclaimedSubscriptionRemindersTx == Cancel(rows, Unclaimed({"reminder"}))
cancelPendingTelegramMessagesTx == Cancel(rows, {i \in DOMAIN rows : rows[i].kind \in {"notice", "command"}})

\* The mail settings: SMTP stays on while another setting depends on it; what no worker holds is
\* cancelled with its channel.
UpdateMailSettings ==
    /\ Switchable
    /\ \E smtp \in BOOLEAN, remind \in BOOLEAN :
        /\ remind => smtp
        /\ ~smtp => ensureSMTPCanBeDisabled
        /\ Switch((switches \ {"smtp", "remind"}) \cup (IF smtp THEN {"smtp"} ELSE {})
                    \cup (IF remind THEN {"remind"} ELSE {}),
                  CASE ~smtp -> cancelAllUnclaimedMailTx
                    [] smtp /\ ~remind -> cancelUnclaimedSubscriptionRemindersTx
                    [] OTHER -> rows,
                  codes)
    /\ UNCHANGED cooldowns

\* The ticket settings write SMTP too, and leave the reminder switch alone.
UpdateTicketSettings ==
    /\ Switchable
    /\ \E smtp \in BOOLEAN :
        /\ ~smtp => ensureSMTPCanBeDisabled
        /\ Switch((switches \ {"smtp"}) \cup (IF smtp THEN {"smtp"} ELSE {}),
                  IF smtp THEN rows ELSE cancelAllUnclaimedMailTx, codes)
    /\ UNCHANGED cooldowns

\* The site settings: switching a use of mail off revokes its codes and cancels its mail, claimed
\* or not.
UpdateSiteSettings ==
    /\ Switchable
    /\ \E on \in SUBSET {"verify", "mailLogin"} :
        LET off == (switches \cap {"verify", "mailLogin"}) \ on
            kinds == (IF "verify" \in off THEN {"registration"} ELSE {})
                        \cup (IF "mailLogin" \in off THEN {"link"} ELSE {})
        IN  /\ on # {} => "smtp" \in switches
            /\ Switch((switches \ {"verify", "mailLogin"}) \cup on,
                      Cancel(rows, {i \in DOMAIN rows : rows[i].kind \in kinds}),
                      {c \in codes : c.kind \notin kinds})
            /\ cooldowns' = {c \in cooldowns : c.what \notin kinds}

\* The bot goes off, or gets another token: its pending messages are cancelled.
UpdateTelegramSettings ==
    /\ Switchable
    /\ \E on \in BOOLEAN, replaced \in BOOLEAN :
        Switch((switches \ {"telegram"}) \cup (IF on THEN {"telegram"} ELSE {}),
               IF ~on \/ replaced THEN cancelPendingTelegramMessagesTx ELSE rows,
               codes)
    /\ UNCHANGED cooldowns

-----------------------------------------------------------------------------
\* Telegram calls the webhook; a call it was not answered comes again.  A completed update is
\* answered at once, one in progress refused, a stale claim taken over.
ClaimTelegramWebhookUpdate(h, x) ==
    /\ Does("Webhook") /\ hooks[h] = Unheard
    /\ ~updates[x].done
    /\ updates[x].by = Nobody \/ updates[x].lease = 0
    /\ updates' = [updates EXCEPT ![x] = [by |-> h, done |-> FALSE, lease |-> ClaimLease]]
    /\ hooks' = [hooks EXCEPT ![h] = [stage |-> "claimed", update |-> x]]
    /\ UNCHANGED <<users, rows, jobs, switches, switched, codes, cooldowns, accScope>>

Holds(h) == LET u == updates[hooks[h].update] IN u.by = h /\ ~u.done

\* What a command does beside its answer: the chat it came from is bound to an account or unbound.
bindTelegramUserTx(u) == /\ users[u].email # Nobody /\ ~users[u].banned /\ ~users[u].chat
                         /\ users' = [users EXCEPT ![u].chat = TRUE]
unbindTelegramUserTx(u) == users[u].chat /\ users' = [users EXCEPT ![u].chat = FALSE]
processTelegramCommandTx ==
    \/ UNCHANGED users
    \/ "telegram" \in switches /\ \E u \in Users : bindTelegramUserTx(u) \/ unbindTelegramUserTx(u)

\* The message is answered and the update completed in one transaction under the claim; a command
\* may have no answer.  Without its claim the call fails, and releases nothing that is not its own.
ProcessTelegramMessageUpdate(h) ==
    /\ hooks[h].stage = "claimed"
    /\ LET x == hooks[h].update IN
        IF Holds(h)
        THEN /\ updates' = [updates EXCEPT ![x] = [by |-> Nobody, done |-> TRUE, lease |-> 0]]
             /\ processTelegramCommandTx
             /\ \/ users' = users /\ UNCHANGED rows
                \/ /\ "telegram" \in switches /\ Len(rows) < MaxRows
                   /\ rows' = Append(rows, Row("command", Nobody, x, Len(rows) + 1))
        ELSE UNCHANGED <<users, rows, updates>>
    /\ hooks' = [hooks EXCEPT ![h] = Unheard]
    /\ UNCHANGED <<jobs, switches, switched, codes, cooldowns, accScope>>

\* A request to join a chat is answered by a call to Telegram and completed after it, with no message.
CompleteTelegramWebhookUpdate(h) ==
    /\ hooks[h].stage = "claimed"
    /\ updates' = IF Holds(h) THEN [updates EXCEPT ![hooks[h].update] = [by |-> Nobody, done |-> TRUE, lease |-> 0]]
                  ELSE updates
    /\ hooks' = [hooks EXCEPT ![h] = Unheard]
    /\ UNCHANGED <<users, rows, jobs, switches, switched, codes, cooldowns, accScope>>

\* The handler fails and gives its claim back, or dies with it.
ReleaseTelegramWebhookUpdate(h) ==
    /\ hooks[h].stage = "claimed"
    /\ \E released \in BOOLEAN :
        updates' = IF released /\ Holds(h) THEN [updates EXCEPT ![hooks[h].update] = Unseen] ELSE updates
    /\ hooks' = [hooks EXCEPT ![h] = Unheard]
    /\ UNCHANGED <<users, rows, jobs, switches, switched, codes, cooldowns, accScope>>

telegramWebhook(h) ==
    \/ \E x \in Updates : ClaimTelegramWebhookUpdate(h, x)
    \/ ProcessTelegramMessageUpdate(h) \/ CompleteTelegramWebhookUpdate(h) \/ ReleaseTelegramWebhookUpdate(h)

-----------------------------------------------------------------------------
\* Expired codes go, with the mail that would have carried them.
PruneExpired(kinds) ==
    LET dead == {c \in codes : c.kind \in kinds /\ c.life = 0}
        with == {i \in DOMAIN rows : \E c \in dead :
                    /\ c.kind = rows[i].kind
                    /\ IF c.kind = "link" THEN c.code = rows[i].code ELSE c.key = rows[i].key}
    IN  /\ dead # {}
        /\ codes' = codes \ dead
        /\ rows' = Cancel(rows, with)
        /\ UNCHANGED <<users, jobs, switches, switched, cooldowns, updates, hooks, accScope>>

PruneExpiredPasswordResets == PruneExpired({"reset"})
PruneExpiredRegistrationEmailVerifications == PruneExpired({"registration"})
PruneExpiredLoginLinks == PruneExpired({"link", "quick"})
Prune == PruneExpiredPasswordResets \/ PruneExpiredRegistrationEmailVerifications \/ PruneExpiredLoginLinks

Less(n) == IF n = 0 THEN 0 ELSE n - 1

Tick ==
    /\ \/ \E i \in DOMAIN rows : rows[i].wait + rows[i].lease > 0
       \/ \E c \in codes : c.life + c.lock > 0
       \/ \E x \in Updates : updates[x].lease > 0
       \/ cooldowns # {} \/ \E u \in Users : users[u].fresh > 0
    /\ rows' = [i \in DOMAIN rows |-> [rows[i] EXCEPT !.wait = Less(@), !.lease = Less(@)]]
    /\ codes' = {[c EXCEPT !.life = Less(@), !.resend = Less(@), !.lock = Less(@),
                           !.fails = IF c.lock = 1 THEN 0 ELSE @] : c \in codes}
    /\ cooldowns' = {[c EXCEPT !.left = @ - 1] : c \in {d \in cooldowns : d.left > 1}}
    /\ updates' = [x \in Updates |-> [updates[x] EXCEPT !.lease = Less(@)]]
    /\ users' = [u \in Users |-> [users[u] EXCEPT !.fresh = Less(@)]]
    /\ UNCHANGED <<jobs, switches, switched, hooks, accScope>>

Mailer(w) ==
    \/ RunOnce(w)
    \/ deliverPasswordReset(w) \/ CompletePasswordResetMail(w) \/ FailPasswordResetMail(w)
    \/ deliverRegistrationEmailVerification(w) \/ CompleteRegistrationEmailVerificationMail(w)
    \/ FailRegistrationEmailVerificationMail(w)
    \/ deliverLoginLink(w) \/ CompleteLoginLinkMail(w) \/ FailLoginLinkMail(w)
    \/ deliverTicket(w) \/ CompleteTicketMail(w) \/ FailTicketMail(w)
    \/ deliverSubscriptionReminder(w) \/ CompleteSubscriptionReminder(w) \/ FailSubscriptionReminder(w)

Bot(w) ==
    \/ ClaimTelegramMessage(w) \/ deliverClaimed(w) \/ CompleteTelegramMessage(w) \/ FailTelegramMessage(w)

OutboxNext ==
    \/ \E w \in Mailers : Mailer(w)
    \/ \E w \in Bots : Bot(w)
    \/ \E w \in Workers : WorkerDies(w)
    \/ \E u \in Users : enqueueTicketMailTx(u) \/ ChangeRecipient(u)
    \/ ScheduleSubscriptionReminders
    \/ enqueueTelegramTicketNotificationTx \/ enqueueTelegramPaymentNotificationTx
    \/ UpdateMailSettings \/ UpdateTicketSettings \/ UpdateSiteSettings \/ UpdateTelegramSettings
    \/ \E h \in Hooks : telegramWebhook(h)
    \/ Prune
    \/ Tick

-----------------------------------------------------------------------------
\* The messages as those see them who queue them.
Occasion(r, i) ==
    CASE r.kind = "command" -> <<"command", r.key>>
      [] r.kind = "reminder" -> <<"reminder", r.user>>
      [] OTHER -> <<r.kind, i>>
Message(r, i) == [status |-> r.status, deliveries |-> r.deliveries, occasion |-> Occasion(r, i)]
Mail == [i \in DOMAIN rows |-> Message(rows[i], i)]

\* What the outboxes promise whoever queues a message; see OutboxPromise.
Promise == INSTANCE OutboxPromise WITH mail <- Mail

\* The outboxes keep that promise: a message that ended stays as it ended, one recorded as sent was
\* taken by the server, none is handed over more often than it was attempted, and no occasion (a
\* command Telegram repeats, a reminder of the day) is answered twice, through crashed workers,
\* lapsed leases and cancelled claims.
PromiseKept == Promise!Spec

\* Every pending message ends, unless its channel is off: no crash of a worker between claim and record
\* strands it, since claims lapse, the last attempt is recovered and expired codes are pruned.
EveryMessageEnds == []<>(\A i \in DOMAIN rows : Pending(rows[i]) => ~On(rows[i].kind))
=============================================================================
