--------------------------- MODULE OutboxPromise ----------------------------
(***************************************************************************)
(* What an outbox promises, whatever its tables and workers look like: a   *)
(* message is queued once per occasion, handed over a bounded number of    *)
(* times, and ends once, as sent only if it was handed over.               *)
(***************************************************************************)
EXTENDS Naturals, Sequences

CONSTANT MaxAttempts

VARIABLE mail   \* the messages so far, each with its status, deliveries and occasion

Queued(occasion) == [status |-> "pending", deliveries |-> 0, occasion |-> occasion]

Init == mail = <<>>

\* The server takes message i once more, at times after the message was given up.
Deliver(i) ==
    /\ mail[i].deliveries < MaxAttempts
    /\ mail' = [mail EXCEPT ![i].deliveries = @ + 1]

\* Some pending messages end, each once and for all.
End ==
    /\ DOMAIN mail' = DOMAIN mail
    /\ \A i \in DOMAIN mail : \E status \in {"pending", "sent", "failed", "cancelled"} :
        /\ status # mail[i].status => mail[i].status = "pending"
        /\ status = "sent" => mail[i].deliveries > 0
        /\ mail'[i] = [mail[i] EXCEPT !.status = status]

\* Messages are queued, each for an occasion of its own, and those they replace are cancelled.
Enqueue ==
    /\ Len(mail') > Len(mail)
    /\ \A j \in (Len(mail) + 1)..Len(mail') :
        /\ mail'[j] = Queued(mail'[j].occasion)
        /\ \A i \in 1..(j - 1) : mail'[i].occasion # mail'[j].occasion
    /\ \A i \in DOMAIN mail :
        \/ mail'[i] = mail[i]
        \/ mail[i].status = "pending" /\ mail'[i] = [mail[i] EXCEPT !.status = "cancelled"]

Next == Enqueue \/ End \/ \E i \in DOMAIN mail : Deliver(i)

Spec == Init /\ [][Next]_mail
=============================================================================
