------------------------- MODULE MCLegacyMigration -------------------------
(* A complete old panel `full`, the same without an SMTP host, another one `other`, and one *)
(* with broken rows.                                                                        *)
EXTENDS LegacyMigration, TLC

CONSTANTS full, mailless, other, broken

Good == [set |-> TRUE, on |-> TRUE, valid |-> TRUE, levels |-> 100, secure |-> TRUE, stray |-> FALSE,
         distinct |-> TRUE, token |-> TRUE, plan |-> 1, path |-> TRUE, captcha |-> TRUE,
         complete |-> TRUE, script |-> FALSE, agree |-> TRUE]
Absent == [Good EXCEPT !.set = FALSE, !.on = FALSE]

User(i, by, g, p, a) == [id |-> i, email |-> i, inviter |-> by, group |-> g, plan |-> p, admin |-> a,
                         banned |-> FALSE, subscriber |-> FALSE]
Order(i, u, st, ty, surplus) == [id |-> i, user |-> u, plan |-> 1, coupon |-> 1, payment |-> 1, status |-> st,
                                 type |-> ty, surplus |-> surplus, linked |-> Nothing]
Ticket(i, u, open, authors, last, ans) == [id |-> i, user |-> u, open |-> open, authors |-> authors,
                                           lastReply |-> last, answered |-> ans]

FullRows ==
    [notices |-> {[id |-> 1, valid |-> TRUE]},
     groups |-> {[id |-> 1]}, routes |-> {[id |-> 1]},
     articles |-> {[id |-> 1, uses |-> {1}]}, attachments |-> {[id |-> 1, article |-> 1, ready |-> TRUE]},
     plans |-> {[id |-> 1, group |-> 1]},
     users |-> {User(1, Nothing, 1, Nothing, TRUE), User(2, 1, 1, 1, FALSE), User(3, Nothing, Nothing, 1, FALSE)},
     tokens |-> {[id |-> 1, user |-> 2, secret |-> 1]}, codes |-> {[id |-> 1, user |-> 2, secret |-> 1]},
     tickets |-> {Ticket(1, 2, TRUE, <<2, 1>>, Nothing, TRUE), Ticket(2, 2, FALSE, <<2>>, 2, FALSE)},
     coupons |-> {[id |-> 1, code |-> 1, plans |-> {1}]},
     templates |-> {[id |-> 1, user |-> 1, plans |-> {1}]},
     cards |-> {[id |-> 1, code |-> 1, template |-> 1, used |-> 1, max |-> 1]},
     usages |-> {[id |-> 1, card |-> 1, template |-> 1, user |-> 2]},
     payments |-> {[id |-> 1, sort |-> 1]},
     orders |-> {Order(1, 2, "completed", "new", {}), Order(2, 2, "pending", "renewal", {1})},
     nodes |-> {[id |-> 1, parent |-> Nothing, machine |-> 1, groups |-> {1}, routes |-> {1}],
                [id |-> 2, parent |-> 1, machine |-> Nothing, groups |-> {1}, routes |-> {}]},
     subscribers |-> {[id |-> 3, distributor |-> 2, plan |-> 1, node |-> 1, order |-> 1, links |-> {1}]},
     commissions |-> {[id |-> 1, order |-> 1, user |-> 2, inviter |-> 1]},
     logs |-> {[id |-> 1]}]

OtherRows ==
    [FullRows EXCEPT !.users = {User(2, Nothing, Nothing, Nothing, TRUE)}, !.subscribers = {},
                     !.plans = {[id |-> 2, group |-> Nothing]},
                     !.tickets = {Ticket(1, 2, TRUE, <<2>>, 2, FALSE)},
                     !.tokens = {[id |-> 1, user |-> 2, secret |-> 2]}]

BrokenRows ==
    [FullRows EXCEPT !.tickets = {Ticket(1, 2, TRUE, <<2>>, 2, FALSE), Ticket(2, 2, TRUE, <<2>>, 2, FALSE)},
                     !.plans = {[id |-> 1, group |-> Nothing]},
                     !.users = {User(2, Nothing, Nothing, Nothing, TRUE)},
                     !.orders = {Order(1, 2, "pending", "new", {}), Order(2, 2, "processing", "renewal", {})}]

Panelled(rows, values, malformed) ==
    [rows |-> rows, settings |-> values, machines |-> {1}, completedUploads |-> {1},
     malformed |-> malformed]

MCSource ==
    (full :> Panelled(FullRows, [d \in Domain |-> Good], {})) @@
    (mailless :> Panelled(FullRows, [d \in Domain |-> IF d = "mail" THEN [Good EXCEPT !.on = FALSE] ELSE Good], {})) @@
    (other :> Panelled(OtherRows, [d \in Domain |-> IF d = "safe access" THEN Good ELSE Absent], {})) @@
    (broken :> Panelled(BrokenRows, [d \in Domain |-> IF d = "mail" THEN [Good EXCEPT !.secure = FALSE] ELSE Good], {"access-tokens"}))

MCPanelRows == {[table |-> "groups", row |-> [id |-> 2]],
                [table |-> "plans", row |-> [id |-> 2, group |-> Nothing]]}

MCPath == 1..34

Free(K, S, C, edits, faults, n) ==
    [slices |-> K, sources |-> S, paths |-> 1..(Cardinality(K) + 1), operators |-> C, ordered |-> FALSE,
     edits |-> edits, faults |-> faults, mishaps |-> n]

InOrder(s) ==
    [slices |-> Slice, sources |-> {s}, paths |-> Path, operators |-> {1}, ordered |-> TRUE,
     edits |-> {}, faults |-> {"crash"}, mishaps |-> 1]

MCScopes ==
    { InOrder(full), InOrder(mailless),
      Free({"content", "safe-access"}, {full, other}, {1, 2}, {}, {}, 0),
      Free({"content", "safe-access", "site-policy", "mail-settings"}, {full}, {1}, {"identity"}, {"restore"}, 1),
      Free({"theme", "configuration-compat", "coupons"}, {other}, {1}, {"theme", "coupons"}, {}, 1),
      Free({"plans", "registration-trial"}, {broken}, {1, 2}, {"plans"}, {"crash"}, 1),
      Free({"groups-routes", "plans", "human-users"}, {full}, {1}, {"groups", "plans"}, {"restore"}, 1),
      Free({"human-users", "access-tokens", "tickets"}, {other, broken}, {1}, {}, {"restore"}, 1),
      Free({"plans", "human-users", "coupons", "orders", "commissions"}, {broken}, {1}, {"plans"}, {}, 1) }
=============================================================================
