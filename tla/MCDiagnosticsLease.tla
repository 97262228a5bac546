------------------------- MODULE MCDiagnosticsLease -------------------------
(* Instances of DiagnosticsLease for TLC.  A behaviour is about one customer *)
(* on several nodes, or about several customers on one node.                 *)
EXTENDS DiagnosticsLease, Sequences, TLC

VARIABLE scope

\* One entry, or two that disagree on whether the node applied the rules.
OneReport == {<<p>> : p \in Report}
Reports == OneReport \cup {r \in AckReports : Len(r) = 2 /\ r[1].eff /\ ~r[2].eff}

Scopes ==
  {[customers |-> {c}, keys |-> {k}, nodes |-> Nodes, reports |-> Reports] :
     c \in Customers, k \in Keys}
  \cup
  {[customers |-> Customers, keys |-> Keys, nodes |-> {n}, reports |-> OneReport] :
     n \in Nodes}

Within ==
  \/ Tick
  \/ Restart
  \/ \E a \in Admins, k \in scope.keys, c \in scope.customers : BeginStart(a, k, c)
  \/ \E a \in Admins : StartSession(a) /\ \A c \in Customers : sessions'[c].targets \subseteq scope.nodes
  \/ \E c \in scope.customers, sid \in 1 .. MaxSid : StopSession(c, sid)
  \/ \E n \in scope.nodes, r \in Requests : BuildNodeSnapshot(n, r)
  \/ \E n \in scope.nodes, r \in Requests, v \in 1 .. controlVersion,
        reports \in scope.reports : ProcessNodeAck(n, r, v, reports)

MCInit == Init /\ scope \in Scopes

MCSpec ==
  /\ MCInit
  /\ [][Within /\ UNCHANGED scope]_<<vars, scope>>

Symmetry == Permutations(Customers) \cup Permutations(Nodes) \cup Permutations(Keys)

=============================================================================
