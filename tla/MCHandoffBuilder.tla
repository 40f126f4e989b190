-------------------------- MODULE MCHandoffBuilder --------------------------
(* Short logs of every kind of event, against budgets around their size.   *)
EXTENDS HandoffBuilder

Plain(kind, size) == [kind |-> kind, hidden |-> FALSE, excluded |-> FALSE,
                      parser |-> "none", id |-> NoId, size |-> size]
Export(parser, hidden) == [Plain("assistant", 40) EXCEPT
                             !.parser = parser, !.id = "m1", !.hidden = hidden]

\* One event of each kind, records in both forms, and what must not be shown.
MCEvents ==
  {Plain(k, 60) : k \in Kinds \ {"user"}} \cup {Plain("user", 30)}
  \cup {Export("sanitized", FALSE), Export("full", FALSE), Export("full", TRUE)}
  \cup {[Plain("read", 60) EXCEPT !.excluded = TRUE]}

MCDiffs == {<<0, 0>>, <<90, 5>>}
=============================================================================
