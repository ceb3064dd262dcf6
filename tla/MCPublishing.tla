---------------------------- MODULE MCPublishing ----------------------------
(* Model values, symmetry and view for Publishing.                         *)
EXTENDS Publishing, TLC

Symmetry == Permutations(Requests) \cup Permutations(Contents)

\* Timestamps are only ever compared with each other, checked_at of one row with
\* created_at of a rollout: two states that agree on which rows are checked, on which
\* rollouts have a row checked after their creation, and on everything but the
\* timestamps, have the same futures.  A row that is no rollout never becomes one, and a
\* progression does not use what it read once it writes.
Overtaken(i) ==
    /\ rows[i].percentage # 0
    /\ \E n \in CheckedOn(rows, rows[i].platform) \ {i} : rows[n].checked > rows[i].created

View ==
    <<[i \in DOMAIN rows |->
          [rows[i] EXCEPT !.created = Overtaken(i), !.checked = rows[i].checked # 0]],
      now,
      [q \in Requests |-> IF req[q].op = "progress" THEN [req[q] EXCEPT !.seen = {}] ELSE req[q]]>>
=============================================================================
