-------------------------- MODULE MCLogMaintenance --------------------------
(* Small instances of LogMaintenance for TLC.                              *)
EXTENDS LogMaintenance

CONSTANTS c1, c2

NoPolicy == [maxAge |-> None, maxBytes |-> None, high |-> None, low |-> None]

Ask(op, all, db, dry, vac, p) ==
  [op |-> op, all |-> all, db |-> db, dryRun |-> dry, vacuum |-> vac, policy |-> p]

\* Prunes of one collection, by age, by size, by both, by watermark; a
\* mutating prune without a policy is refused.
MCPolicies == {NoPolicy,
               [NoPolicy EXCEPT !.maxAge = 1],
               [NoPolicy EXCEPT !.maxBytes = 1],
               [NoPolicy EXCEPT !.high = 2, !.low = 1],
               [NoPolicy EXCEPT !.maxAge = 1, !.maxBytes = 0]}

PruneRequests == {Ask("prune", FALSE, None, FALSE, FALSE, p) : p \in MCPolicies}

\* Compactions and prunes of one or of all collections, with and without a
\* database, dry run and vacuum.
AnyBytes == [NoPolicy EXCEPT !.maxBytes = 0]

ScopeRequests ==
  {Ask("compact", all, None, FALSE, FALSE, NoPolicy) : all \in BOOLEAN}
  \cup {Ask("prune", all, None, dry, ~dry, AnyBytes) : all \in BOOLEAN, dry \in BOOLEAN}
  \cup {Ask("prune", TRUE, "other", FALSE, FALSE, AnyBytes)}

AllRequests == PruneRequests \cup ScopeRequests

\* Older than any age that is asked for.
MCEpoch == -5

\* Two questions in one run, each on an instance of its own: policies and the
\* clock with the rows of one collection, scopes and partial failures with
\* rows of one size that are all as old.  Rows differ in size, or the clock has
\* been set back or a row does not tell its age.
OfSize1 == \A c \in Collections : \A r \in written[c] : r.bytes = 1
NeverSetBack == behind = 0 /\ \A c \in Collections : \A r \in written[c] : r.created = r.made

OneCollection ==
  /\ written[c2] = {} /\ request \in PruneRequests \cup {None}
  /\ OfSize1 \/ NeverSetBack

SameRows ==
  /\ now = 0 /\ request \in ScopeRequests \cup {None}
  /\ OfSize1 /\ NeverSetBack

Focus == OneCollection \/ SameRows
=============================================================================
