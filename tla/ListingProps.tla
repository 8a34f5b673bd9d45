---------------------------- MODULE ListingProps ----------------------------
(* What a reader of a changing table may rely on. *)
EXTENDS Listing

\* Primary keys are unique in the table, and what the client holds are pages of them.
ListingTypeOK ==
  /\ table \in Seq(Rows) /\ UniqueKey(table)
  /\ wanted \in Lists /\ limit \in Limits
  /\ pageKey \in Nat \cup {None}
  /\ pages \in Seq(Seq(Pks))
  /\ estimatedCount \in Nat \cup {None}
  /\ changes \in 0..MaxChanges
  /\ steady \subseteq Pks /\ grown \in BOOLEAN
  /\ left \in [ now : Nat, most : Nat ]

Listed == UNION { Range(pages[k]) : k \in DOMAIN pages }

\* A row that was in the list all the time is on one of its pages, as long as no two
\* rows leave the list from one page to the next: the row that each page reads beyond
\* its limit (db-impl.ts:93, 561-577) makes up for one row that leaves, and for no more.
\* It holds of the tables of memory.ts, which keep the order of creation, and not of SQL.
NoneSkipped == pageKey = None /\ left.most <= 1 => steady \subseteq Listed

\* A list that no row came into shows a row again only as the first of the page after
\* the one it was last on.  It holds in memory only, like NoneSkipped.
ShownAgainAtTheEdge ==
  ~grown =>
    \A k, m \in DOMAIN pages :
      k < m => \A i \in DOMAIN pages[k], j \in DOMAIN pages[m] :
                 pages[k][i] = pages[m][j] =>
                   m = k + 1 /\ i = limit + 1 /\ j = 1

\* A list has no more pages than one row for each primary key fills, while rows come and
\* go: the next page starts past as many rows as the table holds before it
\* (db-impl.ts:561-570), and no table, of either kind, holds a primary key twice.
PagesAreBounded == Len(pages) > 1 => (Len(pages) - 1) * limit < Cardinality(Pks)

==============================================================================
