------------------------------ MODULE Listing ------------------------------
(***************************************************************************)
(* Reading one table of the data store while others write to it: the paged  *)
(* lists that TernClient offers (getActiveScheduledJobs, getFinishedTasks   *)
(* and the like) and the polls, over the tables of datastore/memory.ts and  *)
(* datastore-sql.                                                          *)
(*                                                                         *)
(* A table in memory is the sequence of its rows in the order of creation,  *)
(* and keeps to it.  No query of the SQL table has an ORDER BY, so that the *)
(* order of its rows means nothing: each query gives them in an order of    *)
(* its own.                                                                *)
(***************************************************************************)
EXTENDS Conditionals, Integers, Sequences, FiniteSets, SequencesExt

CONSTANTS
  StoreKind,      \* "sql" or "memory"
  Selects(_, _),  \* whether a conditional selects a row, in a table of that kind
  Pks,            \* primary keys
  Limits,         \* rows per page that clients ask for
  Contents,       \* what the rows may hold besides their primary key
  Tables,         \* what the table holds at first
  Lists,          \* what clients list: a conditional for each list
  MaxChanges      \* bound: rows created, updated or removed

PksOf(rows) == { rows[i].pk : i \in DOMAIN rows }

\* The primary key is a column that creates reject duplicates of.
Rows == { [content EXCEPT !.pk = pk] : content \in Contents, pk \in Pks }
UniqueKey(rows) == \A i, j \in DOMAIN rows : rows[i].pk = rows[j].pk => i = j

TASK_STATE_FAIL_RESTARTED == "fail-restarted"

ASSUME ListingAssumption ==
  /\ StoreKind \in {"sql", "memory"}
  /\ None \notin Nat
  /\ None \notin TaskStateType \cup {TASK_STATE_FAIL_RESTARTED}
  /\ Limits \subseteq Nat \ {0}
  /\ \A content \in Contents :
       "pk" \in DOMAIN content /\ content = [content EXCEPT !.pk = None]
  /\ Tables \subseteq { rows \in Seq(Rows) : UniqueKey(rows) }
  /\ MaxChanges \in Nat

VARIABLES
  table,          \* the rows, in the order of creation
  wanted,         \* the conditional of the list
  limit,          \* rows per page
  pageKey,        \* where the next page starts; None when there are no more pages
  pages,          \* the pages received, each a sequence of primary keys
  estimatedCount, \* of the last page
  changes,        \* changes to the table so far
  steady,         \* history: rows that were in the list all the time
  grown,          \* history: a row came into the list since it was begun
  left            \* history: the most rows that left the list from one page to the next

readerVars == << wanted, limit, pageKey, pages, estimatedCount >>
vars == << table, wanted, limit, pageKey, pages, estimatedCount, changes, steady, grown, left >>

------------------------------------------------------------------------------
(* The lists of the data store *)

ActiveScheduledJobs   == Equals("pasture", FALSE)
DisabledScheduledJobs == Equals("pasture", TRUE)
ExecutingTasks        == Equals("state", TASK_STATE_STARTED)
PendingTasks          == Equals("state", TASK_STATE_PENDING)
CompletedTasks        == Equals("state", TASK_STATE_COMPLETED)
FailedTasks ==
  OneOf("state", { TASK_STATE_COMPLETE_ERROR, TASK_STATE_FAILED,
                   TASK_STATE_FAIL_RESTARTED, TASK_STATE_START_ERROR })
FinishedTasks == OneOf("state", FailedTasks.values \cup { TASK_STATE_COMPLETED })

\* Where the matching rows are.
Matches(rows, cnd) == { i \in DOMAIN rows : Selects(cnd, rows[i]) }
MatchingPks(rows, cnd) == { rows[i].pk : i \in Matches(rows, cnd) }

\* Where the matching row is that n others come before.
NthMatch(n) ==
  LET matches == Matches(table, wanted)
  IN CHOOSE i \in matches : Cardinality({ j \in matches : j < i }) = n

\* The rows of an answer of count rows: in memory those that match from startIndex on,
\* in SQL any that match.
Answers(startIndex, count) ==
  IF StoreKind = "memory" THEN { [n \in 1..count |-> table[NthMatch(startIndex + n - 1)]] }
  ELSE { [n \in 1..count |-> table[row[n]]] : row \in Injection(1..count, Matches(table, wanted)) }

MutFindInclusive(startIndex, maximumRecordCount) ==
  LET found == Cardinality(Matches(table, wanted)) - startIndex
  IN Answers(startIndex, IF found < maximumRecordCount + 1 THEN found ELSE maximumRecordCount + 1)
\* find: the rows that match, without the first startIndex, and of these the first
\* maximumRecordCount.
find(startIndex, maximumRecordCount) ==
  LET found == Cardinality(Matches(table, wanted)) - startIndex
  IN Answers(startIndex, IF found < maximumRecordCount THEN found ELSE maximumRecordCount)

Init ==
  /\ table \in Tables
  /\ wanted \in { cnd \in Lists : \A i \in DOMAIN table : cnd.key \in DOMAIN table[i] }
  /\ limit \in Limits
  /\ pageKey = 0
  /\ pages = << >>
  /\ estimatedCount = None
  /\ changes = 0
  /\ steady = MatchingPks(table, wanted)
  /\ grown = FALSE
  /\ left = [ now |-> 0, most |-> 0 ]

MutKeyAfterRows(rows) ==
  /\ pageKey' = IF Len(rows) > limit THEN pageKey + Len(rows) ELSE None
  /\ estimatedCount' = pageKey + Len(rows)
MutNextAfterAnyRow(rows) ==
  /\ pageKey' = IF rows # << >> THEN pageKey + limit ELSE None
  /\ estimatedCount' = pageKey + Len(rows)
\* One row more than asked for is read, to see whether there is another page, and is
\* left in the page (rows.slice(1) changes nothing).
pageResults(rows) ==
  /\ pageKey' = IF Len(rows) > limit THEN pageKey + limit ELSE None
  /\ estimatedCount' = pageKey + Len(rows)

\* The client asks for the page of the key that it was given.
NextPage ==
  /\ pageKey # None
  /\ \E rows \in find(pageKey, limit + 1) :
       /\ pageResults(rows)
       /\ pages' = Append(pages, [i \in DOMAIN rows |-> rows[i].pk])
  /\ left' = [left EXCEPT !.now = 0]
  /\ UNCHANGED << table, wanted, limit, changes, steady, grown >>

------------------------------------------------------------------------------
(* What others do to the table meanwhile *)

\* The history of a change.
Observe ==
  LET before == MatchingPks(table, wanted)
      after  == MatchingPks(table', wanted)
      gone   == left.now + Cardinality(before \ after)
  IN /\ changes < MaxChanges
     /\ changes' = changes + 1
     /\ steady' = steady \cap after
     /\ grown' = (grown \/ after \ before # {})
     /\ left' = [ now |-> gone, most |-> IF gone > left.most THEN gone ELSE left.most ]
     /\ UNCHANGED readerVars

MutAddDuplicate(row) == table' = Append(table, row)
\* create: a primary key that is in the table is rejected.
Add(row) == row.pk \notin PksOf(table) /\ table' = Append(table, row)

create ==
  /\ pageKey # None
  /\ \E pk \in Pks, content \in Contents :
       wanted.key \in DOMAIN content /\ Add([content EXCEPT !.pk = pk])
  /\ Observe

\* The row keeps its place in memory; in SQL it has none.
conditionalUpdate ==
  /\ pageKey # None
  /\ \E i \in DOMAIN table, content \in Contents :
       /\ wanted.key \in DOMAIN content
       /\ content # [table[i] EXCEPT !.pk = None]
       /\ table' = [table EXCEPT ![i] = [content EXCEPT !.pk = table[i].pk]]
  /\ Observe

\* deleteScheduledJob and deleteFinishedTask, on what each may remove.
Removable(row) ==
  Selects(IF "pasture" \in DOMAIN row THEN DisabledScheduledJobs ELSE FinishedTasks, row)
remove ==
  /\ pageKey # None
  /\ \E i \in DOMAIN table : Removable(table[i]) /\ table' = RemoveAt(table, i)
  /\ Observe

Next == NextPage \/ create \/ conditionalUpdate \/ remove

Spec == Init /\ [][Next]_vars

==============================================================================
