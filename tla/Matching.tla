------------------------------ MODULE Matching ------------------------------
(***************************************************************************)
(* What each kind of table makes of a condition: the memory table           *)
(* (datastore/memory.ts) and the SQL table (datastore-sql).                 *)
(*                                                                         *)
(* The code calls itself for the parts of an and or an or.  The data store  *)
(* makes comparisons and ands of comparisons, to which the SQL table adds   *)
(* the primary key (toWhereClause), so two levels hold every condition.     *)
(***************************************************************************)
EXTENDS Integers, Conditionals

\* Whether record satisfies cnd, an and or an or of parts that Holds decides, or one
\* of those itself.
Satisfies(record, cnd, Holds(_, _)) ==
  CASE cnd.type = "and" -> \A c \in cnd.conditionals : Holds(record, c)
    [] cnd.type = "or"  -> \E c \in cnd.conditionals : Holds(record, c)
    [] OTHER            -> Holds(record, cnd)

\* The memory table: JavaScript's === and <, on rows where null is a value.
comparisonMatches(record, cnd) ==
  CASE cnd.type = "eq"      -> record[cnd.key] = cnd.value
    [] cnd.type = "<date"   -> record[cnd.key] # None /\ cnd.before < record[cnd.key]
    [] cnd.type = "notnull" -> record[cnd.key] # None
    [] cnd.type = "is-null" -> record[cnd.key] = None
    [] cnd.type = "in"      -> record[cnd.key] \in cnd.values

MutNullIsNoValue(record, cnd) ==
  CASE cnd.type = "eq"      -> record[cnd.key] # None /\ record[cnd.key] = cnd.value
    [] cnd.type = "<date"   -> record[cnd.key] # None /\ record[cnd.key] < cnd.before
    [] cnd.type = "in"      -> record[cnd.key] \in cnd.values
    [] cnd.type = "notnull" -> record[cnd.key] # None
    [] cnd.type = "is-null" -> FALSE
\* The where clause of the SQL table.  A comparison with a null column is unknown, which
\* selects no row; an equality with null is written IS NULL.
comparisonLink(record, cnd) ==
  CASE cnd.type = "eq"      -> record[cnd.key] = cnd.value
    [] cnd.type = "<date"   -> record[cnd.key] # None /\ record[cnd.key] < cnd.before
    [] cnd.type = "in"      -> record[cnd.key] # None /\ record[cnd.key] \in cnd.values
    [] cnd.type = "notnull" -> record[cnd.key] # None
    [] cnd.type = "is-null" -> record[cnd.key] = None

partMatches(record, cnd) == Satisfies(record, cnd, comparisonMatches)
partLink(record, cnd)    == Satisfies(record, cnd, comparisonLink)

conditionalMatchesRecord(record, cnd) == Satisfies(record, cnd, partMatches)
conditionalLink(record, cnd)          == Satisfies(record, cnd, partLink)

==============================================================================
