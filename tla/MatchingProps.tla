--------------------------- MODULE MatchingProps ---------------------------
(* That both kinds of tables read the conditions of the data store alike. *)
EXTENDS Listing, Matching

\* What Selects stands for.
SelectedInTable(cnd, row) ==
  IF StoreKind = "sql" THEN conditionalLink(row, cnd) ELSE conditionalMatchesRecord(row, cnd)

------------------------------------------------------------------------------
(* The conditions of the leases *)

SqlLeases    == INSTANCE DataStore WITH StoreKind <- "sql", LeaseTime <- 1, MaxAge <- 1
MemoryLeases == INSTANCE DataStore WITH StoreKind <- "memory", LeaseTime <- 1, MaxAge <- 1

Leaseable     == IsNull("updateState")
OwnedBy(id)   == And({ NotNull("updateState"), Equals("leaseOwner", id) })
Expired(date) == And({ NotNull("updateState"), Before("leaseExpires", date) })

Owners(row) == { row.leaseOwner } \ {None}

\* What a condition selects in each kind of table.
Means(row, cnd, inSql, inMemory) ==
  /\ conditionalLink(row, cnd) <=> inSql
  /\ conditionalMatchesRecord(row, cnd) <=> inMemory

SelectedAlike(row, cnd) == conditionalLink(row, cnd) <=> conditionalMatchesRecord(row, cnd)

JobLists == { ActiveScheduledJobs, DisabledScheduledJobs, Or({ Leaseable, DisabledScheduledJobs }) }
TaskLists == { ExecutingTasks, PendingTasks, CompletedTasks, FailedTasks, FinishedTasks }

\* The conditions that the leases rest on mean what DataStore says they do, row by row,
\* in a table of each kind; the two kinds differ there in the order of dates only.  The
\* lists of jobs and of tasks select the same rows in both.
ConditionsAgree ==
  \A i \in DOMAIN table :
    LET row == table[i]
    IN /\ "pasture" \in DOMAIN row =>
            /\ Means(row, Leaseable, SqlLeases!CanLease(row), MemoryLeases!CanLease(row))
            /\ \A id \in Owners(row) :
                 Means(row, OwnedBy(id), SqlLeases!OwnsLease(row, id), MemoryLeases!OwnsLease(row, id))
            /\ \A date \in {-1, 0, 1} :
                 Means(row, Expired(date), SqlLeases!CanSteal(row, date), MemoryLeases!CanSteal(row, date))
            /\ \A cnd \in JobLists : SelectedAlike(row, cnd)
       /\ "state" \in DOMAIN row => \A cnd \in TaskLists : SelectedAlike(row, cnd)

==============================================================================
