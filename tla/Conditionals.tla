---------------------------- MODULE Conditionals ----------------------------
(***************************************************************************)
(* The conditions on rows that the data store hands to its tables           *)
(* (datastore/db-api.ts).                                                  *)
(***************************************************************************)
EXTENDS TernModel

Equals(key, value)  == [ type |-> "eq", key |-> key, value |-> value ]
Before(key, before) == [ type |-> "<date", key |-> key, before |-> before ]
OneOf(key, values)  == [ type |-> "in", key |-> key, values |-> values ]
IsNull(key)         == [ type |-> "is-null", key |-> key ]
NotNull(key)        == [ type |-> "notnull", key |-> key ]
Or(conditionals)    == [ type |-> "or", conditionals |-> conditionals ]
And(conditionals)   == [ type |-> "and", conditionals |-> conditionals ]

==============================================================================
