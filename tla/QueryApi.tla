------------------------------ MODULE QueryApi ------------------------------
(***************************************************************************)
(* GET /v1/logs: what ClickHouseRepo.Query may answer for a filter and a      *)
(* limit.  An answer is a set of rows, since ORDER BY timestamp DESC fixes    *)
(* the rest, up to rows of the same time, which come in any order, and of     *)
(* which LIMIT keeps any.                                                   *)
(***************************************************************************)
EXTENDS Integers, FiniteSets, FiniteSetsExt

CONSTANTS
  Row,        \* what Processor may store
  TimeOf,     \* the time of each
  Filter,     \* the filters a dashboard may have
  Selected    \* the rows each selects: the conditions of WHERE

ASSUME QueryAssumption ==
  TimeOf \in [Row -> Int] /\ Selected \in [Filter -> SUBSET Row]

Newest(page, all) == \A r \in page, s \in all \ page : TimeOf[r] >= TimeOf[s]

\* ORDER BY timestamp DESC LIMIT n, of the rows the WHERE clause lets through.
Pages(table, filter, n) ==
  LET all == table \cap Selected[filter]
      size == IF Cardinality(all) < n THEN Cardinality(all) ELSE n
  IN {page \in kSubset(size, all) : Newest(page, all)}

\* rows.Next says that there are no more rows also when the connection to ClickHouse
\* breaks, and rows.Err is not looked at: any beginning of a page may be the answer.
ShortPages(table, filter, n) == UNION {Pages(table, filter, m) : m \in 0..(n - 1)}
=============================================================================
