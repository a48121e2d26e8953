----------------------------- MODULE Dashboard -----------------------------
(***************************************************************************)
(* The data flow of App.tsx: the effect that fetches the logs on every change *)
(* of the request and polls while live, and what its answers, its errors and  *)
(* the user's clicks make of the table on the screen, while Processor stores  *)
(* more rows.                                                               *)
(*                                                                         *)
(* A run is one execution of the effect.  Between a change of the state and    *)
(* the effect that follows it, the run before may still be answered; the       *)
(* cleanup of the effect aborts it.                                          *)
(***************************************************************************)
EXTENDS QueryApi, SequencesExt

CONSTANTS
  Trace,       \* the filters that show a trace
  PageSize,    \* PAGE_SIZE
  TraceLimit,  \* TRACE_LIMIT
  MaxRuns,     \* bound: executions of the effect
  MaxFaults    \* bound: failed and short answers

ASSUME DashboardAssumption ==
  /\ Trace \subseteq Filter /\ Filter \ Trace # {}
  /\ PageSize \in Nat \ {0} /\ TraceLimit \in Nat \ {0}
  /\ MaxRuns \in Nat /\ MaxFaults \in Nat

VARIABLES
  table,   \* the rows in ClickHouse
  filter,  \* filters
  limit,   \* limit
  live,    \* live
  due,     \* a dependency of the effect has changed since it ran
  runs,    \* its runs, in order
  result,  \* result
  faults   \* faults so far

vars == <<table, filter, limit, live, due, runs, result, faults>>

Request == [filter |-> filter, limit |-> IF filter \in Trace THEN TraceLimit ELSE limit]

NoRequest == [filter |-> "none", limit |-> 0]

\* What the closure of a run captures, where it is, and the answer it waits for.
NewRun == [key |-> Request, live |-> live, phase |-> "asked", page |-> {},
           seen |-> {}, short |-> FALSE]

NoRun == [key |-> NoRequest, live |-> FALSE, phase |-> "off", page |-> {},
          seen |-> {}, short |-> FALSE]

Init ==
  /\ table = {}
  /\ filter \in Filter   \* from the URL
  /\ limit = PageSize /\ live = TRUE
  /\ due = TRUE /\ runs = <<>>
  /\ result = [key |-> NoRequest, rows |-> {}, fresh |-> {}, error |-> FALSE,
               seen |-> {}, short |-> FALSE, before |-> {}]
  /\ faults = 0

Inject == faults < MaxFaults /\ faults' = faults + 1

----------------------------------------------------------------------------
(* The effect.  For the properties, it is written down which rows ClickHouse   *)
(* had when it answered (seen), whether it answered in full (short), and      *)
(* which rows the user may know already (before): those there at the previous *)
(* answer to the same request, or, when there is none, all of them.           *)

MutantAbort(run) == run
Abort(run)       == NoRun

MutantEffect ==   \* what changes while live is off is not fetched
  /\ due
  /\ due' = FALSE
  /\ runs' = Append([i \in DOMAIN runs |-> Abort(runs[i])],
                    IF live THEN NewRun ELSE NoRun)
  /\ UNCHANGED <<table, filter, limit, live, result, faults>>

Effect ==
  /\ due
  /\ due' = FALSE
  /\ runs' = Append([i \in DOMAIN runs |-> Abort(runs[i])], NewRun)
  /\ UNCHANGED <<table, filter, limit, live, result, faults>>

Answer(i) ==
  /\ runs[i].phase = "asked"
  /\ LET f == runs[i].key.filter
         n == runs[i].key.limit
     IN \E short \in BOOLEAN :
          \E page \in IF short THEN ShortPages(table, f, n) ELSE Pages(table, f, n) :
            /\ IF short THEN Inject ELSE UNCHANGED faults
            /\ runs' = [runs EXCEPT ![i].phase = "answered", ![i].page = page,
                                    ![i].seen = table, ![i].short = short]
  /\ UNCHANGED <<table, filter, limit, live, due, result>>

AnswerError(i) ==
  /\ runs[i].phase = "asked"
  /\ Inject
  /\ runs' = [runs EXCEPT ![i].phase = "failed"]
  /\ UNCHANGED <<table, filter, limit, live, due, result>>

\* After the answer, the next poll.
Rest(i, polls) ==
  /\ runs' = [runs EXCEPT ![i] = [@ EXCEPT !.phase = IF polls THEN "timer" ELSE "off",
                                           !.page = {}, !.seen = {}, !.short = FALSE]]
  /\ UNCHANGED <<table, filter, limit, live, due, faults>>

ShowKnowing(i, known) ==
  LET run == runs[i]
  IN /\ run.phase = "answered"
     /\ result' = [key |-> run.key, rows |-> run.page, error |-> FALSE,
                   fresh |-> IF known = {} THEN {} ELSE run.page \ known,
                   seen |-> run.seen, short |-> run.short,
                   before |-> IF result.key # run.key THEN run.seen
                              ELSE IF result.short THEN {} ELSE result.seen]
     /\ Rest(i, run.live)

MutantShow(i) == ShowKnowing(i, result.rows)   \* of whatever request
Show(i)       == ShowKnowing(i, IF result.key = runs[i].key THEN result.rows ELSE {})

FailThen(i, same, polls) ==
  /\ runs[i].phase = "failed"
  /\ result' = [result EXCEPT !.key = runs[i].key, !.fresh = {}, !.error = TRUE,
                              !.rows = IF same THEN @ ELSE {},
                              !.seen = IF same THEN @ ELSE {},
                              !.short = same /\ @]
  /\ Rest(i, polls)

MutantFailKeeps(i) == FailThen(i, TRUE, runs[i].live)   \* the rows of whatever request
MutantFailEnds(i)  == FailThen(i, result.key = runs[i].key, FALSE)
Fail(i)            == FailThen(i, result.key = runs[i].key, runs[i].live)

Poll(i) ==
  /\ runs[i].phase = "timer"
  /\ runs' = [runs EXCEPT ![i].phase = "asked"]
  /\ UNCHANGED <<table, filter, limit, live, due, result, faults>>

----------------------------------------------------------------------------
(* The user, and Processor. *)

Touch == due' = TRUE /\ Len(runs) < MaxRuns /\ UNCHANGED <<table, runs, result, faults>>

\* updateFilters, and the browser's Back, which reads the filters from the URL.
ChangeFilter(f) ==
  /\ filter' = f /\ limit' = PageSize
  /\ Touch /\ UNCHANGED live

OpenTrace(t) ==
  /\ filter \notin Trace
  /\ filter' = t
  /\ Touch /\ UNCHANGED <<limit, live>>

Loading == result.key # Request

InTrace == filter \in Trace

\* While loading, the rows before are kept, unless it is another trace or the list.
Shown ==
  IF result.key.filter = filter \/ {result.key.filter, filter} \cap Trace = {}
  THEN result.rows ELSE {}

LoadMore ==
  /\ ~InTrace /\ ~Loading /\ Cardinality(Shown) >= limit
  /\ limit' = limit + PageSize
  /\ Touch /\ UNCHANGED <<filter, live>>

ToggleLive ==
  /\ live' = ~live
  /\ Touch /\ UNCHANGED <<filter, limit>>

Refresh == Touch /\ UNCHANGED <<filter, limit, live>>

Insert(r) ==
  /\ r \notin table
  /\ table' = table \cup {r}
  /\ UNCHANGED <<filter, limit, live, due, runs, result, faults>>

----------------------------------------------------------------------------
User == \/ \E f \in Filter : ChangeFilter(f)
        \/ \E t \in Trace : OpenTrace(t)
        \/ LoadMore \/ ToggleLive \/ Refresh

Run(i) == Answer(i) \/ AnswerError(i) \/ Show(i) \/ Fail(i) \/ Poll(i)

Next == User \/ Effect \/ (\E r \in Row : Insert(r)) \/ \E i \in DOMAIN runs : Run(i)

Spec == Init /\ [][Next]_vars

\* Effects run, requests are answered or fail, timers fire.
Fairness == WF_vars(Effect) /\ WF_vars(\E i \in DOMAIN runs : Run(i))

FairSpec == Spec /\ Fairness

----------------------------------------------------------------------------
(* Properties. *)

\* A trace's view never shows a row of anything else, not even while it loads; and
\* what is shown as loaded is an answer to the request on the screen.
AnswerFits ==
  /\ InTrace => Shown \subseteq Selected[filter]
  /\ ~Loading => /\ Shown = result.rows
                 /\ \/ Shown \in Pages(result.seen, filter, Request.limit)
                    \/ result.short
                       /\ Shown \in ShortPages(result.seen, filter, Request.limit)
                    \/ result.error /\ Shown = {}

\* "Rows that were not in the previous answer to the same request": what is
\* highlighted has come in since, unless rows of one time compete for the last place
\* of a page, or the previous answer was cut short.
FreshAreNew ==
  \A r \in result.fresh \cap result.before :
    \E s \in result.before \ {r} : TimeOf[s] = TimeOf[r]

\* No answer is replaced by one that ClickHouse gave earlier.
NeverGoesBack == [][~result'.error => result.seen \subseteq result'.seen]_vars

\* Every request is answered, or fails visibly, also while live is off.
LoadingEnds == Loading ~> ~Loading

\* While live, a stored row is taken into account before long, also after errors.
LiveShows == \A r \in Row : r \in table /\ live ~> r \in result.seen \/ ~live
=============================================================================
