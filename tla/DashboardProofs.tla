-------------------------- MODULE DashboardProofs --------------------------
(* Machine-checked proofs about Dashboard, for every value of its constants:   *)
(* any number of rows, filters, runs of the effect, failed and short answers.  *)
EXTENDS Dashboard, FiniteSetTheorems, SequenceTheorems, TLAPS

----------------------------------------------------------------------------
(* Answers. *)

\* What may be the answer to a request from the rows ClickHouse had.
Fits(page, seen, short, key) ==
  \/ page \in Pages(seen, key.filter, key.limit)
  \/ short /\ page \in ShortPages(seen, key.filter, key.limit)

\* A page is a set of selected rows of the table, not more than its limit, of
\* which the rows left out are no newer; and it leaves rows out only when full.
LEMMA PageIs ==
  ASSUME NEW seen \in SUBSET Row, IsFiniteSet(seen), NEW f \in Filter, NEW n \in Nat,
         NEW page \in Pages(seen, f, n)
  PROVE  /\ page \subseteq seen \cap Selected[f]
         /\ IsFiniteSet(page) /\ Cardinality(page) \in Nat /\ Cardinality(page) <= n
         /\ \A r \in page, s \in (seen \cap Selected[f]) \ page : TimeOf[r] >= TimeOf[s]
         /\ page # seen \cap Selected[f] => Cardinality(page) = n
<1> DEFINE all == seen \cap Selected[f]
           size == IF Cardinality(all) < n THEN Cardinality(all) ELSE n
<1>1. IsFiniteSet(all) /\ Cardinality(all) \in Nat
  BY FS_Subset, FS_CardinalityType
<1>2. page \in SUBSET all /\ Cardinality(page) = size /\ Newest(page, all)
  BY DEF Pages, kSubset
<1> HIDE DEF all
<1>3. IsFiniteSet(page) /\ (page # all => Cardinality(page) # Cardinality(all))
  BY <1>1, <1>2, FS_Subset
<1>4. Cardinality(page) \in Nat /\ Cardinality(page) <= n
  BY <1>1, <1>2
<1>5. page # all => Cardinality(page) = n
  BY <1>1, <1>2, <1>3
<1>6. \A r \in page, s \in all \ page : TimeOf[r] >= TimeOf[s]
  BY <1>2 DEF Newest
<1> QED  BY <1>2, <1>3, <1>4, <1>5, <1>6 DEF all

\* An answer in full or in part is a page of some size up to the limit.
LEMMA FitsIs ==
  ASSUME NEW seen, NEW short \in BOOLEAN, NEW key, key.limit \in Nat,
         NEW page, Fits(page, seen, short, key)
  PROVE  /\ \E n \in 0..key.limit : page \in Pages(seen, key.filter, n)
         /\ ~short => page \in Pages(seen, key.filter, key.limit)
<1>1. CASE page \in Pages(seen, key.filter, key.limit)
  BY <1>1
<1>2. CASE short /\ page \in ShortPages(seen, key.filter, key.limit)
  <2>1. \E n \in 0..(key.limit - 1) : page \in Pages(seen, key.filter, n)
    BY <1>2 DEF ShortPages
  <2> QED  BY <1>2, <2>1
<1> QED  BY <1>1, <1>2 DEF Fits

\* A row that a later answer to the same request has, and that ClickHouse had at
\* the earlier answer, which was not cut short and does not have it, has lost its
\* place there to a row of the same time.
LEMMA LostToATie ==
  ASSUME NEW seen \in SUBSET Row, NEW later \in SUBSET Row,
         IsFiniteSet(seen), IsFiniteSet(later), seen \subseteq later,
         NEW f \in Filter, NEW n \in Nat, NEW m \in 0..n,
         NEW old \in Pages(seen, f, n), NEW new \in Pages(later, f, m),
         NEW r \in (new \ old) \cap seen
  PROVE  \E s \in seen \ {r} : TimeOf[s] = TimeOf[r]
<1>1. /\ old \subseteq seen \cap Selected[f] /\ IsFiniteSet(old)
      /\ \A x \in old, y \in (seen \cap Selected[f]) \ old : TimeOf[x] >= TimeOf[y]
      /\ old # seen \cap Selected[f] => Cardinality(old) = n
  BY PageIs
<1>2. m \in Nat /\ m <= n
  OBVIOUS
<1>3. /\ new \subseteq later \cap Selected[f] /\ IsFiniteSet(new)
      /\ Cardinality(new) \in Nat /\ Cardinality(new) <= m
      /\ \A x \in new, y \in (later \cap Selected[f]) \ new : TimeOf[x] >= TimeOf[y]
  BY <1>2, PageIs
<1>4. r \in (seen \cap Selected[f]) \ old /\ Cardinality(old) = n
  BY <1>1, <1>3
<1>5. PICK s \in old : s \notin new
  <2> SUFFICES ASSUME old \subseteq new
               PROVE  FALSE
    OBVIOUS
  <2>1. Cardinality(old) <= Cardinality(new) /\ Cardinality(new) # Cardinality(old)
    BY <1>3, FS_Subset
  <2> QED  BY <1>2, <1>3, <1>4, <2>1
<1>6. TimeOf[s] >= TimeOf[r] /\ TimeOf[r] >= TimeOf[s]
  BY <1>1, <1>3, <1>4, <1>5
<1>7. TimeOf[s] \in Int /\ TimeOf[r] \in Int
  BY <1>1, <1>4, <1>5, QueryAssumption
<1>8. s \in seen \ {r} /\ TimeOf[s] = TimeOf[r]
  BY <1>1, <1>4, <1>5, <1>6, <1>7
<1> QED  BY <1>8

----------------------------------------------------------------------------
(* The invariant. *)

RequestKey == [filter : Filter, limit : Nat \ {0}]
AnyKey     == RequestKey \cup {NoRequest}
RunType    == [key : AnyKey, live : BOOLEAN,
               phase : {"asked", "answered", "failed", "timer", "off"},
               page : SUBSET Row, seen : SUBSET Row, short : BOOLEAN]
ResultType == [key : AnyKey, rows : SUBSET Row, fresh : SUBSET Row, error : BOOLEAN,
               seen : SUBSET Row, short : BOOLEAN, before : SUBSET Row]

Typed ==
  /\ table \in SUBSET Row /\ IsFiniteSet(table)
  /\ filter \in Filter /\ limit \in Nat \ {0} /\ live \in BOOLEAN
  /\ runs \in Seq(RunType)
  /\ result \in ResultType

\* Only the last run of the effect is not over: its cleanup aborts the one before.
LastRuns ==
  \A i \in DOMAIN runs : runs[i].phase # "off" => i = Len(runs) /\ runs[i].key \in RequestKey

\* An answer fits its request, and no answer shown is later than one that is not.
AnswersLater ==
  \A i \in DOMAIN runs : runs[i].phase = "answered" =>
    /\ Fits(runs[i].page, runs[i].seen, runs[i].short, runs[i].key)
    /\ result.seen \subseteq runs[i].seen /\ runs[i].seen \subseteq table

\* What is on the screen is an answer, or nothing.
ResultFits ==
  /\ \/ result.key \in RequestKey /\ Fits(result.rows, result.seen, result.short, result.key)
     \/ result.rows = {} /\ (result.error \/ result.key = NoRequest)
  /\ result.seen \subseteq table

DashboardInv == Typed /\ LastRuns /\ AnswersLater /\ ResultFits

\* The constants' types, and what the request on the screen is.
LEMMA Constants ==
  /\ Trace \subseteq Filter /\ PageSize \in Nat \ {0} /\ TraceLimit \in Nat \ {0}
  /\ NoRequest \notin RequestKey
  /\ NoRun \in RunType
  BY DashboardAssumption DEF RequestKey, NoRequest, NoRun, RunType, AnyKey

\* The request on the screen, and a run of the effect for it.
LEMMA RequestType ==
  ASSUME Typed
  PROVE  Request \in RequestKey /\ NewRun \in RunType
<1>1. Request \in RequestKey
  BY Constants DEF Typed, Request, RequestKey
<1> QED  BY <1>1 DEF NewRun, RunType, AnyKey, Typed

\* At first no run has begun and nothing is on the screen.
LEMMA InvInit ==
  ASSUME Init
  PROVE  DashboardInv
<1>1. Typed
  <2>1. runs \in Seq(RunType) /\ limit \in Nat \ {0}
    BY Constants DEF Init
  <2>2. result \in ResultType
    BY DEF Init, ResultType, AnyKey
  <2>3. table \in SUBSET Row /\ IsFiniteSet(table)
    BY FS_EmptySet DEF Init
  <2> QED  BY <2>1, <2>2, <2>3 DEF Init, Typed
<1>2. runs = <<>> /\ DOMAIN <<>> = {} /\ result.rows = {} /\ result.key = NoRequest
      /\ result.seen = {}
  BY DEF Init
<1> QED  BY <1>1, <1>2 DEF DashboardInv, LastRuns, AnswersLater, ResultFits

\* A change that the user makes touches the request only.
LEMMA InvUser ==
  ASSUME DashboardInv, User
  PROVE  DashboardInv'
<1>1. table' = table /\ runs' = runs /\ result' = result
  BY DEF User, ChangeFilter, OpenTrace, LoadMore, ToggleLive, Refresh, Touch
<1>2. /\ filter \in Filter /\ limit \in Nat \ {0} /\ live \in BOOLEAN
      /\ PageSize \in Nat \ {0} /\ Trace \subseteq Filter
  BY Constants DEF DashboardInv, Typed
<1>3. filter' \in Filter /\ limit' \in Nat \ {0}
  BY <1>2 DEF User, ChangeFilter, OpenTrace, LoadMore, ToggleLive, Refresh, Touch
<1>4. live' \in BOOLEAN
  <2>1. live' = live \/ live' = ~live
    BY DEF User, ChangeFilter, OpenTrace, LoadMore, ToggleLive, Refresh, Touch
  <2> QED  BY <1>2, <2>1
<1>5. Typed'
  BY <1>1, <1>3, <1>4 DEF DashboardInv, Typed
<1> QED  BY <1>1, <1>5 DEF DashboardInv, LastRuns, AnswersLater, ResultFits

\* A stored row makes no answer later.
LEMMA InvInsert ==
  ASSUME DashboardInv, NEW r \in Row, Insert(r)
  PROVE  DashboardInv'
<1>1. /\ runs' = runs /\ result' = result /\ filter' = filter /\ limit' = limit /\ live' = live
      /\ table' = table \cup {r}
  BY DEF Insert
<1>2. table' \in SUBSET Row /\ IsFiniteSet(table')
  BY <1>1, FS_AddElement DEF DashboardInv, Typed
<1>3. Typed'
  BY <1>1, <1>2 DEF DashboardInv, Typed
<1> QED  BY <1>1, <1>3 DEF DashboardInv, LastRuns, AnswersLater, ResultFits

\* The effect aborts the run before and starts one for the request on the screen.
LEMMA InvEffect ==
  ASSUME DashboardInv, Effect
  PROVE  DashboardInv'
<1> DEFINE old == [i \in DOMAIN runs |-> Abort(runs[i])]
<1>1. /\ table' = table /\ result' = result /\ filter' = filter /\ limit' = limit
      /\ live' = live /\ runs' = Append(old, NewRun)
  BY DEF Effect
<1>2. runs \in Seq(RunType) /\ Len(runs) \in Nat /\ DOMAIN runs = 1..Len(runs)
  BY LenProperties DEF DashboardInv, Typed
<1>3. old \in Seq(RunType) /\ Len(old) = Len(runs) /\ \A i \in 1..Len(runs) : old[i] = NoRun
  <2>1. old \in [1..Len(runs) -> RunType] /\ \A i \in 1..Len(runs) : old[i] = NoRun
    BY <1>2, Constants DEF Abort
  <2> HIDE DEF old
  <2>2. old \in Seq(RunType)
    BY <1>2, <2>1
  <2> QED  BY <1>2, <2>1, <2>2, LenProperties
<1> HIDE DEF old
<1>4. NewRun \in RunType /\ Request \in RequestKey
  BY RequestType DEF DashboardInv
<1>5. /\ runs' \in Seq(RunType) /\ Len(runs') = Len(runs) + 1
      /\ \A i \in 1..Len(runs) : runs'[i] = NoRun
      /\ runs'[Len(runs) + 1] = NewRun
  BY <1>1, <1>3, <1>4, AppendProperties
<1>6. DOMAIN runs' = 1..(Len(runs) + 1)
  BY <1>5, LenProperties
<1>7. \A i \in DOMAIN runs' : runs'[i] = NoRun \/ (i = Len(runs') /\ runs'[i] = NewRun)
  BY <1>2, <1>5, <1>6
<1>8. /\ NoRun.phase = "off" /\ NewRun.phase = "asked" /\ NewRun.key = Request
  BY DEF NoRun, NewRun
<1>9. Typed'
  BY <1>1, <1>5 DEF DashboardInv, Typed
<1>10. LastRuns' /\ AnswersLater'
  BY <1>4, <1>7, <1>8 DEF LastRuns, AnswersLater
<1> QED  BY <1>1, <1>9, <1>10 DEF DashboardInv, ResultFits

\* A run that changes leaves the others alone.
LEMMA RunChanges ==
  ASSUME DashboardInv, NEW i \in DOMAIN runs, NEW run \in RunType,
         runs' = [runs EXCEPT ![i] = run]
  PROVE  /\ runs' \in Seq(RunType) /\ DOMAIN runs' = DOMAIN runs /\ Len(runs') = Len(runs)
         /\ runs'[i] = run /\ \A j \in DOMAIN runs : j # i => runs'[j] = runs[j]
<1>1. runs \in Seq(RunType)
  BY DEF DashboardInv, Typed
<1> QED  BY <1>1, LenProperties, ExceptSeq

\* ClickHouse answers the one run that asks: the answer is later than what is shown.
LEMMA InvAnswer ==
  ASSUME DashboardInv, NEW i \in DOMAIN runs, Answer(i) \/ AnswerError(i)
  PROVE  DashboardInv'
<1>0. /\ UNCHANGED <<table, filter, limit, live, result>> /\ runs[i].phase = "asked"
      /\ runs[i] \in RunType /\ runs[i].key \in RequestKey
  <2>1. runs[i] \in RunType
    BY ElementOfSeq, LenProperties DEF DashboardInv, Typed
  <2> QED  BY <2>1 DEF Answer, AnswerError, DashboardInv, LastRuns
<1>1. \E run \in RunType :
        /\ runs' = [runs EXCEPT ![i] = run]
        /\ run.key = runs[i].key
        /\ run.phase = "answered" =>
             /\ Fits(run.page, run.seen, run.short, run.key)
             /\ run.seen = table
  <2>1. CASE Answer(i)
    <3> DEFINE f == runs[i].key.filter
               n == runs[i].key.limit
    <3>0. PICK short \in BOOLEAN :
            \E page \in IF short THEN ShortPages(table, f, n) ELSE Pages(table, f, n) :
              /\ IF short THEN Inject ELSE UNCHANGED faults
              /\ runs' = [runs EXCEPT ![i].phase = "answered", ![i].page = page,
                                      ![i].seen = table, ![i].short = short]
      BY <2>1, Zenon DEF Answer
    <3>1. PICK page \in IF short THEN ShortPages(table, f, n) ELSE Pages(table, f, n) :
            runs' = [runs EXCEPT ![i].phase = "answered", ![i].page = page,
                                 ![i].seen = table, ![i].short = short]
      BY <3>0
    <3> DEFINE run == [runs[i] EXCEPT !.phase = "answered", !.page = page,
                                      !.seen = table, !.short = short]
    <3>2. Fits(page, table, short, runs[i].key)
      BY DEF Fits
    <3>3. page \subseteq Row /\ table \subseteq Row
      <4>1. PICK m : page \in Pages(table, f, m)
        BY DEF ShortPages
      <4>2. page \subseteq table
        BY <4>1 DEF Pages, kSubset
      <4> QED  BY <4>2 DEF DashboardInv, Typed
    <3>4. run \in RunType /\ run.key = runs[i].key
          /\ run.page = page /\ run.seen = table /\ run.short = short
      BY <1>0, <3>3 DEF RunType
    <3>5. runs' = [runs EXCEPT ![i] = run]
      BY <3>1
    <3> QED  BY <3>2, <3>4, <3>5
  <2>2. CASE AnswerError(i)
    <3> DEFINE run == [runs[i] EXCEPT !.phase = "failed"]
    <3>1. run \in RunType /\ run.key = runs[i].key /\ run.phase = "failed"
      BY <1>0 DEF RunType
    <3>2. runs' = [runs EXCEPT ![i] = run]
      BY <2>2 DEF AnswerError
    <3> QED  BY <3>1, <3>2
  <2> QED  BY <2>1, <2>2
<1>2. PICK run \in RunType :
        /\ runs' = [runs EXCEPT ![i] = run]
        /\ run.key = runs[i].key
        /\ run.phase = "answered" =>
             /\ Fits(run.page, run.seen, run.short, run.key)
             /\ run.seen = table
  BY <1>1
<1>3. /\ runs' \in Seq(RunType) /\ DOMAIN runs' = DOMAIN runs /\ Len(runs') = Len(runs)
      /\ runs'[i] = run /\ \A j \in DOMAIN runs : j # i => runs'[j] = runs[j]
  BY <1>2, RunChanges
<1>4. Typed'
  BY <1>0, <1>3 DEF DashboardInv, Typed
<1>5. LastRuns'
  BY <1>0, <1>2, <1>3 DEF DashboardInv, LastRuns
<1>6. AnswersLater' /\ ResultFits'
  BY <1>0, <1>2, <1>3 DEF DashboardInv, AnswersLater, ResultFits
<1> QED  BY <1>4, <1>5, <1>6 DEF DashboardInv

\* After its answer a run waits for the next poll, or is over.
LEMMA RestIs ==
  ASSUME DashboardInv, NEW i \in DOMAIN runs, NEW polls \in BOOLEAN, Rest(i, polls),
         runs[i].phase # "off"
  PROVE  /\ runs' \in Seq(RunType) /\ LastRuns'
         /\ \A j \in DOMAIN runs' : runs'[j].phase # "answered"
         /\ UNCHANGED <<table, filter, limit, live>>
<1> DEFINE run == [runs[i] EXCEPT !.phase = IF polls THEN "timer" ELSE "off",
                                  !.page = {}, !.seen = {}, !.short = FALSE]
<1>1. runs[i] \in RunType /\ i = Len(runs) /\ runs[i].key \in RequestKey
  BY ElementOfSeq, LenProperties DEF DashboardInv, Typed, LastRuns
<1>2. run \in RunType /\ run.key = runs[i].key /\ run.phase \in {"timer", "off"}
  BY <1>1 DEF RunType
<1>3. runs' = [runs EXCEPT ![i] = run] /\ UNCHANGED <<table, filter, limit, live>>
  BY DEF Rest
<1> HIDE DEF run
<1>4. /\ runs' \in Seq(RunType) /\ DOMAIN runs' = DOMAIN runs /\ Len(runs') = Len(runs)
      /\ runs'[i] = run /\ \A j \in DOMAIN runs : j # i => runs'[j] = runs[j]
  BY <1>2, <1>3, RunChanges
<1>5. \A j \in DOMAIN runs : j # i => runs[j].phase = "off"
  BY <1>1 DEF DashboardInv, LastRuns
<1>6. LastRuns' /\ \A j \in DOMAIN runs' : runs'[j].phase # "answered"
  BY <1>1, <1>2, <1>4, <1>5 DEF LastRuns
<1> QED  BY <1>3, <1>4, <1>6

\* What Show puts on the screen.
LEMMA ShowIs ==
  ASSUME DashboardInv, NEW i \in DOMAIN runs, Show(i)
  PROVE  /\ runs[i] \in RunType /\ runs[i].phase = "answered" /\ runs[i].key \in RequestKey
         /\ Fits(runs[i].page, runs[i].seen, runs[i].short, runs[i].key)
         /\ result.seen \subseteq runs[i].seen /\ runs[i].seen \subseteq table
         /\ result' \in ResultType
         /\ result'.key = runs[i].key /\ result'.rows = runs[i].page
         /\ result'.seen = runs[i].seen /\ result'.short = runs[i].short
         /\ result'.fresh # {} =>
              /\ result.key = runs[i].key /\ result.rows # {}
              /\ result'.fresh = runs[i].page \ result.rows
         /\ result.key = runs[i].key =>
              result'.before = IF result.short THEN {} ELSE result.seen
         /\ Rest(i, runs[i].live)
<1> DEFINE run   == runs[i]
           known == IF result.key = runs[i].key THEN result.rows ELSE {}
<1>1. run \in RunType /\ result \in ResultType
  BY ElementOfSeq, LenProperties DEF DashboardInv, Typed
<1>2. /\ run.phase = "answered"
      /\ result' = [key |-> run.key, rows |-> run.page, error |-> FALSE,
                    fresh |-> IF known = {} THEN {} ELSE run.page \ known,
                    seen |-> run.seen, short |-> run.short,
                    before |-> IF result.key # run.key THEN run.seen
                               ELSE IF result.short THEN {} ELSE result.seen]
      /\ Rest(i, run.live)
  BY DEF Show, ShowKnowing
<1>3. /\ run.key \in RequestKey
      /\ Fits(run.page, run.seen, run.short, run.key)
      /\ result.seen \subseteq run.seen /\ run.seen \subseteq table
  BY <1>2 DEF DashboardInv, LastRuns, AnswersLater
<1>4. /\ run.page \in SUBSET Row /\ run.seen \in SUBSET Row /\ run.short \in BOOLEAN
      /\ run.key \in AnyKey /\ result.seen \in SUBSET Row
  BY <1>1 DEF RunType, ResultType
<1>5. /\ result'.key = run.key /\ result'.rows = run.page
      /\ result'.seen = run.seen /\ result'.short = run.short
      /\ result'.fresh = IF known = {} THEN {} ELSE run.page \ known
      /\ result'.before = IF result.key # run.key THEN run.seen
                          ELSE IF result.short THEN {} ELSE result.seen
  BY <1>2
<1>6. result' \in ResultType
  BY <1>2, <1>4 DEF ResultType
<1>7. /\ result'.fresh # {} =>
           result.key = run.key /\ result.rows # {} /\ result'.fresh = run.page \ result.rows
      /\ result.key = run.key => result'.before = IF result.short THEN {} ELSE result.seen
  BY <1>5
<1> QED  BY <1>1, <1>2, <1>3, <1>5, <1>6, <1>7

\* The answer shown is the only one there is, and leaves none waiting.
LEMMA InvShow ==
  ASSUME DashboardInv, NEW i \in DOMAIN runs, Show(i)
  PROVE  DashboardInv'
<1>1. /\ runs[i].phase = "answered" /\ runs[i].live \in BOOLEAN
      /\ Fits(runs[i].page, runs[i].seen, runs[i].short, runs[i].key)
      /\ runs[i].seen \subseteq table /\ runs[i].key \in RequestKey
      /\ result' \in ResultType
      /\ result'.key = runs[i].key /\ result'.rows = runs[i].page
      /\ result'.seen = runs[i].seen /\ result'.short = runs[i].short
      /\ Rest(i, runs[i].live)
  BY ShowIs DEF RunType
<1>2. /\ runs' \in Seq(RunType) /\ LastRuns'
      /\ \A j \in DOMAIN runs' : runs'[j].phase # "answered"
      /\ UNCHANGED <<table, filter, limit, live>>
  BY <1>1, RestIs
<1>3. Typed'
  BY <1>1, <1>2 DEF DashboardInv, Typed
<1>4. ResultFits'
  BY <1>1, <1>2 DEF ResultFits
<1> QED  BY <1>2, <1>3, <1>4 DEF DashboardInv, AnswersLater

\* An error keeps the rows of the same request, and clears those of another.
LEMMA InvFail ==
  ASSUME DashboardInv, NEW i \in DOMAIN runs, Fail(i)
  PROVE  DashboardInv' /\ result'.error /\ result'.fresh = {}
<1> DEFINE same == result.key = runs[i].key
<1>1. /\ runs[i] \in RunType /\ result \in ResultType
  BY ElementOfSeq, LenProperties DEF DashboardInv, Typed
<1>2. /\ runs[i].phase = "failed" /\ Rest(i, runs[i].live)
      /\ result' = [result EXCEPT !.key = runs[i].key, !.fresh = {}, !.error = TRUE,
                                  !.rows = IF same THEN @ ELSE {},
                                  !.seen = IF same THEN @ ELSE {},
                                  !.short = same /\ @]
  BY DEF Fail, FailThen
<1>3. /\ runs' \in Seq(RunType) /\ LastRuns'
      /\ \A j \in DOMAIN runs' : runs'[j].phase # "answered"
      /\ UNCHANGED <<table, filter, limit, live>>
  BY <1>1, <1>2, RestIs DEF RunType
<1>4. runs[i].key \in RequestKey
  BY <1>2 DEF DashboardInv, LastRuns
<1>5. /\ result'.key = runs[i].key /\ result'.fresh = {} /\ result'.error = TRUE
      /\ result'.rows = IF same THEN result.rows ELSE {}
      /\ result'.seen = IF same THEN result.seen ELSE {}
      /\ result'.short = (same /\ result.short)
  BY <1>1, <1>2 DEF ResultType
<1>6. result' \in ResultType
  <2>1. /\ runs[i].key \in AnyKey /\ (same /\ result.short) \in BOOLEAN
        /\ (IF same THEN result.rows ELSE {}) \in SUBSET Row
        /\ (IF same THEN result.seen ELSE {}) \in SUBSET Row
    BY <1>1, <1>4 DEF AnyKey, ResultType
  <2> HIDE DEF same
  <2> QED  BY <1>1, <1>2, <2>1 DEF ResultType
<1>7. Typed'
  BY <1>3, <1>6 DEF DashboardInv, Typed
<1>8. ResultFits'
  <2>1. CASE same
    <3>1. /\ result'.key = result.key /\ result'.rows = result.rows
          /\ result'.seen = result.seen /\ result'.short = result.short /\ table' = table
      BY <1>1, <1>3, <1>5, <2>1 DEF ResultType
    <3> QED  BY <1>4, <1>5, <3>1 DEF DashboardInv, ResultFits
  <2>2. CASE ~same
    BY <1>5, <2>2 DEF ResultFits
  <2> QED  BY <2>1, <2>2
<1> QED  BY <1>3, <1>5, <1>7, <1>8 DEF DashboardInv, AnswersLater

\* A poll asks anew: its run has no answer waiting.
LEMMA InvPoll ==
  ASSUME DashboardInv, NEW i \in DOMAIN runs, Poll(i)
  PROVE  DashboardInv'
<1> DEFINE run == [runs[i] EXCEPT !.phase = "asked"]
<1>1. runs[i] \in RunType /\ i = Len(runs) /\ runs[i].key \in RequestKey
  BY ElementOfSeq, LenProperties DEF DashboardInv, Typed, LastRuns, Poll
<1>2. run \in RunType /\ run.key = runs[i].key /\ run.phase = "asked"
  BY <1>1 DEF RunType
<1>3. runs' = [runs EXCEPT ![i] = run] /\ UNCHANGED <<table, filter, limit, live, result>>
  BY DEF Poll
<1> HIDE DEF run
<1>4. /\ runs' \in Seq(RunType) /\ DOMAIN runs' = DOMAIN runs /\ Len(runs') = Len(runs)
      /\ runs'[i] = run /\ \A j \in DOMAIN runs : j # i => runs'[j] = runs[j]
  BY <1>2, <1>3, RunChanges
<1>5. Typed'
  BY <1>3, <1>4 DEF DashboardInv, Typed
<1>6. LastRuns' /\ AnswersLater'
  BY <1>1, <1>2, <1>3, <1>4 DEF DashboardInv, LastRuns, AnswersLater
<1> QED  BY <1>3, <1>5, <1>6 DEF DashboardInv, ResultFits

\* DashboardInv is inductive.
LEMMA InvNext ==
  ASSUME DashboardInv, [Next]_vars
  PROVE  DashboardInv'
<1>1. CASE UNCHANGED vars
  BY <1>1 DEF vars, DashboardInv, Typed, LastRuns, AnswersLater, ResultFits
<1>2. CASE Next
  BY <1>2, InvUser, InvEffect, InvInsert, InvAnswer, InvShow, InvFail, InvPoll DEF Next, Run
<1> QED  BY <1>1, <1>2

\* At every moment only the last run of the effect can still be answered, its
\* answer is later than what is on the screen, and what is there is an answer.
THEOREM DashboardInvariant == Spec => []DashboardInv
  BY InvInit, InvNext, PTL DEF Spec

----------------------------------------------------------------------------
(* The properties. *)

\* Rows on the screen are of the request they are shown for, by ResultFits.
LEMMA FitsOfInv ==
  ASSUME DashboardInv
  PROVE  AnswerFits
<1>1. /\ result \in ResultType /\ Request \in RequestKey /\ filter \in Filter
      /\ Request.filter = filter
  BY RequestType DEF DashboardInv, Typed, Request
<1>2. ASSUME InTrace
      PROVE  Shown \subseteq Selected[filter]
  <2>1. CASE result.key.filter = filter /\ result.rows # {}
    <3>1. /\ result.key \in RequestKey
          /\ Fits(result.rows, result.seen, result.short, result.key)
      BY <2>1 DEF DashboardInv, ResultFits
    <3>2. PICK n : result.rows \in Pages(result.seen, filter, n)
      BY <2>1, <3>1 DEF Fits, ShortPages
    <3> QED  BY <2>1, <3>2 DEF Pages, kSubset, Shown
  <2>2. CASE ~(result.key.filter = filter /\ result.rows # {})
    BY <1>2, <2>2 DEF Shown, InTrace
  <2> QED  BY <2>1, <2>2
<1>3. ASSUME ~Loading
      PROVE  /\ Shown = result.rows
             /\ \/ Shown \in Pages(result.seen, filter, Request.limit)
                \/ /\ result.short
                   /\ Shown \in ShortPages(result.seen, filter, Request.limit)
                \/ result.error /\ Shown = {}
  <2>1. result.key = Request /\ Shown = result.rows
    BY <1>1, <1>3 DEF Loading, Shown
  <2>2. result.key # NoRequest
    BY <1>1, <2>1, Constants
  <2> QED  BY <1>1, <2>1, <2>2 DEF DashboardInv, ResultFits, Fits
<1> QED  BY <1>2, <1>3 DEF AnswerFits

\* Whatever the order of the user's clicks, of the answers and errors of the runs
\* and of the inserts, a trace's view shows rows of the trace only, and what is on
\* the screen as loaded is an answer to the request on the screen.
THEOREM AnswersFit == Spec => []AnswerFits
<1>1. DashboardInv => AnswerFits
  BY FitsOfInv
<1> QED  BY <1>1, DashboardInvariant, PTL

\* Show is the only step that makes rows fresh.
LEMMA FreshStep ==
  ASSUME DashboardInv, FreshAreNew, [Next]_vars
  PROVE  FreshAreNew'
<1>1. CASE result' = result
  BY <1>1 DEF FreshAreNew
<1>2. ASSUME NEW i \in DOMAIN runs, Fail(i)
      PROVE  FreshAreNew'
  BY <1>2, InvFail DEF FreshAreNew
<1>3. ASSUME NEW i \in DOMAIN runs, Show(i)
      PROVE  FreshAreNew'
  <2> SUFFICES ASSUME NEW r \in result'.fresh \cap result'.before
               PROVE  \E s \in result'.before \ {r} : TimeOf[s] = TimeOf[r]
    BY DEF FreshAreNew
  <2> DEFINE run == runs[i]
             f == run.key.filter
             n == run.key.limit
  <2>1. /\ run.key \in RequestKey /\ run \in RunType /\ result \in ResultType
        /\ Fits(run.page, run.seen, run.short, run.key)
        /\ result.seen \subseteq run.seen /\ run.seen \subseteq table
        /\ result.key = run.key /\ result.rows # {}
        /\ result'.fresh = run.page \ result.rows
        /\ result'.before = IF result.short THEN {} ELSE result.seen
    BY <1>3, ShowIs DEF DashboardInv, Typed
  <2>2. /\ ~result.short /\ result'.before = result.seen
        /\ r \in (run.page \ result.rows) \cap result.seen
    BY <2>1
  <2>3. /\ f \in Filter /\ n \in Nat /\ run.short \in BOOLEAN
        /\ result.seen \in SUBSET Row /\ run.seen \in SUBSET Row
        /\ IsFiniteSet(result.seen) /\ IsFiniteSet(run.seen)
    BY <2>1, FS_Subset DEF RequestKey, RunType, ResultType, DashboardInv, Typed
  <2>4. result.rows \in Pages(result.seen, f, n)
    BY <2>1, <2>2 DEF DashboardInv, ResultFits, Fits
  <2>5. PICK m \in 0..n : run.page \in Pages(run.seen, f, m)
    BY <2>1, <2>3, FitsIs
  <2>6. \E s \in result.seen \ {r} : TimeOf[s] = TimeOf[r]
    <3> HIDE DEF run, f, n
    <3> QED  BY <2>1, <2>2, <2>3, <2>4, <2>5, LostToATie
  <2> QED  BY <2>2, <2>6
<1> QED
  BY <1>1, <1>2, <1>3
  DEF Next, User, ChangeFilter, OpenTrace, LoadMore, ToggleLive, Refresh, Touch, Effect, Insert,
      Run, Answer, AnswerError, Poll, vars

\* A row is highlighted only if it has come in since the previous answer to the
\* same request, except where rows of one time compete for the last place of a
\* page or the previous answer was cut short.
THEOREM HighlightedAreNew == Spec => []FreshAreNew
<1>1. Init => FreshAreNew
  BY DEF Init, FreshAreNew
<1>2. DashboardInv /\ FreshAreNew /\ [Next]_vars => FreshAreNew'
  BY FreshStep
<1> QED  BY <1>1, <1>2, DashboardInvariant, PTL DEF Spec

\* No answer is replaced by one that ClickHouse gave earlier: the cleanup of the
\* effect leaves one run that can still be answered, and it asks again only once
\* its answer is shown.
THEOREM AnswersGoForward == Spec => NeverGoesBack
<1>1. ASSUME DashboardInv, [Next]_vars
      PROVE  [~result'.error => result.seen \subseteq result'.seen]_vars
  <2>1. CASE result' = result
    BY <2>1
  <2>2. ASSUME NEW i \in DOMAIN runs, Fail(i)
        PROVE  result'.error
    BY <1>1, <2>2, InvFail
  <2>3. ASSUME NEW i \in DOMAIN runs, Show(i)
        PROVE  result.seen \subseteq result'.seen
    BY <1>1, <2>3, ShowIs
  <2> QED
    BY <1>1, <2>1, <2>2, <2>3
    DEF Next, User, ChangeFilter, OpenTrace, LoadMore, ToggleLive, Refresh, Touch, Effect,
        Insert, Run, Answer, AnswerError, Poll, vars
<1> QED  BY <1>1, DashboardInvariant, PTL DEF Spec, NeverGoesBack
=============================================================================
