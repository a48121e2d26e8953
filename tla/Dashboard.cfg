\* Three rows, two of them of one time, a list and a trace, three runs of the effect.
\* Deadlock is off: with live off and the request answered the dashboard rests.
SPECIFICATION FairSpec
CONSTANTS
  r1 = r1
  r2 = r2
  r3 = r3
  list = list
  trace = trace
  Row <- ThreeRows
  TimeOf <- TwoTied
  Filter <- TwoViews
  Selected <- RowsOf
  Trace <- OneTrace
  PageSize = 1
  TraceLimit = 2
  MaxRuns = 3
  MaxFaults = 1
INVARIANTS
  AnswerFits
  FreshAreNew
PROPERTIES
  NeverGoesBack
  LoadingEnds
  LiveShows
CHECK_DEADLOCK FALSE
