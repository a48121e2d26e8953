----------------------------- MODULE RecordPath -----------------------------
(***************************************************************************)
(* The way of one log line to a stored record: the agent's parser and        *)
(* enricher, the wire, the ingest API's validation and the processor's       *)
(* stages.                                                                  *)
(*                                                                         *)
(* A Docker log line is its kind, the time Docker wrote, the words of a plain *)
(* message and the string fields of a JSON message, a set of <<key, value>>  *)
(* (other fields are skipped by the parser).  A value that is a name only is *)
(* "" or the name of its own key.  A time is "ok", "future" (by more than a  *)
(* minute), "far" (beyond what UnixNano can represent) or "bad" (no time).   *)
(***************************************************************************)
EXTENDS Integers, Functions

CONSTANTS
  Key,         \* JSON keys an application writes
  MaxFields,   \* bound: fields of a JSON message
  LevelWord,   \* levels an application writes
  EnvService   \* FEATURETRACE_SERVICE, or "unknown"

Level == {"debug", "info", "warn", "error", "fatal"}

Word == {"FATAL", "CRITICAL", "ERR", "WARN", "DEBUG"}

\* The keys the parser matches without regard to case, in lower case.
Lower(k) == CASE k = "Level" -> "level" [] k = "X-Trace-Id" -> "x-trace-id" [] OTHER -> k

FieldOf(k) ==
  CASE Lower(k) \in {"msg", "message"}            -> "message"
    [] Lower(k) \in {"level", "severity", "lvl"}  -> "level"
    [] Lower(k) \in {"service", "service_name"}   -> "service"
    [] Lower(k) = "feature"                       -> "feature"
    [] Lower(k) \in {"trace_id", "traceid"}       -> "trace_id"
    [] Lower(k) \in {"span_id", "spanid"}         -> "span_id"
    [] Lower(k) \in {"timestamp", "time", "ts"}   -> "timestamp"
    [] OTHER                                      -> "metadata"

ValuesOf(k) == CASE FieldOf(k) = "level"     -> LevelWord
                 [] FieldOf(k) = "timestamp" -> {"ok", "future", "far", "bad"}
                 [] OTHER                    -> {"", k}

Pair == UNION {{k} \X ValuesOf(k) : k \in Key}

\* JSON objects of up to MaxFields fields: a decoded object has a key once.
Object == {o \in {Range(t) : t \in [1..MaxFields -> Pair]} \cup {{}} :
             \A p, q \in o : p[1] = q[1] => p = q}

\* "torn" is a line that is no Docker entry, and "cut" one that was read or begins in
\* the middle of a character, hence no UTF-8; the other kinds say what the "log" of the
\* entry holds.  Docker's clock and the agent's are the host's.
Line ==
  LET entry(kind, words, fields, time) ==
        [kind |-> kind, words |-> words, fields |-> fields, time |-> time]
      times == {"ok", "future", "bad"}
  IN {entry(k, {}, {}, t) : k \in {"blank", "newline", "null", "empty"}, t \in times}
       \cup {entry(k, W, {}, t) : k \in {"torn", "cut", "text"}, W \in SUBSET Word, t \in times}
       \cup {entry("object", {}, S, t) : S \in Object, t \in times}

VARIABLES
  line,    \* the line being followed
  clock,   \* the host's clock as the ingest API sees it: "ok" or "future"
  rec,     \* the record, model.Record and then model.LogRecord
  todo,    \* JSON fields not applied yet
  pc       \* the stage that comes next, or the record's fate

vars == <<line, clock, rec, todo, pc>>

\* The assignment m[k] = v to a Go map.
Assign(m, k, v) == [x \in DOMAIN m \cup {k} |-> IF x = k THEN v ELSE m[x]]

NewRecord == [timestamp |-> clock, message |-> "", level |-> "", service |-> "",
              feature |-> "", trace_id |-> "", span_id |-> "", metadata |-> <<>>]

Init ==
  /\ line \in Line
  /\ clock \in {"ok", "future"}
  /\ rec = NewRecord
  /\ todo = {}
  /\ pc = "parse"

----------------------------------------------------------------------------
(* Parser. *)

InferLevel(words) ==
  CASE words \cap {"FATAL", "CRITICAL"} # {} -> "fatal"
    [] "ERR" \in words                       -> "error"
    [] "WARN" \in words                      -> "warn"
    [] "DEBUG" \in words                     -> "debug"
    [] OTHER                                 -> "info"

\* What normalizeLevel maps to each level; any other word stays as it is.
Alias == [debug |-> {"dbg", "debug", "trace"}, info |-> {"inf", "info"},
          warn |-> {"wrn", "warn", "warning"}, error |-> {"err", "error"},
          fatal |-> {"ftl", "fatal", "critical", "crit"}]

NormalizeLevel(word) ==
  IF \E l \in Level : word \in Alias[l] THEN CHOOSE l \in Level : word \in Alias[l] ELSE word

\* The record once the line is known not to be blank, and Docker's envelope, if
\* there is one with a message in it, is unwrapped.
Unwrapped ==
  [rec EXCEPT
     !.metadata  = Assign(@, "container_name", "container"),
     !.timestamp = IF line.kind \notin {"torn", "cut", "empty"} /\ line.time # "bad"
                   THEN line.time ELSE @]

\* Without a message in it, the envelope itself is the JSON object.
FieldsOf(l) == IF l.kind = "empty" THEN {<<"log", "">>, <<"time", l.time>>} ELSE l.fields

MutantParseNoLevel ==   \* a plain message is given no level
  /\ pc = "parse"
  /\ rec' = IF line.kind = "blank" THEN rec ELSE [Unwrapped EXCEPT !.message = "text"]
  /\ pc' = "enrich" /\ todo' = {}
  /\ UNCHANGED <<line, clock>>

Parse ==
  /\ pc = "parse"
  /\ CASE line.kind = "blank" ->
            pc' = "enrich" /\ UNCHANGED <<rec, todo>>
       [] line.kind \in {"object", "null", "empty"} ->
            pc' = "fields" /\ rec' = Unwrapped /\ todo' = FieldsOf(line)
       [] OTHER ->
            /\ pc' = "enrich"
            /\ rec' = [Unwrapped EXCEPT
                         !.message = CASE line.kind = "newline" -> ""
                                       [] line.kind = "cut"     -> "cut"
                                       [] OTHER                 -> "text",
                         !.level   = InferLevel(line.words)]
            /\ UNCHANGED todo
  /\ UNCHANGED <<line, clock>>

MutantPut(r, k, v) ==   \* every value is taken as it is written
  IF FieldOf(k) = "metadata" THEN [r EXCEPT !.metadata = Assign(@, k, v)]
                             ELSE [r EXCEPT ![FieldOf(k)] = v]

Put(r, k, v) ==
  CASE FieldOf(k) = "metadata"                -> [r EXCEPT !.metadata = Assign(@, k, v)]
    [] FieldOf(k) = "level"                   -> [r EXCEPT !.level = NormalizeLevel(v)]
    [] FieldOf(k) = "timestamp" /\ v = "bad"  -> r
    [] OTHER                                  -> [r EXCEPT ![FieldOf(k)] = v]

\* Go ranges over a map in any order.
ParseField ==
  /\ pc = "fields"
  /\ \E p \in todo :
       /\ rec' = Put(rec, p[1], p[2])
       /\ todo' = todo \ {p}
  /\ UNCHANGED <<line, clock, pc>>

\* A record without a message takes the field "log", or else "text".
MutantFallback ==   \* whatever the record already has
  /\ pc = "fields" /\ todo = {}
  /\ \E k \in {"log", "text"} :
       rec' = IF <<k, k>> \in FieldsOf(line) THEN [rec EXCEPT !.message = k] ELSE rec
  /\ pc' = "enrich"
  /\ UNCHANGED <<line, clock, todo>>

Fallback ==
  /\ pc = "fields" /\ todo = {}
  /\ LET use(k) == <<k, k>> \in FieldsOf(line)
     IN rec' = CASE rec.message # "" -> rec
                 [] rec.message = "" /\ use("log") -> [rec EXCEPT !.message = "log"]
                 [] rec.message = "" /\ ~use("log") /\ use("text") ->
                      [rec EXCEPT !.message = "text"]
                 [] OTHER -> rec
  /\ pc' = "enrich"
  /\ UNCHANGED <<line, clock, todo>>

----------------------------------------------------------------------------
(* Enricher. *)

Meta(r, k) == IF k \in DOMAIN r.metadata THEN r.metadata[k] ELSE ""

Service(r) ==
  IF r.service # "" THEN r.service
  ELSE IF Meta(r, "container_name") # "" THEN Meta(r, "container_name") ELSE EnvService

\* An empty field takes the first of some metadata keys that has a string.
MutantPromote(v, r, keys) ==   \* whether the field is empty or not
  LET found == {i \in DOMAIN keys : Meta(r, keys[i]) # ""}
  IN IF found = {} THEN v
     ELSE Meta(r, keys[CHOOSE i \in found : \A j \in found : i <= j])

Promote(v, r, keys) ==
  LET found == {i \in DOMAIN keys : Meta(r, keys[i]) # ""}
  IN IF v # "" \/ found = {} THEN v
     ELSE Meta(r, keys[CHOOSE i \in found : \A j \in found : i <= j])

Enrich ==
  /\ pc = "enrich"
  /\ LET r == [rec EXCEPT !.metadata = Assign(@, "host", "host")]
     IN rec' = [r EXCEPT
                  !.service  = Service(r),
                  !.trace_id = Promote(@, r, <<"trace_id", "traceid", "x-trace-id">>),
                  !.span_id  = Promote(@, r, <<"span_id", "spanid", "x-span-id">>),
                  !.feature  = Promote(@, r, <<"feature", "x-feature-flag", "feature_flag">>)]
  /\ pc' = "send"
  /\ UNCHANGED <<line, clock, todo>>

----------------------------------------------------------------------------
(* The wire, and the ingest API. *)

\* Protobuf marshals no string that is not UTF-8: every call of Send fails, and the
\* whole batch is dropped, the records ("spoilt") that were in it with such a one too.
Unsent ==
  /\ pc = "send"
  /\ pc' = IF rec.message = "cut" THEN "dropped" ELSE "spoilt"
  /\ UNCHANGED <<line, clock, rec, todo>>

\* A time goes as nanoseconds in an int64, which a far one overflows: what
\* arrives is some other time, in the past ("wrapped") or not.
Send ==
  /\ pc = "send" /\ rec.message # "cut"
  /\ \E t \in IF rec.timestamp = "far" THEN {"wrapped", "future"} ELSE {rec.timestamp} :
       rec' = [rec EXCEPT !.timestamp = t]
  /\ pc' = "validate"
  /\ UNCHANGED <<line, clock, todo>>

\* The default level of ValidateRecord comes after the check that rejects it.
MutantValid(r) == r.message # "" /\ r.timestamp # "future"   \* any level

Valid(r) == r.message # "" /\ r.level \in Level /\ r.timestamp # "future"

ValidateRecord ==
  /\ pc = "validate"
  /\ pc' = IF Valid(rec) THEN "process" ELSE "dropped"
  /\ UNCHANGED <<line, clock, rec, todo>>

----------------------------------------------------------------------------
(* The processor's stages. *)

StoredLevel(level) ==
  CASE level = "warning" -> "warn" [] level = "err" -> "error" [] level = "" -> "info"
    [] OTHER -> level

\* ensureTimestamp finds no zero time: protoToModel makes none.
Process ==
  /\ pc = "process"
  /\ rec' = [rec EXCEPT !.level = StoredLevel(@),
                        !.metadata = Assign(@, "processed_at", "now")]
  /\ pc' = "stored"
  /\ UNCHANGED <<line, clock, todo>>

Next == Parse \/ ParseField \/ Fallback \/ Enrich \/ Send \/ Unsent \/ ValidateRecord \/ Process

Spec == Init /\ [][Next]_vars

----------------------------------------------------------------------------
(* Properties. *)

TypeOK ==
  /\ line \in Line /\ clock \in {"ok", "future"}
  /\ todo \subseteq FieldsOf(line)
  /\ DOMAIN rec = DOMAIN NewRecord
  /\ rec.timestamp \in {"ok", "future", "far", "wrapped"}
  /\ rec.level \in Level \cup LevelWord \cup {""}
  /\ pc \in {"parse", "fields", "enrich", "send", "validate", "process", "dropped", "spoilt",
            "stored"}

Written(f) == {p[2] : p \in {q \in FieldsOf(line) : FieldOf(q[1]) = f}}

FirstClass == {"service", "feature", "trace_id", "span_id"}

\* Whatever the order of the fields, what the parser makes of a JSON message is
\* what was written: a field has a value given for one of its keys, the last
\* applied where there are several, and "log" and "text" are messages only where
\* there is no other.
ParsedAsWritten ==
  pc = "enrich" /\ line.kind = "object" =>
    /\ \A f \in FirstClass : rec[f] \in Written(f) \/ Written(f) \cup {rec[f]} = {""}
    /\ LET own  == Written("message")
           rest == {k \in {"log", "text"} : <<k, k>> \in line.fields}
       IN \/ rec.message \in own \ {""}
          \/ (own = {} \/ "" \in own) /\ rec.message \in rest
          \/ (own = {} \/ "" \in own) /\ rest = {} /\ rec.message = ""
    /\ Written("level") # {}
         => rec.level \in {NormalizeLevel(w) : w \in Written("level")}

\* Trace correlation: the id written in a log is the id the record is stored under,
\* unless one of its trace-id keys is empty, which may then be the value taken; where
\* the log has no id at all the header's counts.  No other value is ever stored.
TraceKept ==
  pc = "stored" /\ line.kind = "object" =>
    LET own == Written("trace_id") \ {""}
    IN /\ own # {} /\ "" \notin Written("trace_id") => rec.trace_id \in own
       /\ own = {} /\ <<"x-trace-id", "x-trace-id">> \in line.fields
            => rec.trace_id = "x-trace-id"
       /\ rec.trace_id \in own \cup {"", "x-trace-id"}

\* A line of UTF-8 with a message, a level the system knows and a time that is not in
\* the future is not dropped on its own account, whatever else it holds.
Messages == {p[2] : p \in {q \in line.fields : FieldOf(q[1]) = "message"}}

WellFormed ==
  /\ clock = "ok" /\ line.time # "future"
  /\ \/ line.kind \in {"torn", "text"}
     \/ /\ line.kind = "object"
        /\ "" \notin Messages
        /\ Messages # {} \/ {<<"log", "log">>, <<"text", "text">>} \cap line.fields # {}
        /\ Written("level") # {}
        /\ \A w \in Written("level") : NormalizeLevel(w) \in Level
        /\ Written("timestamp") \cap {"future", "far"} = {}

WellFormedKept == WellFormed => pc # "dropped"

\* What the ingest API accepts the processor's stages leave alone, but for the
\* time of processing: a message that is delivered again gives the same record.
ProcessKeeps ==
  [][Process => /\ \A f \in DOMAIN rec \ {"metadata"} : rec'[f] = rec[f]
                /\ \A k \in DOMAIN rec.metadata \ {"processed_at"} :
                     rec'.metadata[k] = rec.metadata[k]]_vars

(* A claim of a comment that the code does not keep. *)

\* validator.go:41: an empty level defaults to "info".
EmptyLevelAccepted ==
  pc = "dropped" => rec.level # "" \/ rec.message = "" \/ rec.timestamp = "future"
=============================================================================
