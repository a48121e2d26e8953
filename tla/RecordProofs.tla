---------------------------- MODULE RecordProofs ----------------------------
(* Machine-checked proofs about RecordPath, for every value of its constants: *)
(* any keys, any number of fields and any level words.                        *)
EXTENDS RecordPath, TLAPS

----------------------------------------------------------------------------
(* Lines, fields and records. *)

Fields == {"timestamp", "message", "level", "service", "feature", "trace_id", "span_id",
           "metadata"}

\* Every key belongs to a field of the record, and the record has these fields.
LEMMA FieldNames ==
  /\ \A k : FieldOf(k) \in Fields
  /\ DOMAIN NewRecord = Fields /\ DOMAIN NewRecord' = Fields
  BY DEF FieldOf, Fields, NewRecord

\* What a line may be.
LEMMA LineIs ==
  ASSUME NEW l \in Line
  PROVE  /\ l.kind \in {"blank", "newline", "null", "empty", "torn", "cut", "text", "object"}
         /\ l.time \in {"ok", "future", "bad"}
         /\ IF l.kind = "object" THEN l.fields \in Object ELSE l.fields = {}
  BY DEF Line

\* A JSON message has pairs of a key and a value of that key, a key once.
LEMMA ObjectIs ==
  ASSUME NEW o \in Object
  PROVE  /\ \A p \in o : p = <<p[1], p[2]>> /\ p[2] \in ValuesOf(p[1])
         /\ \A p, q \in o : p[1] = q[1] => p = q
<1>1. /\ o \in {Range(t) : t \in [1..MaxFields -> Pair]} \cup {{}}
      /\ \A p, q \in o : p[1] = q[1] => p = q
  BY DEF Object
<1>2. o \subseteq Pair
  <2>1. ASSUME NEW t \in [1..MaxFields -> Pair]
        PROVE  Range(t) \subseteq Pair
    BY DEF Range
  <2> QED  BY <1>1, <2>1
<1>3. \A p \in Pair : p = <<p[1], p[2]>> /\ p[2] \in ValuesOf(p[1])
  BY DEF Pair
<1> QED  BY <1>1, <1>2, <1>3

\* A field of a JSON text has a value of its kind.
LEMMA PairIs ==
  ASSUME NEW l \in Line, NEW p \in FieldsOf(l), l.kind \in {"object", "null", "empty"}
  PROVE  /\ p = <<p[1], p[2]>>
         /\ FieldOf(p[1]) = "level" => p[2] \in LevelWord
         /\ FieldOf(p[1]) = "timestamp" => p[2] \in {"ok", "future", "far", "bad"}
         /\ FieldOf(p[1]) \notin {"level", "timestamp"} => p[2] \in {"", p[1]}
<1>1. CASE l.kind = "object"
  <2>1. p = <<p[1], p[2]>> /\ p[2] \in ValuesOf(p[1])
    BY <1>1, LineIs, ObjectIs DEF FieldsOf
  <2> QED  BY <2>1 DEF ValuesOf
<1>2. CASE l.kind = "empty"
  <2>1. p = <<"log", "">> \/ p = <<"time", l.time>>
    BY <1>2 DEF FieldsOf
  <2>2. FieldOf("log") = "metadata" /\ FieldOf("time") = "timestamp"
    BY DEF FieldOf, Lower
  <2>3. CASE p = <<"log", "">>
    BY <2>2, <2>3
  <2>4. CASE p = <<"time", l.time>>
    <3>1. p[1] = "time" /\ p[2] = l.time
      BY <2>4
    <3> QED  BY <2>2, <2>4, <3>1, LineIs
  <2> QED  BY <2>1, <2>3, <2>4
<1> QED  BY <1>1, <1>2, LineIs DEF FieldsOf

\* A word that normalizeLevel does not map to a level stays as it is.
LEMMA NormalizeLevelIs ==
  \A w : NormalizeLevel(w) \in Level \cup {w}
  BY DEF NormalizeLevel

\* inferLevel always finds a level.
LEMMA InferLevelIs ==
  \A W : InferLevel(W) \in Level
  BY DEF InferLevel, Level

\* One field of a JSON text changes one field of the record at most.
LEMMA PutIs ==
  ASSUME NEW r, DOMAIN r = Fields, NEW k, NEW v
  PROVE  /\ DOMAIN Put(r, k, v) = Fields
         /\ \A f \in Fields \ {FieldOf(k)} : Put(r, k, v)[f] = r[f]
         /\ FieldOf(k) = "metadata" => Put(r, k, v).metadata = Assign(r.metadata, k, v)
         /\ FieldOf(k) = "level" => Put(r, k, v).level = NormalizeLevel(v)
         /\ FieldOf(k) = "timestamp" =>
              Put(r, k, v).timestamp = IF v = "bad" THEN r.timestamp ELSE v
         /\ FieldOf(k) \notin {"metadata", "level", "timestamp"} =>
              Put(r, k, v)[FieldOf(k)] = v
  BY FieldNames DEF Put, Fields

----------------------------------------------------------------------------
(* What the fields applied so far have made of the record. *)

\* The values that some of the fields of a JSON text give to a field of the record.
ValuesIn(S, f) == {p[2] : p \in {q \in S : FieldOf(q[1]) = f}}

\* A value that was given, or none where none was.
Taken(v, values) == v \in values \/ (values = {} /\ v = "")

\* The record r shows the fields S, and for the rest is as Unwrapped left it.
Shows(r, S, times) ==
  /\ \A f \in FirstClass : Taken(r[f], ValuesIn(S, f))
  /\ Taken(r.level, {NormalizeLevel(w) : w \in ValuesIn(S, "level")})
  /\ r.timestamp \in ValuesIn(S, "timestamp") \cup times
  /\ \A p \in S : FieldOf(p[1]) = "metadata" => p[1] \in DOMAIN r.metadata
  /\ \A k \in DOMAIN r.metadata \ {"container_name"} :
       FieldOf(k) = "metadata" /\ <<k, r.metadata[k]>> \in S

\* One more field is one more value for its field of the record.
LEMMA ValuesAdd ==
  ASSUME NEW S, NEW p, NEW f
  PROVE  ValuesIn(S \cup {p}, f) = IF FieldOf(p[1]) = f THEN ValuesIn(S, f) \cup {p[2]}
                                                         ELSE ValuesIn(S, f)
  BY DEF ValuesIn

\* Applying a field makes the record show it too.
LEMMA PutShows ==
  ASSUME NEW r, DOMAIN r = Fields, NEW S, NEW times, NEW k, NEW v, Shows(r, S, times)
  PROVE  Shows(Put(r, k, v), S \cup {<<k, v>>}, times)
<1> DEFINE p == <<k, v>>
           T == S \cup {p}
           s == Put(r, k, v)
<1>1. \A f \in Fields \ {FieldOf(k)} : s[f] = r[f] /\ ValuesIn(T, f) = ValuesIn(S, f)
  <2> SUFFICES ASSUME NEW f \in Fields \ {FieldOf(k)}
               PROVE  s[f] = r[f] /\ ValuesIn(T, f) = ValuesIn(S, f)
    OBVIOUS
  <2>1. s[f] = r[f]
    BY PutIs
  <2>2. p[1] = k /\ ValuesIn(T, f) = IF FieldOf(p[1]) = f THEN ValuesIn(S, f) \cup {p[2]}
                                                          ELSE ValuesIn(S, f)
    BY ValuesAdd, ZenonT(40)
  <2> QED  BY <2>1, <2>2
<1>2. ValuesIn(T, FieldOf(k)) = ValuesIn(S, FieldOf(k)) \cup {v}
  BY ValuesAdd
<1>3. /\ FieldOf(k) = "metadata" => s.metadata = Assign(r.metadata, k, v)
      /\ FieldOf(k) = "level" => s.level = NormalizeLevel(v)
      /\ FieldOf(k) = "timestamp" => s.timestamp \in {r.timestamp, v}
      /\ FieldOf(k) \notin {"metadata", "level", "timestamp"} => s[FieldOf(k)] = v
  BY PutIs
<1> HIDE DEF s
<1>0. SUFFICES Shows(s, T, times)
  BY DEF s
<1>4. \A f \in FirstClass : Taken(s[f], ValuesIn(T, f))
  BY <1>1, <1>2, <1>3 DEF Shows, Taken, FirstClass, Fields
<1>5. Taken(s.level, {NormalizeLevel(w) : w \in ValuesIn(T, "level")})
  BY <1>1, <1>2, <1>3 DEF Shows, Taken, Fields
<1>6. s.timestamp \in ValuesIn(T, "timestamp") \cup times
  BY <1>1, <1>2, <1>3 DEF Shows, Fields
<1>7. CASE FieldOf(k) = "metadata"
  <2>1. /\ DOMAIN s.metadata = DOMAIN r.metadata \cup {k} /\ s.metadata[k] = v
        /\ \A x \in DOMAIN r.metadata \ {k} : s.metadata[x] = r.metadata[x]
    BY <1>3, <1>7 DEF Assign
  <2>2. /\ \A q \in T : FieldOf(q[1]) = "metadata" => q[1] \in DOMAIN s.metadata
        /\ \A x \in DOMAIN s.metadata \ {"container_name"} :
             FieldOf(x) = "metadata" /\ <<x, s.metadata[x]>> \in T
    BY <1>7, <2>1 DEF Shows
  <2> QED  BY <1>4, <1>5, <1>6, <2>2 DEF Shows
<1>8. CASE FieldOf(k) # "metadata"
  <2>1. s.metadata = r.metadata
    BY <1>1, <1>8 DEF Fields
  <2>2. \A q \in T : FieldOf(q[1]) = "metadata" => q \in S
    BY <1>8
  <2> QED  BY <1>4, <1>5, <1>6, <2>1, <2>2 DEF Shows
<1> QED  BY <1>7, <1>8

----------------------------------------------------------------------------
(* The invariant. *)

IsJson   == line.kind \in {"object", "null", "empty"}
IsObject == line.kind = "object"

\* The fields applied so far, and the times the record may have without them.
Applied == FieldsOf(line) \ todo
Times   == {clock, line.time}
Shown   == Shows(rec, Applied, Times)
Done    == todo = {}

\* The message is one that was given, and not empty, or else one of the fallbacks.
MessageChosen ==
  LET own  == Written("message")
      rest == {k \in {"log", "text"} : <<k, k>> \in line.fields}
  IN \/ rec.message \in own \ {""}
     \/ (own = {} \/ "" \in own) /\ rec.message \in rest
     \/ (own = {} \/ "" \in own) /\ rest = {} /\ rec.message = ""

\* The trace id is one that was given, or else the header's.
Traced ==
  LET own == Written("trace_id") \ {""}
  IN /\ own # {} /\ "" \notin Written("trace_id") => rec.trace_id \in own
     /\ own = {} /\ <<"x-trace-id", "x-trace-id">> \in line.fields
          => rec.trace_id = "x-trace-id"
     /\ rec.trace_id \in own \cup {"", "x-trace-id"}

\* What the wire carries and the ingest API accepts, whatever becomes of the time.
Acceptable == rec.message \notin {"", "cut"} /\ rec.level \in Level /\ rec.timestamp \notin {"future", "far"}

Parsing ==
  /\ pc = "parse" => rec = NewRecord
  /\ pc # "fields" => todo = {}
  /\ pc = "fields" => IsJson
  /\ pc = "fields" /\ IsObject => Taken(rec.message, ValuesIn(Applied, "message"))
  /\ pc \in {"fields", "enrich"} /\ IsObject => Shown
  /\ pc = "enrich" /\ IsObject => MessageChosen

Shipping ==
  /\ pc \in {"send", "validate", "process", "stored"} /\ IsObject => Traced
  /\ pc \in {"enrich", "send", "validate"} /\ WellFormed => Acceptable
  /\ pc = "process" => rec.level \in Level

RecordInv == TypeOK /\ Parsing /\ Shipping /\ WellFormedKept

\* No step changes what is said of the line.
LEMMA SameLine ==
  ASSUME UNCHANGED <<line, clock>>
  PROVE  /\ WellFormed' = WellFormed /\ IsJson' = IsJson /\ IsObject' = IsObject
         /\ Times' = Times /\ FieldsOf(line)' = FieldsOf(line)
  BY DEF WellFormed, Messages, Written, IsJson, IsObject, Times, FieldsOf

\* Nothing is known of a new record.
LEMMA InvInit ==
  ASSUME Init
  PROVE  RecordInv
<1>1. TypeOK
  BY DEF Init, TypeOK, NewRecord
<1>2. Parsing /\ Shipping /\ WellFormedKept
  BY DEF Init, Parsing, Shipping, WellFormedKept
<1> QED  BY <1>1, <1>2 DEF RecordInv

\* What Parse starts from: a time of the line's or the host's, and nothing else.
LEMMA UnwrappedIs ==
  ASSUME RecordInv, pc = "parse"
  PROVE  /\ DOMAIN Unwrapped = Fields
         /\ \A f \in FirstClass \cup {"message", "level"} : Unwrapped[f] = ""
         /\ Unwrapped.timestamp \in Times \ {"bad"}
         /\ DOMAIN Unwrapped.metadata = {"container_name"}
<1>1. rec = NewRecord /\ clock \in {"ok", "future"} /\ line \in Line
  BY DEF RecordInv, Parsing, TypeOK
<1>2. /\ DOMAIN NewRecord = Fields /\ NewRecord.timestamp = clock
      /\ \A f \in FirstClass \cup {"message", "level"} : NewRecord[f] = ""
      /\ NewRecord.metadata = <<>>
  BY FieldNames DEF NewRecord, FirstClass
<1>3. DOMAIN Assign(<<>>, "container_name", "container") = {"container_name"}
  BY DEF Assign
<1>4. /\ DOMAIN Unwrapped = Fields
      /\ \A f \in FirstClass \cup {"message", "level"} : Unwrapped[f] = NewRecord[f]
      /\ (Unwrapped.timestamp = line.time /\ line.time # "bad") \/ Unwrapped.timestamp = clock
      /\ Unwrapped.metadata = Assign(<<>>, "container_name", "container")
  BY <1>1, <1>2 DEF Unwrapped, FirstClass, Fields
<1> QED  BY <1>1, <1>2, <1>3, <1>4 DEF Times

\* Parse leaves the fields of a JSON text to be applied, and infers the level of
\* any other message.
LEMMA InvParse ==
  ASSUME RecordInv, Parse
  PROVE  RecordInv'
<1>1. /\ UNCHANGED <<line, clock>> /\ pc = "parse" /\ todo = {} /\ rec = NewRecord
      /\ line \in Line /\ clock \in {"ok", "future"} /\ line.time \in {"ok", "future", "bad"}
  BY LineIs DEF Parse, RecordInv, Parsing, TypeOK
<1>2. CASE line.kind = "blank"
  <2>1. pc' = "enrich" /\ rec' = rec /\ todo' = todo
    BY <1>2 DEF Parse
  <2>2. ~IsObject' /\ ~WellFormed'
    BY <1>1, <1>2, SameLine DEF IsObject, WellFormed
  <2>3. TypeOK'
    BY <1>1, <2>1, FieldNames DEF RecordInv, TypeOK, FieldsOf
  <2> QED
    BY <1>1, <2>1, <2>2, <2>3 DEF RecordInv, Parsing, Shipping, WellFormedKept
<1>3. CASE line.kind \in {"object", "null", "empty"}
  <2>1. pc' = "fields" /\ rec' = Unwrapped /\ todo' = FieldsOf(line)
    BY <1>3 DEF Parse
  <2>2. TypeOK'
    BY <1>1, <2>1, UnwrappedIs, FieldNames DEF TypeOK, Times, Fields, FieldsOf
  <2>3. Applied' = {} /\ Times' = Times /\ IsJson'
    BY <1>1, <1>3, <2>1, SameLine DEF Applied, IsJson
  <2>4. \A f : ValuesIn({}, f) = {}
    BY DEF ValuesIn
  <2>5. Shows(rec', {}, Times) /\ Taken(rec'.message, ValuesIn({}, "message"))
    BY <1>1, <2>1, <2>4, UnwrappedIs DEF Shows, Taken, FirstClass
  <2>6. Parsing'
    BY <2>1, <2>3, <2>5 DEF Parsing, Shown
  <2> QED  BY <2>1, <2>2, <2>6 DEF RecordInv, Shipping, WellFormedKept
<1>4. CASE line.kind \in {"newline", "torn", "cut", "text"}
  <2>1. /\ pc' = "enrich" /\ todo' = todo
        /\ rec' = [Unwrapped EXCEPT
                     !.message = CASE line.kind = "newline" -> ""
                                   [] line.kind = "cut"     -> "cut"
                                   [] OTHER                 -> "text",
                     !.level   = InferLevel(line.words)]
    BY <1>4 DEF Parse
  <2>2. /\ DOMAIN rec' = Fields /\ rec'.timestamp \in Times \ {"bad"} /\ rec'.level \in Level
        /\ line.kind \in {"torn", "text"} => rec'.message = "text"
    BY <1>1, <2>1, UnwrappedIs, InferLevelIs DEF Fields
  <2>3. TypeOK'
    BY <1>1, <2>1, <2>2, FieldNames DEF TypeOK, Times, FieldsOf
  <2>4. ~IsObject' /\ WellFormed' = WellFormed
    BY <1>1, <1>4, SameLine DEF IsObject
  <2>5. WellFormed => Acceptable'
    BY <1>1, <1>4, <2>2 DEF WellFormed, Acceptable, Times
  <2> QED
    BY <1>1, <2>1, <2>3, <2>4, <2>5 DEF RecordInv, Parsing, Shipping, WellFormedKept
<1> QED  BY <1>1, <1>2, <1>3, <1>4, LineIs

\* Each field applied is shown.
LEMMA InvParseField ==
  ASSUME RecordInv, ParseField
  PROVE  RecordInv'
<1>1. PICK p \in todo : rec' = Put(rec, p[1], p[2]) /\ todo' = todo \ {p}
  BY DEF ParseField
<1>2. /\ UNCHANGED <<line, clock, pc>> /\ pc = "fields" /\ line \in Line
      /\ p \in FieldsOf(line) /\ todo \subseteq FieldsOf(line) /\ IsJson
      /\ DOMAIN rec = Fields
  BY FieldNames DEF ParseField, RecordInv, Parsing, TypeOK
<1>3. /\ p = <<p[1], p[2]>>
      /\ FieldOf(p[1]) = "level" => p[2] \in LevelWord
      /\ FieldOf(p[1]) = "timestamp" => p[2] \in {"ok", "future", "far", "bad"}
  BY <1>2, PairIs DEF IsJson
<1> DEFINE k == p[1]
           v == p[2]
<1>4. /\ DOMAIN rec' = Fields
      /\ \A f \in Fields \ {FieldOf(k)} : rec'[f] = rec[f]
      /\ FieldOf(k) = "level" => rec'.level = NormalizeLevel(v)
      /\ FieldOf(k) = "timestamp" => rec'.timestamp = IF v = "bad" THEN rec.timestamp ELSE v
      /\ FieldOf(k) = "message" => rec'.message = v
  BY <1>1, <1>2, PutIs
<1>5. TypeOK'
  <2>1. rec'.level \in Level \cup LevelWord \cup {""}
    BY <1>3, <1>4, NormalizeLevelIs DEF RecordInv, TypeOK, Fields
  <2>2. rec'.timestamp \in {"ok", "future", "far", "wrapped"}
    BY <1>3, <1>4 DEF RecordInv, TypeOK, Fields
  <2> QED  BY <1>1, <1>2, <1>4, <2>1, <2>2, FieldNames DEF RecordInv, TypeOK, FieldsOf
<1>6. Applied' = Applied \cup {<<k, v>>} /\ Times' = Times /\ IsObject' = IsObject /\ IsJson'
  BY <1>1, <1>2, <1>3, SameLine DEF Applied
<1>7. IsObject => Shows(rec', Applied', Times)
  BY <1>1, <1>2, <1>6, PutShows DEF RecordInv, Parsing, Shown
<1>8. IsObject => Taken(rec'.message, ValuesIn(Applied', "message"))
  <2>1. ValuesIn(Applied', "message") =
          IF FieldOf(k) = "message" THEN ValuesIn(Applied, "message") \cup {v}
                                    ELSE ValuesIn(Applied, "message")
    <3>1. ValuesIn(Applied \cup {p}, "message") =
            IF FieldOf(p[1]) = "message" THEN ValuesIn(Applied, "message") \cup {p[2]}
                                         ELSE ValuesIn(Applied, "message")
      BY ValuesAdd
    <3> QED  BY <1>3, <1>6, <3>1
  <2> QED  BY <1>2, <1>4, <2>1 DEF RecordInv, Parsing, Taken, Fields
<1> QED
  BY <1>2, <1>5, <1>6, <1>7, <1>8 DEF RecordInv, Parsing, Shown, Shipping, WellFormedKept

\* Once every field is applied, the values applied are those written.
LEMMA AllWritten ==
  ASSUME Done
  PROVE  Applied = FieldsOf(line) /\ \A f : ValuesIn(Applied, f) = Written(f)
<1>1. Applied = FieldsOf(line)
  BY DEF Applied, Done
<1> QED  BY <1>1 DEF ValuesIn, Written

\* A well-formed JSON message has given a message, a level and no bad time.
LEMMA ObjectAcceptable ==
  ASSUME TypeOK, IsObject, WellFormed, Done, Shown, MessageChosen
  PROVE  Acceptable
<1>1. /\ line.time # "future" /\ clock # "future" /\ line.kind = "object"
      /\ FieldsOf(line) = line.fields /\ line \in Line /\ clock \in {"ok", "future"}
      /\ line.time \in {"ok", "future", "bad"}
  BY LineIs DEF WellFormed, IsObject, FieldsOf, TypeOK
<1>2. /\ "" \notin Messages /\ Messages = Written("message")
      /\ Messages # {} \/ {<<"log", "log">>, <<"text", "text">>} \cap line.fields # {}
      /\ Written("level") # {} /\ \A w \in Written("level") : NormalizeLevel(w) \in Level
      /\ Written("timestamp") \cap {"future", "far"} = {}
  BY <1>1 DEF WellFormed, Messages, Written
<1>3. rec.message \notin {"", "cut"}
  <2>1. {<<"log", "log">>, <<"text", "text">>} \cap line.fields # {} =>
          {k \in {"log", "text"} : <<k, k>> \in line.fields} # {}
    OBVIOUS
  <2>2. "cut" \notin Messages
    <3>1. FieldOf("cut") = "metadata"
      BY DEF FieldOf, Lower
    <3>2. \A p \in line.fields : FieldOf(p[1]) = "message" => p[2] # "cut"
      BY <1>1, <3>1, PairIs
    <3> QED  BY <3>2 DEF Messages
  <2> QED  BY <1>2, <2>1, <2>2 DEF MessageChosen
<1>4. /\ ValuesIn(Applied, "level") = Written("level")
      /\ ValuesIn(Applied, "timestamp") = Written("timestamp")
  BY AllWritten
<1>5. rec.level \in {NormalizeLevel(w) : w \in Written("level")}
  <2>1. {NormalizeLevel(w) : w \in Written("level")} # {}
    BY <1>2
  <2> QED  BY <1>4, <2>1 DEF Shown, Shows, Taken
<1>6. rec.level \in Level
  BY <1>2, <1>5
<1>7. rec.timestamp \in Written("timestamp") \cup Times
  BY <1>4 DEF Shown, Shows
<1> QED  BY <1>1, <1>2, <1>3, <1>6, <1>7 DEF Acceptable, Times

\* The same of the next state.
LEMMA ObjectAcceptableNext ==
  TypeOK' /\ IsObject' /\ WellFormed' /\ Done' /\ Shown' /\ MessageChosen' => Acceptable'
<1>1. TypeOK /\ IsObject /\ WellFormed /\ Done /\ Shown /\ MessageChosen => Acceptable
  BY ObjectAcceptable
<1> QED  BY <1>1, PTL

\* Fallback chooses a message, and so ends parsing.
LEMMA InvFallback ==
  ASSUME RecordInv, Fallback
  PROVE  RecordInv'
<1>1. /\ UNCHANGED <<line, clock, todo>> /\ pc = "fields" /\ pc' = "enrich" /\ todo = {}
      /\ line \in Line /\ DOMAIN rec = Fields /\ IsJson
  BY FieldNames DEF Fallback, RecordInv, Parsing, TypeOK
<1> DEFINE use(k) == <<k, k>> \in FieldsOf(line)
<1>2. \/ rec.message # "" /\ rec' = rec
      \/ rec.message = "" /\ use("log") /\ rec' = [rec EXCEPT !.message = "log"]
      \/ rec.message = "" /\ ~use("log") /\ use("text") /\ rec' = [rec EXCEPT !.message = "text"]
      \/ rec.message = "" /\ ~use("log") /\ ~use("text") /\ rec' = rec
  BY DEF Fallback
<1>3. /\ DOMAIN rec' = Fields
      /\ \A f \in Fields \ {"message"} : rec'[f] = rec[f]
      /\ \/ rec.message # "" /\ rec'.message = rec.message
         \/ rec.message = "" /\ use("log") /\ rec'.message = "log"
         \/ rec.message = "" /\ use("text") /\ rec'.message = "text"
         \/ rec.message = "" /\ ~use("log") /\ ~use("text") /\ rec'.message = ""
  BY <1>1, <1>2 DEF Fields
<1>4. TypeOK'
  BY <1>1, <1>3, FieldNames DEF RecordInv, TypeOK, Fields, FieldsOf
<1>5. Applied' = Applied /\ Times' = Times /\ IsObject' = IsObject /\ WellFormed' = WellFormed
      /\ todo' = {} /\ Done'
  BY <1>1, SameLine DEF Applied, Done
<1>6. IsObject => Shown'
  BY <1>1, <1>3, <1>5 DEF RecordInv, Parsing, Shown, Shows, FirstClass, Fields
<1>7. IsObject => MessageChosen'
  <2> SUFFICES ASSUME IsObject
               PROVE  MessageChosen'
    OBVIOUS
  <2> DEFINE own  == Written("message")
             rest == {k \in {"log", "text"} : <<k, k>> \in line.fields}
  <2>1. own' = own /\ rest' = rest
    BY <1>1 DEF Written, FieldsOf
  <2>2. Taken(rec.message, own)
    BY <1>1, AllWritten DEF RecordInv, Parsing, Done
  <2>3. /\ use("log") => "log" \in rest
        /\ use("text") => "text" \in rest
        /\ ~use("log") /\ ~use("text") => rest = {}
    BY DEF FieldsOf, IsObject
  <2> QED  BY <1>3, <2>1, <2>2, <2>3 DEF MessageChosen, Taken
<1>8. WellFormed' /\ IsObject' => Acceptable'
  BY <1>4, <1>5, <1>6, <1>7, ObjectAcceptableNext
<1>9. WellFormed' => IsObject'
  BY <1>1, <1>5 DEF WellFormed, IsObject, IsJson
<1> QED
  BY <1>1, <1>4, <1>5, <1>6, <1>7, <1>8, <1>9
  DEF RecordInv, Parsing, Shipping, WellFormedKept

\* The smallest of a single index.
LEMMA OnlyOne ==
  ASSUME NEW S, NEW n \in Int, S = {n}
  PROVE  (CHOOSE i \in S : \A j \in S : i <= j) = n
  OBVIOUS

\* The metadata keys that may give a trace id, in the order in which they are tried.
TraceKeys == <<"trace_id", "traceid", "x-trace-id">>

\* Its three places.
LEMMA TraceKeysAre ==
  /\ DOMAIN TraceKeys = {1, 2, 3}
  /\ TraceKeys[1] = "trace_id" /\ TraceKeys[2] = "traceid" /\ TraceKeys[3] = "x-trace-id"
  BY DEF TraceKeys

\* A trace id that is there stays; one that is missing is the header's where the
\* other keys have none.
LEMMA PromoteIs ==
  ASSUME NEW v, NEW r
  PROVE  Meta(r, "trace_id") = "" /\ Meta(r, "traceid") = "" =>
           Promote(v, r, TraceKeys) = IF v # "" THEN v ELSE Meta(r, "x-trace-id")
<1> DEFINE found    == {i \in DOMAIN TraceKeys : Meta(r, TraceKeys[i]) # ""}
           first(S) == CHOOSE i \in S : \A j \in S : i <= j
<1>1. first({3}) = 3
  BY OnlyOne
<1>2. Promote(v, r, TraceKeys) =
        IF v # "" \/ found = {} THEN v ELSE Meta(r, TraceKeys[first(found)])
  BY DEF Promote
<1> HIDE DEF first
<1>3. ASSUME Meta(r, "trace_id") = "", Meta(r, "traceid") = ""
      PROVE  found = IF Meta(r, "x-trace-id") # "" THEN {3} ELSE {}
  BY <1>3, TraceKeysAre
<1> HIDE DEF found
<1> QED  BY <1>1, <1>2, <1>3, TraceKeysAre

\* What the metadata of a parsed JSON message says of the trace id.
LEMMA HeaderIs ==
  ASSUME TypeOK, IsObject, Done, Shown
  PROVE  /\ Meta(rec, "trace_id") = "" /\ Meta(rec, "traceid") = ""
         /\ Meta(rec, "x-trace-id") \in {"", "x-trace-id"}
         /\ <<"x-trace-id", "x-trace-id">> \in line.fields
              => Meta(rec, "x-trace-id") = "x-trace-id"
<1>1. /\ FieldOf("trace_id") = "trace_id" /\ FieldOf("traceid") = "trace_id"
      /\ FieldOf("x-trace-id") = "metadata"
  BY DEF FieldOf, Lower
<1>2. /\ Applied = line.fields /\ FieldsOf(line) = line.fields /\ line \in Line
      /\ line.fields \in Object
  BY AllWritten, LineIs DEF FieldsOf, IsObject, TypeOK
<1>3. /\ \A p \in line.fields : FieldOf(p[1]) = "metadata" => p[1] \in DOMAIN rec.metadata
      /\ \A k \in DOMAIN rec.metadata \ {"container_name"} :
           FieldOf(k) = "metadata" /\ <<k, rec.metadata[k]>> \in line.fields
  BY <1>2 DEF Shown, Shows
<1>4. Meta(rec, "trace_id") = "" /\ Meta(rec, "traceid") = ""
  BY <1>1, <1>3 DEF Meta
<1> DEFINE k == "x-trace-id"
           p == <<k, rec.metadata[k]>>
<1>5. CASE k \in DOMAIN rec.metadata
  <2>1. p \in line.fields /\ p[1] = k /\ p[2] = rec.metadata[k] /\ Meta(rec, k) = p[2]
    BY <1>3, <1>5 DEF Meta
  <2>2. p[2] \in {"", k}
    BY <1>1, <1>2, <2>1, PairIs DEF IsObject
  <2>3. ASSUME <<k, k>> \in line.fields
        PROVE  p[2] = k
    <3> DEFINE q == <<k, k>>
    <3>1. q[1] = p[1] /\ q[2] = k /\ q \in line.fields
      BY <2>1, <2>3
    <3>2. p = q
      BY <1>2, <2>1, <3>1, ObjectIs
    <3> QED  BY <3>1, <3>2
  <2> QED  BY <1>4, <2>1, <2>2, <2>3
<1>6. CASE k \notin DOMAIN rec.metadata
  <2>1. <<k, k>> \notin line.fields
    BY <1>1, <1>3, <1>6
  <2> QED  BY <1>4, <1>6, <2>1 DEF Meta
<1> QED  BY <1>5, <1>6

\* Enrich fills what is missing and changes nothing that was written.
LEMMA InvEnrich ==
  ASSUME RecordInv, Enrich
  PROVE  RecordInv'
<1> DEFINE r == [rec EXCEPT !.metadata = Assign(@, "host", "host")]
<1>1. /\ UNCHANGED <<line, clock, todo>> /\ pc = "enrich" /\ pc' = "send" /\ Done
      /\ DOMAIN rec = Fields
      /\ rec' = [r EXCEPT
                  !.service  = Service(r),
                  !.trace_id = Promote(@, r, <<"trace_id", "traceid", "x-trace-id">>),
                  !.span_id  = Promote(@, r, <<"span_id", "spanid", "x-span-id">>),
                  !.feature  = Promote(@, r, <<"feature", "x-feature-flag", "feature_flag">>)]
  BY FieldNames DEF Enrich, RecordInv, Parsing, TypeOK, Done
<1>2. /\ DOMAIN r = Fields /\ \A f \in Fields \ {"metadata"} : r[f] = rec[f]
      /\ r.metadata = Assign(rec.metadata, "host", "host")
  BY <1>1 DEF Fields
<1> HIDE DEF r
<1>3. /\ DOMAIN rec' = Fields /\ rec'.message = rec.message /\ rec'.level = rec.level
      /\ rec'.timestamp = rec.timestamp
      /\ rec'.trace_id = Promote(rec.trace_id, r, TraceKeys)
  BY <1>1, <1>2 DEF Fields, TraceKeys
<1>4. \A k : k # "host" => Meta(r, k) = Meta(rec, k)
  BY <1>2 DEF Meta, Assign
<1>5. ASSUME IsObject
      PROVE  Traced'
  <2>1. /\ TypeOK /\ Shown
    BY <1>1, <1>5 DEF RecordInv, Parsing
  <2>2. rec'.trace_id = IF rec.trace_id # "" THEN rec.trace_id ELSE Meta(rec, "x-trace-id")
    <3>1. Meta(r, "trace_id") = "" /\ Meta(r, "traceid") = ""
      BY <1>1, <1>4, <1>5, <2>1, HeaderIs
    <3> QED  BY <1>3, <1>4, <3>1, PromoteIs
  <2>3. Taken(rec.trace_id, Written("trace_id"))
    BY <1>1, <2>1, AllWritten DEF Shown, Shows, FirstClass
  <2>4. /\ Meta(rec, "x-trace-id") \in {"", "x-trace-id"}
        /\ <<"x-trace-id", "x-trace-id">> \in line.fields
             => Meta(rec, "x-trace-id") = "x-trace-id"
    BY <1>1, <1>5, <2>1, HeaderIs
  <2>5. Written("trace_id")' = Written("trace_id") /\ line' = line
    BY <1>1 DEF Written, FieldsOf
  <2> QED  BY <2>2, <2>3, <2>4, <2>5 DEF Traced, Taken
<1>6. TypeOK'
  BY <1>1, <1>3, FieldNames DEF RecordInv, TypeOK, FieldsOf
<1>7. WellFormed' = WellFormed /\ IsObject' = IsObject /\ (WellFormed => Acceptable')
  BY <1>1, <1>3, SameLine DEF RecordInv, Shipping, Acceptable
<1> QED
  BY <1>1, <1>5, <1>6, <1>7 DEF RecordInv, Parsing, Shipping, WellFormedKept, Done

\* A step that leaves the trace id leaves Traced.
LEMMA TracedKept ==
  ASSUME UNCHANGED <<line, clock>>, rec'.trace_id = rec.trace_id
  PROVE  Traced' = Traced
  BY DEF Traced, Written, FieldsOf

\* The wire changes the time only, and that only where it is out of range.
LEMMA InvSend ==
  ASSUME RecordInv, Send
  PROVE  RecordInv'
<1>1. PICK t \in IF rec.timestamp = "far" THEN {"wrapped", "future"} ELSE {rec.timestamp} :
        rec' = [rec EXCEPT !.timestamp = t]
  BY DEF Send
<1>2. /\ UNCHANGED <<line, clock, todo>> /\ pc = "send" /\ pc' = "validate" /\ DOMAIN rec = Fields
  BY FieldNames DEF Send, RecordInv, TypeOK
<1>3. /\ DOMAIN rec' = Fields /\ rec'.timestamp = t
      /\ \A f \in Fields \ {"timestamp"} : rec'[f] = rec[f]
  BY <1>1, <1>2 DEF Fields
<1>4. TypeOK'
  BY <1>1, <1>2, <1>3, FieldNames DEF RecordInv, TypeOK, FieldsOf, Fields
<1>5. Traced' = Traced /\ WellFormed' = WellFormed /\ IsObject' = IsObject
  BY <1>2, <1>3, SameLine, TracedKept DEF Fields
<1>6. WellFormed => Acceptable'
  BY <1>1, <1>2, <1>3 DEF RecordInv, Shipping, Acceptable, Fields
<1> QED
  BY <1>2, <1>4, <1>5, <1>6 DEF RecordInv, Parsing, Shipping, WellFormedKept

\* An acceptable record does not keep its batch from being sent.
LEMMA InvUnsent ==
  ASSUME RecordInv, Unsent
  PROVE  RecordInv'
<1>1. /\ UNCHANGED <<line, clock, rec, todo>> /\ pc = "send" /\ pc' \in {"dropped", "spoilt"}
      /\ pc' = "dropped" => rec.message = "cut"
  BY DEF Unsent
<1>2. TypeOK'
  BY <1>1, FieldNames DEF RecordInv, TypeOK, FieldsOf
<1>3. WellFormed' = WellFormed
  BY <1>1, SameLine
<1> QED
  BY <1>1, <1>2, <1>3 DEF RecordInv, Parsing, Shipping, Acceptable, WellFormedKept

\* An acceptable record is not dropped.
LEMMA InvValidate ==
  ASSUME RecordInv, ValidateRecord
  PROVE  RecordInv'
<1>1. /\ UNCHANGED <<line, clock, rec, todo>> /\ pc = "validate"
      /\ pc' = IF Valid(rec) THEN "process" ELSE "dropped"
  BY DEF ValidateRecord
<1>2. TypeOK'
  BY <1>1, FieldNames DEF RecordInv, TypeOK, FieldsOf
<1>3. Traced' = Traced /\ WellFormed' = WellFormed /\ IsObject' = IsObject
  BY <1>1, SameLine, TracedKept
<1>4. Acceptable => Valid(rec)
  BY DEF Acceptable, Valid
<1> QED
  BY <1>1, <1>2, <1>3, <1>4 DEF RecordInv, Parsing, Shipping, WellFormedKept, Valid

\* What Process changes of a record that the ingest API accepted.
LEMMA ProcessIs ==
  ASSUME RecordInv, Process
  PROVE  /\ DOMAIN rec = Fields /\ DOMAIN rec' = Fields
         /\ \A f \in Fields \ {"metadata"} : rec'[f] = rec[f]
         /\ rec'.metadata = Assign(rec.metadata, "processed_at", "now")
<1>1. /\ DOMAIN rec = Fields /\ rec.level \in Level
      /\ rec' = [rec EXCEPT !.level = StoredLevel(@),
                            !.metadata = Assign(@, "processed_at", "now")]
  BY FieldNames DEF Process, RecordInv, TypeOK, Shipping
<1>2. StoredLevel(rec.level) = rec.level
  BY <1>1 DEF StoredLevel, Level
<1> QED  BY <1>1, <1>2 DEF Fields

\* A record is stored under the trace id it came with.
LEMMA InvProcess ==
  ASSUME RecordInv, Process
  PROVE  RecordInv'
<1>1. UNCHANGED <<line, clock, todo>> /\ pc = "process" /\ pc' = "stored"
  BY DEF Process
<1>2. TypeOK'
  BY <1>1, ProcessIs, FieldNames DEF RecordInv, TypeOK, FieldsOf, Fields
<1>3. Traced' = Traced /\ WellFormed' = WellFormed /\ IsObject' = IsObject
  BY <1>1, SameLine, TracedKept, ProcessIs DEF Fields
<1> QED
  BY <1>1, <1>2, <1>3 DEF RecordInv, Parsing, Shipping, WellFormedKept

\* RecordInv is inductive.
LEMMA InvNext ==
  ASSUME RecordInv, [Next]_vars
  PROVE  RecordInv'
<1>1. CASE UNCHANGED vars
  <2>1. UNCHANGED <<line, clock, rec, todo, pc>>
    BY <1>1 DEF vars
  <2>2. TypeOK'
    BY <2>1, FieldNames DEF RecordInv, TypeOK, FieldsOf
  <2>3. /\ WellFormed' = WellFormed /\ IsObject' = IsObject /\ IsJson' = IsJson
        /\ Traced' = Traced /\ Applied' = Applied /\ Times' = Times
        /\ NewRecord' = NewRecord /\ Acceptable' = Acceptable /\ MessageChosen' = MessageChosen
    BY <2>1, SameLine, TracedKept
    DEF Applied, NewRecord, Acceptable, MessageChosen, Written, FieldsOf
  <2> QED
    BY <2>1, <2>2, <2>3 DEF RecordInv, Parsing, Shown, Shipping, WellFormedKept
<1>2. CASE Next
  BY <1>2, InvParse, InvParseField, InvFallback, InvEnrich, InvSend, InvUnsent,
         InvValidate, InvProcess
  DEF Next
<1> QED  BY <1>1, <1>2

\* On its way from Docker to the table a record shows the fields applied so far, keeps
\* its trace id, and stays acceptable if its line was well formed.
THEOREM RecordInvariant == Spec => []RecordInv
  BY InvInit, InvNext, PTL DEF Spec

----------------------------------------------------------------------------
(* The properties. *)

\* A record has the fields of a record and values of their kinds at every stage.
THEOREM RecordTypeCorrect == Spec => []TypeOK
<1>1. RecordInv => TypeOK
  BY DEF RecordInv
<1> QED  BY <1>1, RecordInvariant, PTL

\* Whatever the order of the fields, the parser makes of a JSON message what was
\* written in it, for messages of any number of fields.
THEOREM RecordParsedAsWritten == Spec => []ParsedAsWritten
<1>1. ASSUME RecordInv
      PROVE  ParsedAsWritten
  <2> SUFFICES ASSUME pc = "enrich", IsObject
               PROVE  ParsedAsWritten
    BY DEF ParsedAsWritten, IsObject
  <2>1. MessageChosen /\ Shown /\ Done
    BY <1>1 DEF RecordInv, Parsing, Done
  <2>2. \A f : ValuesIn(Applied, f) = Written(f)
    BY <2>1, AllWritten
  <2>3. \A f \in FirstClass : Taken(rec[f], Written(f))
    BY <2>1, <2>2 DEF Shown, Shows
  <2>4. Taken(rec.level, {NormalizeLevel(w) : w \in Written("level")})
    BY <2>1, <2>2 DEF Shown, Shows
  <2>5. \A f \in FirstClass : rec[f] \in Written(f) \/ Written(f) \cup {rec[f]} = {""}
    BY <2>3 DEF Taken
  <2>6. Written("level") # {} => rec.level \in {NormalizeLevel(w) : w \in Written("level")}
    BY <2>4 DEF Taken
  <2> QED  BY <2>1, <2>5, <2>6 DEF ParsedAsWritten, MessageChosen
<1> QED  BY <1>1, RecordInvariant, PTL

\* The trace id written in a log is the one its record is stored under, unless one of
\* its trace-id keys is empty; a header's counts where the log gives none.
THEOREM RecordTraceKept == Spec => []TraceKept
<1>1. RecordInv => TraceKept
  BY DEF RecordInv, Shipping, Traced, TraceKept, IsObject
<1> QED  BY <1>1, RecordInvariant, PTL

\* No line of UTF-8 with a message, a known level and a time not in the future is
\* dropped, unless its batch is for the sake of another.
THEOREM RecordWellFormedKept == Spec => []WellFormedKept
<1>1. RecordInv => WellFormedKept
  BY DEF RecordInv
<1> QED  BY <1>1, RecordInvariant, PTL

\* The processor's stages leave alone what the ingest API accepted, but for the time
\* of processing.
THEOREM RecordProcessKeeps == Spec => ProcessKeeps
<1>1. ASSUME RecordInv, Process
      PROVE  /\ \A f \in DOMAIN rec \ {"metadata"} : rec'[f] = rec[f]
             /\ \A k \in DOMAIN rec.metadata \ {"processed_at"} :
                  rec'.metadata[k] = rec.metadata[k]
  BY <1>1, ProcessIs DEF Assign
<1>2. RecordInv /\ [Next]_vars =>
        [Process => /\ \A f \in DOMAIN rec \ {"metadata"} : rec'[f] = rec[f]
                    /\ \A k \in DOMAIN rec.metadata \ {"processed_at"} :
                         rec'.metadata[k] = rec.metadata[k]]_vars
  BY <1>1
<1> QED  BY <1>2, RecordInvariant, PTL DEF Spec, ProcessKeeps
=============================================================================
