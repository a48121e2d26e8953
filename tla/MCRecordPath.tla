---------------------------- MODULE MCRecordPath ----------------------------
(* Constant values for the model checking of RecordPath. *)
EXTENDS RecordPath

\* Two keys of one field, in two spellings; a header; a key of the agent's own.
Keys == {"msg", "message", "Level", "severity", "trace_id", "traceid", "X-Trace-Id",
         "x-trace-id", "container_name", "ts", "log"}

\* An alias, one the processor knows and the agent does not, none at all.
Words == {"warning", "trace", "notice"}
=============================================================================
