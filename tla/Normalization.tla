--------------------------- MODULE Normalization ----------------------------
(***************************************************************************)
(* One record on its way through the processing stages of the pipeline     *)
(* (processEvent): detection and decoding, the match against the packs of  *)
(* the snapshot (internal/packs/snapshot.go, pack.go), extraction and      *)
(* conversion (extract.go), the OCSF event (internal/normalize).           *)
(*                                                                         *)
(* Go visits the entries of a map in any order, so every pass through the  *)
(* declared fields and through the mapping is a sequence of steps here.    *)
(*                                                                         *)
(* A value is [type, text]: its Go type, and what its text reads as. A key *)
(* of a nested object is a path of two names. Contents are chosen when the *)
(* record is decoded.                                                      *)
(***************************************************************************)
EXTENDS Detection, FiniteSets, Functions

CONSTANTS
    Snapshots,  \* the pack lists that may be active
    Contents    \* the [fields, headers, raw] a record may be decoded to

\* What a text reads as; each number but "negative" is a valid time, only "small" a port or severity.
Number == {"small", "big", "negative"}
Text == Number \cup {"ip", "date", "true", "word", "taxonomy", "empty"}
GoType == {"string", "int", "float", "bool", "nil"}
Value == [type : GoType, text : Text]
Absent == [type |-> "nil", text |-> "empty"]

\* Target paths are governed by internal/ocsf: none is a prefix of another.
Target == { <<"time">>, <<"category_name">>, <<"class_name">>, <<"severity_id">>, <<"message">>,
            <<"src_endpoint", "ip">>, <<"src_endpoint", "port">>,
            <<"dst_endpoint", "ip">>, <<"dst_endpoint", "port">>, <<"actor", "user", "name">> }

\* Validate: at least one criterion, known types, and sources of the mapping that are declared.
ValidPack(p) ==
    /\ p.contains # {} \/ p.regex # {} \/ p.equals # <<>>
    /\ \A f \in DOMAIN p.fields :
         /\ p.fields[f].from # <<>>
         /\ p.fields[f].type \in {"ip", "integer", "float", "timestamp", "string", "boolean"}
    /\ \A f \in DOMAIN p.map : f \in DOMAIN p.fields /\ p.map[f] \in Target

\* NewSnapshot: the packs it is built from were validated, and no name occurs twice.
ValidSnapshot(s) ==
    /\ s \in Seq(Range(s))
    /\ \A i \in DOMAIN s : ValidPack(s[i])
    /\ \A i, j \in DOMAIN s : s[i].name = s[j].name => i = j

ASSUME NormalizationAssumption ==
    /\ \A s \in Snapshots : ValidSnapshot(s)
    /\ \A c \in Contents : Range(c.fields) \cup Range(c.headers) \subseteq Value

VARIABLES
    payload,    \* the raw event, until it is decoded
    managed,    \* the pipeline has a pack manager
    snap,       \* the packs of its active snapshot, in their order
    stage,      \* the stage the record is in
    rec,        \* [format, fields, headers, raw] once decoded
    pack,       \* the pack that matched
    todo,       \* entries of the map that the loop has not visited yet
    extracted,  \* [field name -> converted value]
    consumed,   \* consumedSourceFields
    event,      \* the OCSF event: [path -> value]
    unmapped,   \* its "unmapped" object: names of top-level fields
    outcome     \* the stage and reason of the quarantine row, or Normalized

vars == <<payload, managed, snap, stage, rec, pack, todo, extracted, consumed, event, unmapped, outcome>>

NoRecord == [format |-> "none", fields |-> <<>>, headers |-> <<>>, raw |-> {}]
NoPayload == [lead |-> "none"]
NoPack == [name |-> "none"]
Pending == <<"process", "pending">>
Normalized == <<"validate", "ok">>

Init ==
    /\ payload \in Payload /\ managed \in BOOLEAN
    /\ snap \in IF managed THEN Snapshots ELSE {<<>>}
    /\ stage = "detect" /\ outcome = Pending
    /\ rec = NoRecord /\ pack = NoPack
    /\ todo = {} /\ extracted = <<>> /\ consumed = {} /\ event = <<>> /\ unmapped = {}

\* The names of the top-level fields of a record.
TopLevel(r) == { k[1] : k \in DOMAIN r.fields }

\* The value at a path of an event.
At(e, path) == IF path \in DOMAIN e THEN e[path] ELSE Absent

\* The function g with the value v at x.
Put(g, x, v) == [ y \in DOMAIN g \cup {x} |-> IF y = x THEN v ELSE g[y] ]

\* The receive time, and the names OCSF gives the source category (enrichTaxonomyDefaults).
Default(k) == IF k = "time" THEN [type |-> "int", text |-> "big"] ELSE [type |-> "string", text |-> "taxonomy"]

\* Defaults for the names an event does not have. A pack's map never yields a null.
WithDefaults(e, names) ==
    LET Lacking == { n \in names : \A p \in DOMAIN e : p[1] # n }
    IN [ q \in DOMAIN e \cup { <<k>> : k \in Lacking } |-> IF q \in DOMAIN e THEN e[q] ELSE Default(q[1]) ]

Quarantine(at, reason) == stage' = "done" /\ outcome' = <<at, reason>>

-----------------------------------------------------------------------------
(* Detection and decoding *)

\* No decoder reaches 0.50, or the two best tie.
NotDetected ==
    /\ stage = "detect"
    /\ LET ranked == DetectRanked(payload) IN ranked = <<>> \/ Ambiguous(ranked, payload)
    /\ Quarantine("format_detect", "parse_error")
    /\ UNCHANGED <<payload, managed, snap, rec, pack, todo, extracted, consumed, event, unmapped>>

Detected ==
    /\ stage = "detect"
    /\ LET ranked == DetectRanked(payload)
       IN /\ ranked # <<>> /\ ~Ambiguous(ranked, payload)
          /\ stage' = ranked[1]
    /\ UNCHANGED <<payload, managed, snap, rec, pack, todo, extracted, consumed, event, unmapped, outcome>>

Decoding == stage \in Range(DefaultRegistry)

\* The payload is malformed or over a limit of limits.go.
DecodeFails ==
    /\ Decoding /\ Quarantine("decode", "parse_error")
    /\ UNCHANGED <<payload, managed, snap, rec, pack, todo, extracted, consumed, event, unmapped>>

Decode ==
    /\ Decoding
    /\ \E f \in Formats(stage, payload), c \in Contents :
         rec' = [format |-> f, fields |-> c.fields, headers |-> c.headers, raw |-> c.raw]
    /\ stage' = "match" /\ payload' = NoPayload
    /\ UNCHANGED <<managed, snap, pack, todo, extracted, consumed, event, unmapped, outcome>>

-----------------------------------------------------------------------------
(* Matching *)

\* TrimPrefix(key, "payload.")
Trimmed(path) == IF Len(path) > 1 /\ path[1] = "payload" THEN Tail(path) ELSE path

\* The value at a path: in the fields under the path as written, then without its "payload." prefix,
\* then in the headers. A null that is found stops the search.
LookupField(r, path) ==
    CASE path \in DOMAIN r.fields -> r.fields[path]
      [] path \notin DOMAIN r.fields /\ Trimmed(path) \in DOMAIN r.fields -> r.fields[Trimmed(path)]
      [] {path, Trimmed(path)} \cap DOMAIN r.fields = {} /\ path \in DOMAIN r.headers -> r.headers[path]
      [] {path, Trimmed(path)} \cap DOMAIN r.fields = {} /\ path \notin DOMAIN r.headers
         /\ Trimmed(path) \in DOMAIN r.headers -> r.headers[Trimmed(path)]
      [] OTHER -> Absent

FormatFamily(f) ==
    CASE f = "syslog" -> {"syslog", "syslog_rfc5424", "syslog_rfc3164"}
      [] f = "json" -> {"json", "json_array", "ndjson"}
      [] f = "text" -> {"text", "text_clf"}
      [] OTHER -> {f}

\* Every criterion the pack declares holds. A regex reads the message, or the raw bytes if there is none.
Matches(p, r) ==
    /\ p.format = "*" \/ r.format \in FormatFamily(p.format)
    /\ \A w \in p.contains : w \in r.raw \/ \E k \in DOMAIN r.fields : r.fields[k].text = w
    /\ \A k \in DOMAIN p.equals : LookupField(r, k).type # "nil" /\ LookupField(r, k).text = p.equals[k]
    /\ \A w \in p.regex :
         LET message == LookupField(r, <<"message">>)
         IN IF <<"message">> \in DOMAIN r.fields /\ message.type = "string" /\ message.text # "empty"
              THEN message.text = w
              ELSE w \in r.raw

\* Where the packs that match are in the snapshot.
Match == { i \in DOMAIN snap : Matches(snap[i], rec) }

NoMatch ==
    /\ stage = "match" /\ managed /\ Cardinality(Match) # 1
    /\ Quarantine("parser_match", IF Match = {} THEN "unknown_source" ELSE "ambiguous_source")
    /\ UNCHANGED <<payload, managed, snap, rec, pack, todo, extracted, consumed, event, unmapped>>

MatchOne ==
    /\ stage = "match" /\ managed
    /\ \E i \in Match : Match = {i} /\ pack' = snap[i] /\ todo' = DOMAIN snap[i].fields
    /\ stage' = "extract"
    /\ UNCHANGED <<payload, managed, snap, rec, extracted, consumed, event, unmapped, outcome>>

\* Without a pack manager a record passes through as it is; text that is only a message does not.
Unclassified ==
    /\ stage = "match" /\ ~managed
    /\ rec.format = "text" /\ Cardinality(TopLevel(rec)) <= 1
    /\ Quarantine("parser_match", "unknown_source")
    /\ UNCHANGED <<payload, managed, snap, rec, pack, todo, extracted, consumed, event, unmapped>>

PassThrough ==
    /\ stage = "match" /\ ~managed
    /\ rec.format # "text" \/ Cardinality(TopLevel(rec)) > 1
    /\ event' = WithDefaults(rec.fields, {"time", "category_name", "class_name"})
    /\ stage' = "validate"
    /\ UNCHANGED <<payload, managed, snap, rec, pack, todo, extracted, consumed, unmapped, outcome>>

-----------------------------------------------------------------------------
(* Extraction and conversion *)

\* castType: the values of a type, and what they become. A timestamp is epoch milliseconds.
Castable(v, type) ==
    CASE type = "ip" -> v.text = "ip"
      [] type \in {"integer", "float"} -> v.text \in Number
      [] type = "timestamp" -> v.text \in Number \cup {"date"}
      [] type = "boolean" -> v.text = "true"
      [] OTHER -> TRUE

Cast(v, type) ==
    CASE type \in {"ip", "string"} -> [v EXCEPT !.type = "string"]
      [] type = "integer" -> [v EXCEPT !.type = "int"]
      [] type = "float" -> [v EXCEPT !.type = "float"]
      [] type = "boolean" -> [v EXCEPT !.type = "bool"]
      [] type = "timestamp" -> [type |-> "int", text |-> IF v.text = "date" THEN "big" ELSE v.text]

\* Mutant: the object a nested path starts at is marked, not the path.
ConsumedByRoot(rule) == {<<rule.from[1]>>, <<Trimmed(rule.from)[1]>>}

\* The source fields a rule marks as consumed.
ConsumedBy(rule) == {rule.from, Trimmed(rule.from)}

\* A required field that is missing or does not convert rejects the record.
Rejects(rule) ==
    LET v == LookupField(rec, rule.from)
    IN rule.required /\ (v.type = "nil" \/ ~Castable(v, rule.type))

RejectField(f) ==
    /\ stage = "extract" /\ f \in todo /\ Rejects(pack.fields[f])
    /\ Quarantine("normalize", "schema_error")
    /\ UNCHANGED <<payload, managed, snap, rec, pack, todo, extracted, consumed, event, unmapped>>

\* What an optional field that does not convert is worth: its original value.
Extracted(rule) ==
    LET v == LookupField(rec, rule.from)
    IN IF Castable(v, rule.type) THEN Cast(v, rule.type) ELSE v

ExtractField(f) ==
    /\ stage = "extract" /\ f \in todo /\ ~Rejects(pack.fields[f])
    /\ todo' = todo \ {f}
    /\ IF LookupField(rec, pack.fields[f].from).type = "nil"
         THEN UNCHANGED <<extracted, consumed>>
         ELSE /\ extracted' = Put(extracted, f, Extracted(pack.fields[f]))
              /\ consumed' = consumed \cup ConsumedBy(pack.fields[f])
    /\ UNCHANGED <<payload, managed, snap, stage, rec, pack, event, unmapped, outcome>>

\* Top-level fields no rule consumed are kept if the pack asks for it.
PreserveUnmapped ==
    /\ stage = "extract" /\ todo = {}
    /\ unmapped' = IF pack.preserve THEN { k \in TopLevel(rec) : <<k>> \notin consumed } ELSE {}
    /\ stage' = "map" /\ todo' = DOMAIN pack.map
    /\ UNCHANGED <<payload, managed, snap, rec, pack, extracted, consumed, event, outcome>>

-----------------------------------------------------------------------------
(* The OCSF event *)

\* Mutant: an object that exists already is replaced.
SetNestedValueAfresh(e, path, v) == Put(Restrict(e, { q \in DOMAIN e : q[1] # path[1] }), path, v)

\* Sets the value at a path; what is in the way of it, or under it, is overwritten.
SetNestedValue(e, path, v) ==
    Put(Restrict(e, { q \in DOMAIN e : ~IsPrefix(q, path) /\ ~IsPrefix(path, q) }), path, v)

MapField(f) ==
    /\ stage = "map" /\ f \in todo
    /\ todo' = todo \ {f}
    /\ event' = IF f \in DOMAIN extracted THEN SetNestedValue(event, pack.map[f], extracted[f]) ELSE event
    /\ UNCHANGED <<payload, managed, snap, stage, rec, pack, extracted, consumed, unmapped, outcome>>

\* The receive time and the taxonomy of the pack's category, where the event has none.
Enrich ==
    /\ stage = "map" /\ todo = {}
    /\ event' = WithDefaults(event, {"time", "category_name", "class_name", "type_name"})
    /\ stage' = "validate"
    /\ UNCHANGED <<payload, managed, snap, rec, pack, todo, extracted, consumed, unmapped, outcome>>

\* validateEndpoint, for an endpoint that is an object.
EndpointConforms(e, ep) ==
    /\ LET ip == At(e, <<ep, "ip">>) IN ip.type # "nil" => ip.type = "string" /\ ip.text = "ip"
    /\ LET port == At(e, <<ep, "port">>)
       IN port.type # "nil" => port.type \in {"int", "float"} /\ port.text = "small"

\* Validate: the taxonomy is the one of the source category, the time a positive number, and a
\* severity is checked only if it is an integer.
Conforms(e) ==
    /\ \A k \in {"category_name", "class_name"} : At(e, <<k>>).text = "taxonomy"
    /\ At(e, <<"time">>).type \in {"int", "float"} /\ At(e, <<"time">>).text # "negative"
    /\ \A ep \in {"src_endpoint", "dst_endpoint"} : EndpointConforms(e, ep)
    /\ At(e, <<"severity_id">>).type = "int" => At(e, <<"severity_id">>).text = "small"

Validate ==
    /\ stage = "validate" /\ Conforms(event)
    /\ stage' = "done" /\ outcome' = Normalized
    /\ UNCHANGED <<payload, managed, snap, rec, pack, todo, extracted, consumed, event, unmapped>>

ValidateFails ==
    /\ stage = "validate" /\ ~Conforms(event)
    /\ Quarantine("validate", "schema_error")
    /\ UNCHANGED <<payload, managed, snap, rec, pack, todo, extracted, consumed, event, unmapped>>

Next ==
    \/ NotDetected \/ Detected \/ DecodeFails \/ Decode
    \/ NoMatch \/ MatchOne \/ Unclassified \/ PassThrough
    \/ \E f \in todo : RejectField(f) \/ ExtractField(f) \/ MapField(f)
    \/ PreserveUnmapped \/ Enrich \/ Validate \/ ValidateFails

Spec == Init /\ [][Next]_vars

-----------------------------------------------------------------------------
(* Properties *)

\* The decoder that is chosen (DetectRanked, DetectAndDecode) has the best score; it is the text decoder
\* only if no structured one scores as much, and among structured decoders that tie it is syslog, whose
\* envelope may carry the others. A payload is refused only if it has no score of 0.50 or such a tie
\* without syslog.
BestDecoderWins ==
    LET score(d) == Detect(d, payload)
        Best == { d \in Range(DefaultRegistry) : \A c \in Range(DefaultRegistry) : score(c) <= score(d) }
        Structured == Best \ {"text"}
    IN /\ Decoding => /\ stage \in Best /\ score(stage) >= 50
                      /\ stage = "text" => Structured = {}
                      /\ stage # "text" => Structured = {stage} \/ stage = "syslog"
       /\ outcome[1] = "format_detect" =>
            (\A d \in Best : score(d) < 50) \/ (Cardinality(Structured) > 1 /\ "syslog" \notin Structured)

\* Every field that is present is at its target with its converted value (one of them if several have
\* the same target), and nothing else is in the event but defaults.
EventAsDeclared(p) ==
    LET Present == { f \in DOMAIN p.map : LookupField(rec, p.fields[f].from).type # "nil" }
        Filled(q) == { f \in Present : p.map[f] = q }
        Defaults == { <<"time">>, <<"category_name">>, <<"class_name">>, <<"type_name">> }
    IN /\ DOMAIN event = { p.map[f] : f \in Present } \cup Defaults
       /\ \A q \in DOMAIN event :
            IF Filled(q) = {} THEN event[q] = Default(q[1])
            ELSE \E f \in Filled(q) : event[q] = Extracted(p.fields[f])

\* The result of a record is a function of the record and of the set of active packs, whatever order
\* the packs are in and Go visits the fields and the mapping in: exactly one pack matches, the event
\* is the one that pack declares, and it is accepted if and only if it conforms.
OutcomeAsDeclared ==
    stage = "done" /\ managed /\ rec # NoRecord =>
      LET M == { p \in Range(snap) : Matches(p, rec) }
      IN /\ M = {} => outcome = <<"parser_match", "unknown_source">>
         /\ Cardinality(M) > 1 => outcome = <<"parser_match", "ambiguous_source">>
         /\ \A p \in M : M = {p} =>
              IF \E f \in DOMAIN p.fields : Rejects(p.fields[f])
                THEN outcome = <<"normalize", "schema_error">>
                ELSE /\ EventAsDeclared(p)
                     /\ outcome = IF Conforms(event) THEN Normalized ELSE <<"validate", "schema_error">>

\* With preserveUnmapped a source field leaves the event only if a field rule names it, as it is or
\* behind the "payload." prefix: a rule for a part of an object leaves the object in "unmapped".
NothingElseDropped ==
    outcome = Normalized /\ managed /\ pack.preserve =>
      \A k \in TopLevel(rec) \ unmapped : \E f \in DOMAIN pack.fields : Trimmed(pack.fields[f].from) = <<k>>

=============================================================================
