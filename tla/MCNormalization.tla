-------------------------- MODULE MCNormalization ---------------------------
(***************************************************************************)
(* Three packs: one for firewalls (nested and prefixed paths, two fields   *)
(* of one object), one that matches by a word and maps two fields to one   *)
(* target, and one whose criteria overlap with the others'.                *)
(***************************************************************************)
EXTENDS Normalization

Rule(from, type, required) == [from |-> from, type |-> type, required |-> required]

Firewall ==
    [ name |-> "firewall", format |-> "*", contains |-> {}, regex |-> {"word"}, equals |-> <<>>, preserve |-> TRUE,
      fields |-> [ ip |-> Rule(<<"payload", "src">>, "ip", TRUE), port |-> Rule(<<"port">>, "integer", FALSE),
                   when |-> Rule(<<"time">>, "timestamp", FALSE), who |-> Rule(<<"user", "name">>, "string", FALSE) ],
      map |-> [ ip |-> <<"src_endpoint", "ip">>, port |-> <<"src_endpoint", "port">>, when |-> <<"time">>,
                who |-> <<"actor", "user", "name">> ] ]

Keyword ==
    [ name |-> "keyword", format |-> "json", contains |-> {"true"}, regex |-> {}, equals |-> <<>>, preserve |-> FALSE,
      fields |-> [ a |-> Rule(<<"port">>, "float", FALSE), b |-> Rule(<<"level">>, "integer", TRUE),
                   c |-> Rule(<<"flag">>, "boolean", FALSE) ],
      map |-> [ a |-> <<"severity_id">>, b |-> <<"severity_id">>, c |-> <<"message">> ] ]

ByField ==
    [ name |-> "byfield", format |-> "text", contains |-> {}, regex |-> {}, preserve |-> TRUE,
      equals |-> (<<"level">> :> "small"),
      fields |-> [ l |-> Rule(<<"level">>, "integer", TRUE), c |-> Rule(<<"message">>, "string", FALSE) ],
      map |-> [ l |-> <<"severity_id">>, c |-> <<"category_name">> ] ]

MCSnapshots == {<<>>, <<Firewall>>, <<Keyword, Firewall>>, <<ByField, Firewall, Keyword>>}

Str(t) == [type |-> "string", text |-> t]
Flt(t) == [type |-> "float", text |-> t]

Option(path, vs) == { <<>> } \cup { (path :> v) : v \in vs }

MCContents ==
    { [fields |-> a @@ b @@ c @@ d @@ e, headers |-> (<<"flag">> :> Str("true")), raw |-> r] :
        a \in Option(<<"src">>, {Str("ip"), Str("word")}) \cup {(<<"payload", "src">> :> Str("ip")) @@ (<<"src">> :> Str("word"))},
        b \in Option(<<"port">>, {Str("small"), Flt("big")}),
        c \in Option(<<"time">>, {Str("date"), Flt("negative"), Absent}),
        d \in Option(<<"level">>, {Str("small"), Str("big")}),
        e \in { (<<"user", "name">> :> Str("word")) @@ (<<"user", "id">> :> Flt("small")),
                (<<"message">> :> Str("word")), (<<"message">> :> Str("taxonomy")) },
        r \in {{"word"}, {"true"}} }

=============================================================================
