----------------------------- MODULE Detection ------------------------------
(***************************************************************************)
(* Format detection: the Detect function of each decoder, the ranking of   *)
(* internal/decode/detect.go and what Decode may return.                   *)
(*                                                                         *)
(* A payload is abstracted to what the Detect functions test:              *)
(*   lead   how it starts                                                  *)
(*   bom    a byte order mark comes first                                 *)
(*   cef    it has "CEF:0|" or "CEF:1|" somewhere; leef likewise           *)
(*   table  "rows": two lines with the same number of delimiters, "row": a *)
(*          single line that reads as a row, "no"                          *)
(*   line   what the text decoder sees ("binary": not UTF-8)               *)
(* Confidence is in hundredths.                                            *)
(***************************************************************************)
EXTENDS Integers, Sequences, SequencesExt

SyslogLead == {"rfc5424", "rfc3164", "pri"}
JsonLead == {"object", "array", "bracket"}         \* bracket: "[" that opens no JSON array
XmlLead == {"declaration", "element", "unclosed", "markup"}
LeefLead == {"leef1", "leef"}                      \* leef1: a version LEEF defines

Payload ==
    { p \in [lead : SyslogLead \cup JsonLead \cup XmlLead \cup LeefLead \cup {"cef", "other"},
             bom : BOOLEAN, cef : BOOLEAN, leef : BOOLEAN, table : {"rows", "row", "no"},
             line : {"binary", "clf", "known", "pairs", "plain"}] :
        /\ p.line = "known" => p.lead = "other"
        /\ p.lead = "leef1" => p.leef
        /\ p.bom => p.lead \in XmlLead }   \* only the XML decoder strips it

DetectSyslog(p) ==
    CASE p.lead = "rfc5424" -> 98 [] p.lead = "rfc3164" -> 95 [] p.lead = "pri" -> 85 [] OTHER -> 0

DetectJSON(p) ==
    CASE p.lead = "object" -> 95 [] p.lead = "array" -> 90 [] OTHER -> 0

DetectXML(p) ==
    CASE p.lead = "declaration" -> 95 [] p.lead = "element" -> 90 [] p.lead = "unclosed" -> 60 [] OTHER -> 0

DetectCSV(p) ==
    CASE p.lead \in SyslogLead \cup JsonLead \cup XmlLead \cup {"cef"} /\ ~p.bom -> 0
      [] p.table = "rows" -> 85
      [] p.table = "row" -> 55
      [] OTHER -> 0

DetectCEF(p) == CASE p.lead = "cef" -> 99 [] p.cef -> 85 [] OTHER -> 0

DetectLEEF(p) ==
    CASE p.lead = "leef1" -> 99 [] p.lead = "leef" -> 95 [] p.leef -> 85 [] OTHER -> 0

DetectText(p) ==
    CASE p.line = "binary" -> 0 [] p.line = "clf" -> 85 [] p.line = "known" -> 80
      [] p.line = "pairs" -> 65 [] OTHER -> 51

\* The decoders in the order of DefaultRegistry, and their names in alphabetical order.
DefaultRegistry == <<"syslog", "json", "xml", "csv", "cef", "leef", "text">>
Alphabetical == <<"cef", "csv", "json", "leef", "syslog", "text", "xml">>

Detect(d, p) ==
    CASE d = "syslog" -> DetectSyslog(p) [] d = "json" -> DetectJSON(p) [] d = "xml" -> DetectXML(p)
      [] d = "csv" -> DetectCSV(p) [] d = "cef" -> DetectCEF(p) [] d = "leef" -> DetectLEEF(p)
      [] d = "text" -> DetectText(p)

\* The place of a decoder in the alphabet.
Place(d) == CHOOSE i \in DOMAIN Alphabetical : Alphabetical[i] = d

\* Mutant: equal scores in alphabetical order only.
BeforeByName(c, d, p) ==
    \/ Detect(c, p) > Detect(d, p)
    \/ Detect(c, p) = Detect(d, p) /\ Place(c) < Place(d)

\* The comparison DetectRanked sorts by.
Before(c, d, p) ==
    \/ Detect(c, p) > Detect(d, p)
    \/ /\ Detect(c, p) = Detect(d, p) /\ c # d
       /\ \/ d = "text"
          \/ /\ c # "text"
             /\ c = "syslog" \/ (d # "syslog" /\ Place(c) < Place(d))

\* The decoders that reach 0.50, sorted: as many come before the n-th of them as there are places before n.
DetectRanked(p) ==
    LET Results == { d \in Range(DefaultRegistry) : Detect(d, p) >= 50 }
    IN [ n \in 1..Cardinality(Results) |->
           CHOOSE d \in Results : Cardinality({ c \in Results : Before(c, d, p) }) = n - 1 ]

\* True ambiguity: the two best score the same, neither is text and the first is not syslog.
Ambiguous(ranked, p) ==
    /\ Len(ranked) > 1
    /\ Detect(ranked[1], p) = Detect(ranked[2], p)
    /\ ranked[1] \notin {"text", "syslog"} /\ ranked[2] # "text"

\* The formats of the records Decode may return. A syslog message whose body is another format is
\* decoded as that one; the other decoders have a single format.
SyslogFormats(p) ==
    {IF p.lead = "rfc5424" THEN "syslog_rfc5424" ELSE "syslog_rfc3164",
     "cef", "leef", "json", "json_array", "ndjson", "xml"}

JSONFormats(p) == IF p.lead = "array" THEN {"json_array"} ELSE {"json", "ndjson"}

TextFormats(p) == {IF p.line = "clf" THEN "text_clf" ELSE "text"}

Formats(d, p) ==
    CASE d = "syslog" -> SyslogFormats(p)
      [] d = "json" -> JSONFormats(p)
      [] d = "text" -> TextFormats(p)
      [] OTHER -> {d}

=============================================================================
