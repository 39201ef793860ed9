---------------------------- MODULE SourceParser ----------------------------
(***************************************************************************)
(* Reading a site's URL source (internal/source/parser.go): parseCSV and   *)
(* parseXML, token by token, over the readers of encoding/csv and          *)
(* encoding/xml.  A file is a list of rows (CSV) or elements (XML); the    *)
(* connection ends after the last one, or breaks there.  Module Ingestion  *)
(* runs the parser.                                                        *)
(***************************************************************************)
EXTENDS Integers, Sequences, SequencesExt

CONSTANTS
  Pages,     \* URLs that isValidURL accepts
  MaxRows,   \* bound: the longest file
  MaxLimit,  \* bound: the largest url_limit of a site (0: no limit)
  LineCap    \* bound: lineNum is counted modulo LineCap

ASSUME ParserAssumption ==
  /\ Pages \intersect {"other", "malformed"} = {}
  /\ MaxRows \in Nat
  /\ MaxLimit \in Nat
  /\ LineCap \in Nat \ {0, 1}

(* What isValidURL and the decoders tell apart: a row or <url> with an http *)
(* URL, any other (a header, a blank, another scheme, another element), one *)
(* that does not parse.  columns is the number of fields of a CSV row.      *)
Row == [kind : Pages \union {"other", "malformed"}, columns : 1..2]

VARIABLES
  format,   \* site.URLSourceType
  limit,    \* site.URLLimit
  file,     \* the rows of the source
  ending,   \* after them: "eof", or "broken", an error at every later read
  pos,      \* rows read
  columns,  \* csv.Reader.FieldsPerRecord: 0, then that of the first row
  lineNum,  \* parseCSV's counter of rows
  urls,     \* the positions of the rows whose URLs were collected
  outcome   \* "reading", then "returned"

source == <<format, limit, file, ending>>
parserVars == <<source, pos, columns, lineNum, urls, outcome>>

ParserInit ==
  /\ format \in {"csv", "xml"}
  /\ limit \in 0..MaxLimit
  /\ file \in BoundedSeq(Row, MaxRows)
  /\ format = "xml" => \A i \in DOMAIN file : file[i].columns = 1
  /\ ending \in {"eof", "broken"}
  /\ pos = 0
  /\ columns = 0
  /\ lineNum = 0
  /\ urls = <<>>
  /\ outcome = "reading"

-----------------------------------------------------------------------------
(* Mutant: one URL more than the limit.                                    *)
FullLate == limit > 0 /\ Len(urls) > limit

Full == limit > 0 /\ Len(urls) >= limit

Reading(f) == outcome = "reading" /\ format = f /\ ~Full

Returns ==
  /\ outcome' = "returned"
  /\ UNCHANGED <<source, pos, columns, lineNum, urls>>

LimitReached ==
  /\ outcome = "reading"
  /\ Full
  /\ Returns

(* encoding/csv: the first row fixes the number of fields, a row with       *)
(* another number is an error.                                             *)
Fits(row) == columns = 0 \/ row.columns = columns

(* A row is read: one with an error is skipped, as is one without a URL.   *)
ReadRow ==
  /\ Reading("csv")
  /\ pos < Len(file)
  /\ LET row == file[pos + 1]
     IN  /\ pos' = pos + 1
         /\ columns' = IF columns = 0 THEN row.columns ELSE columns
         /\ urls' = IF row.kind \in Pages /\ Fits(row) THEN Append(urls, pos') ELSE urls
  /\ lineNum' = (lineNum + 1) % LineCap
  /\ UNCHANGED <<source, outcome>>

(* The connection is broken: the error is taken for a malformed line.      *)
ReadError ==
  /\ Reading("csv")
  /\ pos = Len(file)
  /\ ending = "broken"
  /\ lineNum' = (lineNum + 1) % LineCap
  /\ UNCHANGED <<source, pos, columns, urls, outcome>>

ReadEof ==
  /\ Reading("csv")
  /\ pos = Len(file)
  /\ ending = "eof"
  /\ Returns

(* A <url> element or another token; decoder.DecodeElement reads the       *)
(* element to its end.                                                     *)
ReadElement ==
  /\ Reading("xml")
  /\ pos < Len(file)
  /\ file[pos + 1].kind # "malformed"
  /\ pos' = pos + 1
  /\ urls' = IF file[pos'].kind \in Pages THEN Append(urls, pos') ELSE urls
  /\ UNCHANGED <<source, columns, lineNum, outcome>>

(* Mutant: a syntax error is skipped over, like a malformed line.          *)
StopsNever ==
  /\ Reading("xml")
  /\ pos = Len(file)
  /\ ending = "eof"
  /\ Returns

(* The end of the file, a syntax error (the decoder keeps it) and a broken *)
(* connection all end the loop, and nothing is reported.                   *)
StopReading ==
  /\ Reading("xml")
  /\ pos < Len(file) => file[pos + 1].kind = "malformed"
  /\ Returns

ParserNext ==
  \/ LimitReached
  \/ ReadRow
  \/ ReadError
  \/ ReadEof
  \/ ReadElement
  \/ StopReading

-----------------------------------------------------------------------------
(* Properties.                                                             *)

(* The rows a CSV file is read for: those as wide as its first row; the    *)
(* elements of an XML file before its first syntax error.                  *)
Readable(p) ==
  IF format = "csv" THEN file[p].columns = file[1].columns
                    ELSE \A q \in 1..p : file[q].kind # "malformed"

Valid == {p \in DOMAIN file : file[p].kind \in Pages /\ Readable(p)}

(* What is returned is the first url_limit valid URLs, in the order of the  *)
(* file and without a gap: of a CSV file those in rows as wide as the       *)
(* first, and of an XML file those before the first syntax error            *)
(* (parser.go:60-151).                                                      *)
ReturnsFirstUrls ==
  outcome = "returned" =>
    /\ \A i, j \in DOMAIN urls : i < j => urls[i] < urls[j]
    /\ Range(urls) \subseteq Valid
    /\ limit > 0 => Len(urls) <= limit
    /\ \A p \in Valid \ Range(urls) :
         limit > 0 /\ Len(urls) = limit /\ \A q \in Range(urls) : q < p

(* HOW-TO-USE.md:600 "If the source URL is unreachable, the job will move   *)
(* to `failed` status": a reading whose connection breaks ends, so that the *)
(* job can fail.                                                           *)
BrokenSourcesEnd == (ending = "broken") ~> (outcome = "returned")
=============================================================================
