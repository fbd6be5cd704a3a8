----------------------------- MODULE QueryDriver -----------------------------
(***************************************************************************)
(* crates/cdx-client/src/lib.rs: the driver that asks a CDX server one     *)
(* query after the other, following the resumption keys of each, and the   *)
(* extraction of the rows from what was archived                           *)
(* (tools/cdx-client-cli/src/extract.rs).                                  *)
(*                                                                         *)
(* The session of archivindex-archiver that calls the driver, records      *)
(* every response and tries again what failed, and the server, are the     *)
(* environment.  A payload is the sequence of its lines: rows, numbers     *)
(* above 0 if their layout is known; the empty line, and keys.             *)
(***************************************************************************)
EXTENDS Integers, Sequences

CONSTANTS
    QueryCount,     \* the number of queries, which are 1 .. QueryCount
    Payloads,       \* what the server may answer
    Empty,          \* the empty line
    ResumeKeys,     \* the lines that are keys
    BadRow,         \* a row of a layout the extraction does not support
    Binary,         \* a payload that is not UTF-8
    Attempts,       \* how often the session tries a request
    Pause           \* an answer that is no success: an error status, recorded all the same

NoKey == "no key"

PageLine == UNION {{p[i] : i \in DOMAIN p} : p \in Payloads}

\* What a server answers: rows and, when it has more of them, an empty line and a key.
IsPage(p) ==
    \E n \in 0 .. Len(p) :
      /\ \A i \in 1 .. n : p[i] \notin ResumeKeys \cup {Empty}
      /\ \A i \in n + 1 .. Len(p) : p[i] \in ResumeKeys \cup {Empty}
      /\ n < Len(p) => p[n + 1] = Empty

ASSUME QueryAssumption ==
    /\ QueryCount \in Nat
    /\ Attempts \in Nat \ {0}
    /\ Binary \in Payloads
    /\ Pause \notin Payloads
    /\ Payloads \subseteq Seq(PageLine)
    /\ \A p \in Payloads : IsPage(p)
    /\ NoKey \notin ResumeKeys

VARIABLES
    follow,         \* follow_resumption_keys
    pending,        \* the queries that were not started
    current,        \* CurrentQuery, or none
    asked,          \* the requests given to the session, in order
    attempt,        \* how often the session has tried the last of them
    warc,           \* the responses recorded
    failures,       \* the requests the session lists as failed
    session,        \* "next", "request", "published", "stopped", or "extracted"
    rows,           \* what the extraction has written
    extraction      \* "none", "ok" or "error"

queryVars == <<follow, pending, current, asked, attempt, warc, failures, session, rows, extraction>>

NoQuery == [query |-> 0, next |-> NoKey, via |-> 0, seen |-> {}]

QueryInit ==
    /\ follow \in BOOLEAN
    /\ pending = [i \in 1 .. QueryCount |-> i]
    /\ current = NoQuery
    /\ asked = <<>>
    /\ attempt = 0
    /\ warc = <<>>
    /\ failures = {}
    /\ session = "next"
    /\ rows = <<>>
    /\ extraction = "none"

\* resume_key: a last line that is not empty, after one that is.
ResumeKey(lines) ==
    LET n == Len(lines)
    IN  IF n > 1 /\ lines[n] # Empty /\ lines[n - 1] = Empty THEN lines[n] ELSE NoKey
-----------------------------------------------------------------------------
\* QueryDriver::next: the key that is waiting before the next query.
Continues == current.next # NoKey

Continue ==
    /\ session = "next"
    /\ Continues
    /\ asked' = Append(asked, [query |-> current.query, key |-> current.next, via |-> current.via])
    /\ current' = [current EXCEPT !.next = NoKey, !.via = 0]
    /\ attempt' = 0
    /\ session' = "request"
    /\ UNCHANGED <<follow, pending, warc, failures, rows, extraction>>

StartQuery ==
    /\ session = "next"
    /\ ~ Continues
    /\ pending # <<>>
    /\ asked' = Append(asked, [query |-> Head(pending), key |-> NoKey, via |-> 0])
    /\ current' = [NoQuery EXCEPT !.query = Head(pending)]
    /\ pending' = Tail(pending)
    /\ attempt' = 0
    /\ session' = "request"
    /\ UNCHANGED <<follow, warc, failures, rows, extraction>>

\* archive_to_path publishes the WARC when the driver has no more requests.
Publish ==
    /\ session = "next"
    /\ ~ Continues
    /\ pending = <<>>
    /\ session' = "published"
    /\ UNCHANGED <<follow, pending, current, asked, attempt, warc, failures, rows, extraction>>

\* A fatal error of the session; what was captured is published.
StopEarly ==
    /\ session \in {"next", "request"}
    /\ session' = "stopped"
    /\ UNCHANGED <<follow, pending, current, asked, attempt, warc, failures, rows, extraction>>
-----------------------------------------------------------------------------
Record(answer) == warc' = Append(warc, [request |-> Len(asked), answer |-> answer])
Failed == failures' = failures \cup {Len(asked)}

\* inspect: the query ends, with an error or without, or goes on with a key it has not seen.
InspectUnseen(payload) ==
    LET key == ResumeKey(payload)
    IN  IF ~ follow \/ payload = Binary \/ key = NoKey
        THEN /\ current' = NoQuery
             /\ IF follow /\ payload = Binary THEN Failed ELSE UNCHANGED failures
        ELSE /\ current' = [current EXCEPT !.seen = @ \cup {key}, !.next = key, !.via = Len(asked)]
             /\ UNCHANGED failures
Inspect(payload) ==
    IF ~ follow THEN current' = NoQuery /\ UNCHANGED failures
    ELSE IF payload = Binary THEN current' = NoQuery /\ Failed
    ELSE LET key == ResumeKey(payload)
         IN  CASE key = NoKey -> current' = NoQuery /\ UNCHANGED failures
               [] key \in current.seen -> current' = NoQuery /\ Failed
               [] OTHER ->
                    /\ current' = [current EXCEPT !.seen = @ \cup {key}, !.next = key,
                                                  !.via = Len(asked)]
                    /\ UNCHANGED failures

Captured(payload) ==
    /\ session = "request"
    /\ Record(payload)
    /\ Inspect(payload)
    /\ session' = "next"
    /\ UNCHANGED <<follow, pending, asked, attempt, rows, extraction>>

\* The server cannot be reached, or answers with an error; after the last attempt the driver is told.
AttemptFails(answered) ==
    /\ session = "request"
    /\ IF answered THEN Record(Pause) ELSE UNCHANGED warc
    /\ attempt' = attempt + 1
    /\ IF attempt + 1 < Attempts
       THEN UNCHANGED <<session, current, failures>>
       ELSE session' = "next" /\ current' = NoQuery /\ Failed
    /\ UNCHANGED <<follow, pending, asked, rows, extraction>>
-----------------------------------------------------------------------------
\* extract_payload: the rows before the first empty line.
RowsOf(lines) ==
    LET upTo == {i \in DOMAIN lines : \A j \in 1 .. i : lines[j] # Empty}
    IN  SubSeq(lines, 1, IF upTo = {} THEN 0 ELSE CHOOSE n \in upTo : \A i \in upTo : i <= n)
Extractable(answer) == answer # Binary /\ \A i \in DOMAIN RowsOf(answer) : RowsOf(answer)[i] # BadRow

\* The rows of the first n responses; one that is no success is passed over.
RowsUpTo(responses, n) ==
    LET written[k \in 0 .. n] ==
          IF k = 0 THEN <<>>
          ELSE IF responses[k].answer = Pause THEN written[k - 1]
          ELSE written[k - 1] \o RowsOf(responses[k].answer)
    IN  written[n]

\* extract_warc: the responses that are successes, up to the first that cannot be read.
Extract ==
    /\ session \in {"published", "stopped"}
    /\ LET bad == {n \in DOMAIN warc : warc[n].answer # Pause /\ ~ Extractable(warc[n].answer)}
       IN  IF bad = {}
           THEN rows' = RowsUpTo(warc, Len(warc)) /\ extraction' = "ok"
           ELSE /\ rows' = RowsUpTo(warc, (CHOOSE n \in bad : \A m \in bad : n <= m) - 1)
                /\ extraction' = "error"
    /\ session' = "extracted"
    /\ UNCHANGED <<follow, pending, current, asked, attempt, warc, failures>>

QueryNext ==
    \/ Continue \/ StartQuery \/ Publish \/ StopEarly
    \/ \E payload \in Payloads : Captured(payload)
    \/ \E answered \in BOOLEAN : AttemptFails(answered)
    \/ Extract

QuerySpec == QueryInit /\ [][QueryNext]_queryVars
-----------------------------------------------------------------------------
QueryTypeOK ==
    /\ follow \in BOOLEAN
    /\ pending \in Seq(1 .. QueryCount)
    /\ current \in [query : 0 .. QueryCount, next : ResumeKeys \cup {NoKey}, via : Nat,
                    seen : SUBSET ResumeKeys]
    /\ attempt \in 0 .. Attempts
    /\ failures \subseteq 1 .. Len(asked)
    /\ session \in {"next", "request", "published", "stopped", "extracted"}
    /\ extraction \in {"none", "ok", "error"}

AnswersTo(i) == {warc[k].answer : k \in {n \in DOMAIN warc : warc[n].request = i}} \ {Pause}

\* Each query is asked once and in turn; right after a response with a key comes the request of the
\* same query for that key, once, with the capture that gave it as its origin, before any other
\* query, and no key of a query is asked for twice: a server that repeats its keys is left
\* (QueryDriver::next, inspect, failed).
KeysAreFollowedOnce ==
    /\ \A i, j \in DOMAIN asked :
         i < j => asked[i].query <= asked[j].query /\ <<asked[i].query, asked[i].key>> #
                                                      <<asked[j].query, asked[j].key>>
    /\ \A i \in DOMAIN asked :
         IF asked[i].key = NoKey THEN asked[i].query = 1 \/ asked[i].query = asked[i - 1].query + 1
         ELSE /\ follow
              /\ asked[i].via = i - 1
              /\ asked[i - 1].query = asked[i].query
              /\ \E p \in AnswersTo(i - 1) : p # Binary /\ ResumeKey(p) = asked[i].key

\* The lines of a page that are rows, and those of the pages asked for.
RowsIn(page) ==
    LET upTo[k \in 0 .. Len(page)] ==
          IF k = 0 THEN <<>>
          ELSE IF page[k] \in ResumeKeys \cup {Empty} THEN upTo[k - 1]
          ELSE Append(upTo[k - 1], page[k])
    IN  upTo[Len(page)]
PageOf(i) == CHOOSE p \in AnswersTo(i) : TRUE
RowsOfPages ==
    LET upTo[n \in 0 .. Len(asked)] == IF n = 0 THEN <<>> ELSE upTo[n - 1] \o RowsIn(PageOf(n))
    IN  upTo[Len(asked)]

\* A session that reports no failure has asked every query to its last page, and the rows extracted
\* from its archive, if all are of a known layout, are all that these pages hold, in their order,
\* without a key among them (archive_requests, extract_payload).
CompleteMeansExhausted ==
    session = "extracted" /\ failures = {} /\ pending = <<>> /\ current = NoQuery =>
      /\ \A q \in 1 .. QueryCount : \E i \in DOMAIN asked :
           /\ asked[i].query = q
           /\ AnswersTo(i) # {}
           /\ follow => \A p \in AnswersTo(i) : ResumeKey(p) = NoKey
      /\ extraction = "ok" => rows = RowsOfPages

\* A session asks for all there is, once, and what it archives can be extracted whole.
SessionIsComplete == QueryTypeOK /\ KeysAreFollowedOnce /\ CompleteMeansExhausted
=============================================================================
