---------------------------- MODULE ArchiveClient ----------------------------
(***************************************************************************)
(* One call of the HTTP client of crates/downloader: `Client::download`,   *)
(* which follows redirects by hand and retries what may be transient, or   *)
(* `Client::resolve_redirect_shallow`, which looks at the first hop only.  *)
(*                                                                         *)
(* The archive is the environment: it may answer each request in any way,  *)
(* and the same request differently the next time.  The length of a delay  *)
(* is not modelled.                                                        *)
(***************************************************************************)
EXTENDS Integers, Sequences

CONSTANTS
    Snapshots,      \* UrlParts: a URL and a timestamp
    Requested,      \* the snapshot the caller asks for
    MaxRetries,     \* Configuration::max_retries
    MaxRedirects,   \* Configuration::max_redirect_depth
    Pages,          \* bodies the archive may serve for a redirect snapshot
    HtmlOf,         \* make_redirect_html: the page that redirects to a snapshot
    GoodPages,      \* the pages whose digest is the expected one
    Nothing         \* no target, no body

ASSUME ClientAssumption ==
    /\ Requested \in Snapshots
    /\ MaxRetries \in Nat
    /\ MaxRedirects \in Nat
    /\ HtmlOf \in [Snapshots -> Pages]
    /\ GoodPages \subseteq Pages
    /\ Nothing \notin Snapshots \cup Pages

VARIABLES
    call,       \* the function that was called: "download" or "resolve"
    pc,         \* "request", "waiting", "head", "get" or "done"
    redirects,  \* the targets followed by this attempt
    retries,    \* how many delays of the retry strategy are used up
    result,     \* how the last attempt ended
    info,       \* ShallowRedirectResolution: the target
    content,    \*   the body
    valid,      \*   whether the digest of the body is the expected one
    asked,      \* history: the snapshots this attempt has requested
    requests,   \* history: how many requests the call has sent
    status      \* history: the status of the last answer of resolve_redirect_shallow

chainVars == <<redirects, asked>>
resolveVars == <<info, content, valid, status>>
vars == <<call, pc, redirects, retries, result, info, content, valid, asked, requests, status>>

\* Errors by whether `can_retry` holds of them.
Transient ==
    {"Interrupted",         \* Client: a timeout, or a failed connection, request or body
     "Offline",             \* UnexpectedRedirect to the "temporarily offline" page
     "Busy"}                \* UnexpectedStatus: 429 or 5xx
Permanent ==
    {"Client", "UnexpectedRedirect", "UnexpectedStatus", "MissingRedirectLocation",
     "InvalidUtf8", "TooManyRedirects", "RedirectLoop"}
Declined == {"NotFound", "Forbidden"}
Results == {"None", "Success", "Resolved"} \cup Declined \cup Transient \cup Permanent

TypeOK ==
    /\ call \in {"download", "resolve"}
    /\ pc \in {"request", "waiting", "head", "get", "done"}
    /\ redirects \in Seq(Snapshots)
    /\ retries \in 0 .. MaxRetries
    /\ result \in Results
    /\ info \in Snapshots \cup {Nothing}
    /\ content \in Pages \cup {Nothing}
    /\ valid \in BOOLEAN
    /\ asked \in Seq(Snapshots)
    /\ requests \in Nat
    /\ status \in {"None", "Found", "Other"}

Elements(s) == {s[n] : n \in DOMAIN s}

\* Either function is called.
Init ==
    /\ call \in {"download", "resolve"}
    /\ pc = IF call = "download" THEN "request" ELSE "head"
    /\ redirects = <<>>
    /\ retries = 0
    /\ result = "None"
    /\ info = Nothing
    /\ content = Nothing
    /\ valid = FALSE
    /\ asked = <<>>
    /\ requests = 0
    /\ status = "None"
-----------------------------------------------------------------------------
(* download_once *)

\* The most recent target, or what the caller asked for.
Target == IF redirects = <<>> THEN Requested ELSE redirects[Len(redirects)]

TooDeepLate == Len(redirects) > MaxRedirects + 1
TooDeep == Len(redirects) > MaxRedirects

\* One more request of this attempt is sent and answered.
Ask ==
    /\ pc = "request"
    /\ ~ TooDeep
    /\ asked' = Append(asked, Target)
    /\ requests' = requests + 1

Finish(r) ==
    /\ pc' = "done"
    /\ result' = r

\* RetryIf: an error that may be transient uses up one delay of the strategy.
CanRetry(e) == e \in Transient
Fail(e) ==
    /\ result' = e
    /\ IF CanRetry(e) /\ retries < MaxRetries
       THEN pc' = "waiting" /\ retries' = retries + 1
       ELSE pc' = "done" /\ UNCHANGED retries

RefuseDepthSpins ==
    /\ pc = "request"
    /\ TooDeep
    /\ UNCHANGED <<pc, redirects, retries, result, info, content, valid, asked, requests, status>>
RefuseDepth ==
    /\ pc = "request"
    /\ TooDeep
    /\ Fail("TooManyRedirects")
    /\ UNCHANGED <<chainVars, resolveVars, requests>>

\* 200, 404 and 403 end the call.
Answer ==
    /\ Ask
    /\ \E r \in {"Success"} \cup Declined : Finish(r)
    /\ UNCHANGED <<redirects, retries, resolveVars>>

\* Every other answer but a redirect to a snapshot, and a request or a body that fails.
AnswerFails ==
    /\ Ask
    /\ \E e \in Transient \cup (Permanent \ {"InvalidUtf8", "TooManyRedirects", "RedirectLoop"}) :
         Fail(e)
    /\ UNCHANGED <<redirects, resolveVars>>

\* A target that was requested before by this attempt.
FollowedLast(t) == redirects # <<>> /\ t = redirects[Len(redirects)]
Followed(t) == t = Requested \/ t \in Elements(redirects)

Redirect ==
    /\ Ask
    /\ \E t \in Snapshots :
         IF Followed(t)
         THEN Fail("RedirectLoop") /\ UNCHANGED redirects
         ELSE redirects' = Append(redirects, t) /\ UNCHANGED <<pc, retries, result>>
    /\ UNCHANGED resolveVars

\* The delay is over: a new attempt starts from the requested snapshot.
Retry ==
    /\ pc = "waiting"
    /\ pc' = "request"
    /\ redirects' = <<>>
    /\ asked' = <<>>
    /\ UNCHANGED <<retries, result, resolveVars, requests>>
-----------------------------------------------------------------------------
(* resolve_redirect_shallow *)

\* The HEAD or GET request fails, or has another answer than a redirect to a snapshot.
ResolveFails ==
    /\ pc \in {"head", "get"}
    /\ \E e \in {"Interrupted", "Client"} : Finish(e)
    /\ requests' = requests + 1
    /\ UNCHANGED <<chainVars, retries, resolveVars>>

HeadRejected ==
    /\ pc = "head"
    /\ \/ status' = "Other" /\ \E e \in {"Busy", "UnexpectedStatus"} : Finish(e)
       \/ status' = "Found"
            /\ \E e \in {"MissingRedirectLocation", "Offline", "UnexpectedRedirect"} : Finish(e)
    /\ requests' = requests + 1
    /\ UNCHANGED <<chainVars, retries, info, content, valid>>

\* The page can be made from the target: if it has the expected digest it is not fetched.
HeadFound(t) ==
    /\ pc = "head"
    /\ info' = t
    /\ status' = "Found"
    /\ requests' = requests + 1
    /\ IF HtmlOf[t] \in GoodPages
       THEN Finish("Resolved") /\ content' = HtmlOf[t] /\ valid' = TRUE
       ELSE pc' = "get" /\ UNCHANGED <<result, content, valid>>
    /\ UNCHANGED <<chainVars, retries>>

\* The body of another redirect answer is the content; its target is not looked at again.
Get ==
    /\ pc = "get"
    /\ requests' = requests + 1
    /\ \/ /\ status' = "Other"
          /\ \E e \in {"Busy", "UnexpectedStatus"} : Finish(e)
          /\ UNCHANGED <<content, valid>>
       \/ /\ status' = "Found"
          /\ Finish("InvalidUtf8")
          /\ UNCHANGED <<content, valid>>
       \/ /\ status' = "Found"
          /\ \E p \in Pages : content' = p /\ valid' = (p \in GoodPages)
          /\ Finish("Resolved")
    /\ UNCHANGED <<chainVars, retries, info>>

Download == RefuseDepth \/ Answer \/ AnswerFails \/ Redirect \/ Retry
Resolve == ResolveFails \/ HeadRejected \/ (\E t \in Snapshots : HeadFound(t)) \/ Get

Next ==
    /\ Download \/ Resolve
    /\ UNCHANGED call

\* Each request has a deadline and each delay ends.
Spec == Init /\ [][Next]_vars /\ WF_vars(Next)
-----------------------------------------------------------------------------
(* Properties *)

\* A call sends a bounded number of requests, whatever the archive answers: each of at most
\* MaxRetries + 1 attempts asks for the snapshot and follows MaxRedirects redirects.  Resolving
\* takes a HEAD and at most one GET.
BoundedWork ==
    requests <= IF call = "download" THEN (MaxRetries + 1) * (MaxRedirects + 1) ELSE 2

\* No attempt asks for a snapshot twice, so a cycle of redirects is seen when it closes.
NoRevisit == \A m, n \in DOMAIN asked : asked[m] = asked[n] => m = n

\* The redirects of a Download are those of the attempt that succeeded, in order, without the
\* snapshot that was requested.
RedirectsAreTheChain == result = "Success" => asked = <<Requested>> \o redirects

\* Only transient errors are retried, and one is returned by `download` only when no retry is
\* left.
RetriesAreSpent ==
    /\ pc = "waiting" => result \in Transient
    /\ pc = "done" /\ call = "download" /\ result \in Transient => retries = MaxRetries

\* "How many redirects a single download may follow": a chain of MaxRedirects is followed to
\* its end, and only a longer one is refused.
DepthIsExact ==
    result = "TooManyRedirects" =>
      /\ Len(redirects) = MaxRedirects + 1
      /\ asked = <<Requested>> \o SubSeq(redirects, 1, MaxRedirects)

\* What is resolved is the body of a redirect, never that of another answer, and it is either
\* the page made from the target or one that was fetched.
ResolvedIsARedirect ==
    result = "Resolved" =>
      /\ status = "Found"
      /\ info # Nothing
      /\ valid <=> content \in GoodPages
      /\ requests = 1 => content = HtmlOf[info] /\ valid

\* Chains of requests, together: no attempt comes back to a snapshot, only transient errors are
\* retried and all retries are used, the redirects reported are those that were followed, and
\* neither a limit nor an answer is taken for another.
ChainsAreSound ==
    NoRevisit /\ RetriesAreSpent /\ RedirectsAreTheChain /\ DepthIsExact /\ ResolvedIsARedirect

\* Every call ends.
CallEnds == <>(pc = "done")
=============================================================================
