------------------------- MODULE ArchiveClientProofs -------------------------
(***************************************************************************)
(* Proofs about ArchiveClient for any limits and any number of snapshots.  *)
(* The invariant ties what an attempt has asked for to the redirects it    *)
(* follows, and the requests sent to the attempts that are used up.        *)
(***************************************************************************)
EXTENDS ArchiveClient, TLAPS, SequenceTheorems

\* The n-th snapshot of an attempt.
Hop(n) == IF n = 1 THEN Requested ELSE redirects[n - 1]

\* The redirects are distinct, and what was asked for is the beginning of the chain.
ChainInv ==
    /\ Len(redirects) <= MaxRedirects + 1
    /\ \A n \in DOMAIN redirects : redirects[n] # Requested
    /\ \A m, n \in DOMAIN redirects : redirects[m] = redirects[n] => m = n
    /\ \A n \in DOMAIN asked : asked[n] = Hop(n)
    /\ Len(asked) <= MaxRedirects + 1
    /\ Len(asked) <= Len(redirects) + 1
    /\ pc = "request" => Len(asked) = Len(redirects)
    /\ result = "Success" => pc = "done" /\ Len(asked) = Len(redirects) + 1
    /\ result = "TooManyRedirects"
         => Len(asked) = MaxRedirects + 1 /\ Len(redirects) = MaxRedirects + 1

\* An attempt that is over has sent at most MaxRedirects + 1 requests, the current one as many
\* as it has asked.
WorkInv ==
    /\ call = "download" =>
         /\ pc \in {"request", "waiting", "done"}
         /\ requests <= retries * (MaxRedirects + 1)
                          + (IF pc = "waiting" THEN 0 ELSE Len(asked))
    /\ call = "resolve" =>
         /\ pc \in {"head", "get", "done"}
         /\ pc = "head" => requests = 0
         /\ pc = "get" => requests = 1
         /\ requests <= 2
         /\ result # "Success" /\ result # "TooManyRedirects"
    /\ pc = "waiting" => result \in Transient
    /\ pc = "done" /\ call = "download" /\ result \in Transient => retries = MaxRetries
    /\ pc = "request" => result \in Transient \cup {"None"}
    /\ pc = "request" => call = "download"

ClientInv == TypeOK /\ ChainInv /\ WorkInv
-----------------------------------------------------------------------------
\* Appending adds one element to those a sequence has.
LEMMA AppendElement ==
    ASSUME NEW S, NEW q \in Seq(S), NEW x \in S
    PROVE  /\ Append(q, x) \in Seq(S)
           /\ Len(Append(q, x)) = Len(q) + 1
           /\ DOMAIN Append(q, x) = DOMAIN q \cup {Len(q) + 1}
           /\ DOMAIN q = 1 .. Len(q)
           /\ \A n \in DOMAIN q : Append(q, x)[n] = q[n]
           /\ Append(q, x)[Len(q) + 1] = x
           /\ Len(q) \in Nat
OBVIOUS

LEMMA Beginning ==
    /\ <<>> \in Seq(Snapshots) /\ Len(<<>>) = 0
    /\ DOMAIN <<>> = {}
    /\ 0 \in 0 .. MaxRetries
<1>1. <<>> \in Seq(Snapshots) /\ Len(<<>>) = 0
  OBVIOUS
<1> QED
  BY <1>1, ClientAssumption

\* The product that bounds the work, one attempt at a time.
LEMMA OneMoreAttempt ==
    ASSUME NEW r \in Nat, NEW d \in Nat
    PROVE  /\ (r + 1) * (d + 1) = r * (d + 1) + (d + 1)
           /\ r * (d + 1) \in Nat
OBVIOUS

LEMMA WorkIsMonotone ==
    ASSUME NEW r \in Nat, NEW R \in Nat, NEW d \in Nat, r <= R
    PROVE  r * (d + 1) <= R * (d + 1)
OBVIOUS

LEMMA InitClientInv == Init => ClientInv
<1> SUFFICES ASSUME Init PROVE ClientInv
  OBVIOUS
<1>1. TypeOK
  BY Beginning DEF Init, TypeOK, Results
<1>2. ChainInv
  BY Beginning, ClientAssumption DEF Init, ChainInv
<1>3. WorkInv
  <2>1. Len(asked) = 0 /\ retries * (MaxRedirects + 1) \in Nat /\ retries = 0
    BY Beginning, ClientAssumption, OneMoreAttempt DEF Init
  <2> QED
    BY <2>1 DEF Init, WorkInv
<1> QED
  BY <1>1, <1>2, <1>3 DEF ClientInv

\* What one more request does to the history, whatever the answer.
LEMMA AskExtends ==
    ASSUME ClientInv, Ask
    PROVE  /\ asked' \in Seq(Snapshots) /\ requests' \in Nat
           /\ Len(asked) = Len(redirects)
           /\ Len(asked') = Len(redirects) + 1
           /\ Len(asked') <= MaxRedirects + 1
           /\ Len(redirects) \in Nat
           /\ \A n \in DOMAIN asked' : asked'[n] = Hop(n)
           /\ \A n \in DOMAIN asked' : n = 1 \/ n - 1 \in DOMAIN redirects
           /\ requests' <= retries * (MaxRedirects + 1) + Len(asked')
<1> USE DEF ClientInv, TypeOK
<1>1. Target \in Snapshots
  BY ClientAssumption DEF Target
<1>2. /\ asked' = Append(asked, Target) /\ requests' = requests + 1 /\ pc = "request"
      /\ ~ (Len(redirects) > MaxRedirects)
  BY DEF Ask, TooDeep
<1>3. Len(asked) = Len(redirects) /\ Len(redirects) \in Nat /\ call = "download"
  BY <1>2 DEF ChainInv, WorkInv
<1>4. Target = Hop(Len(redirects) + 1)
  BY <1>3 DEF Target, Hop
<1>5. /\ asked' \in Seq(Snapshots) /\ Len(asked') = Len(asked) + 1
      /\ \A n \in DOMAIN asked' : asked'[n] = Hop(n)
      /\ DOMAIN asked' = 1 .. Len(redirects) + 1
  BY <1>1, <1>2, <1>3, <1>4, AppendElement DEF ChainInv
<1>6. DOMAIN redirects = 1 .. Len(redirects)
  OBVIOUS
<1>7. retries * (MaxRedirects + 1) \in Nat /\ MaxRedirects \in Nat
  BY ClientAssumption, OneMoreAttempt
<1>8. requests <= retries * (MaxRedirects + 1) + Len(asked)
  BY <1>2, <1>3 DEF WorkInv
<1>9. requests' <= retries * (MaxRedirects + 1) + Len(asked')
  BY <1>2, <1>3, <1>5, <1>7, <1>8
<1> QED
  BY <1>2, <1>3, <1>5, <1>6, <1>7, <1>9

\* How an attempt that has failed ends: the call waits with one delay less, or is over.
LEMMA FailEnds ==
    ASSUME ClientInv, NEW e \in Transient \cup Permanent, Fail(e)
    PROVE  /\ result' = e /\ retries' \in 0 .. MaxRetries
           /\ \/ pc' = "waiting" /\ e \in Transient /\ retries' = retries + 1
              \/ pc' = "done" /\ retries' = retries /\ (e \in Transient => retries = MaxRetries)
BY ClientAssumption DEF Fail, CanRetry, ClientInv, TypeOK

\* The requests of an attempt that has failed are covered by the delay it used up.
LEMMA FailedWork ==
    ASSUME ClientInv, NEW n \in Nat, NEW k \in Nat, k <= MaxRedirects + 1,
           n <= retries * (MaxRedirects + 1) + k
    PROVE  n <= (retries + 1) * (MaxRedirects + 1)
<1>1. retries \in Nat /\ MaxRedirects \in Nat
  BY ClientAssumption DEF ClientInv, TypeOK
<1>2. /\ (retries + 1) * (MaxRedirects + 1) = retries * (MaxRedirects + 1) + (MaxRedirects + 1)
      /\ retries * (MaxRedirects + 1) \in Nat
  BY <1>1, OneMoreAttempt
<1> DEFINE product == retries * (MaxRedirects + 1)
<1> HIDE DEF product
<1>3. n <= product + (MaxRedirects + 1)
  BY <1>1, <1>2 DEF product
<1> QED
  BY <1>2, <1>3 DEF product

LEMMA AnswerInv == ASSUME ClientInv, Answer, UNCHANGED call PROVE ClientInv'
<1>1. PICK r \in {"Success"} \cup Declined : Finish(r)
  BY DEF Answer
<1>2. Ask /\ UNCHANGED <<redirects, retries, resolveVars>>
  BY DEF Answer
<1>3. pc = "request" /\ call = "download"
  BY <1>2 DEF Ask, ClientInv, WorkInv
<1>4. TypeOK'
  BY <1>1, <1>2, AskExtends DEF Finish, ClientInv, TypeOK, Results, resolveVars
<1>5. ChainInv'
  BY <1>1, <1>2, AskExtends DEF Finish, ClientInv, ChainInv, Declined, Hop
<1>6. WorkInv'
  BY <1>1, <1>2, <1>3, AskExtends DEF Finish, WorkInv, Declined, Transient
<1> QED
  BY <1>4, <1>5, <1>6 DEF ClientInv

\* Failing preserves the invariant, with one more request or, when the chain is too long,
\* with none.
LEMMA FailInv ==
    ASSUME ClientInv, pc = "request", UNCHANGED <<call, redirects, resolveVars>>,
           NEW e \in Transient \cup Permanent, Fail(e),
           \/ Ask /\ e # "TooManyRedirects"
           \/ UNCHANGED <<asked, requests>> /\ TooDeep /\ e = "TooManyRedirects"
    PROVE  ClientInv'
<1> USE DEF ClientInv
<1>1. call = "download" /\ Len(asked) = Len(redirects) /\ Len(asked) \in Nat
        /\ retries \in Nat /\ MaxRedirects \in Nat /\ requests \in Nat
  BY ClientAssumption DEF TypeOK, ChainInv, WorkInv
<1>2. /\ asked' \in Seq(Snapshots) /\ requests' \in Nat
      /\ Len(asked') \in Nat /\ Len(asked') <= MaxRedirects + 1 /\ Len(asked') <= Len(redirects) + 1
      /\ \A n \in DOMAIN asked' : asked'[n] = Hop(n)
      /\ requests' <= retries * (MaxRedirects + 1) + Len(asked')
  <2>1. CASE Ask
    BY <2>1, AskExtends DEF TypeOK
  <2>2. CASE UNCHANGED <<asked, requests>>
    BY <1>1, <2>2 DEF TypeOK, ChainInv, WorkInv
  <2> QED
    BY <2>1, <2>2
<1>3. e = "TooManyRedirects" => Len(asked') = MaxRedirects + 1 /\ Len(redirects) = MaxRedirects + 1
  <2>1. CASE e = "TooManyRedirects"
    BY <1>1, <2>1, ClientAssumption DEF TooDeep, TypeOK, ChainInv
  <2> QED
    BY <2>1
<1>4. TypeOK'
  BY <1>2, FailEnds DEF TypeOK, Results, resolveVars
<1>5. ChainInv'
  BY <1>2, <1>3, FailEnds DEF ChainInv, Transient, Permanent, Hop
<1>6. WorkInv'
  <2>1. requests' <= (retries + 1) * (MaxRedirects + 1)
    BY <1>2, FailedWork
  <2>2. CASE pc' = "waiting"
    <3>1. retries' = retries + 1 /\ e \in Transient /\ result' = e
      BY <2>2, FailEnds
    <3>2. (retries + 1) * (MaxRedirects + 1) \in Nat
      BY <1>1, OneMoreAttempt
    <3>3. requests' <= retries' * (MaxRedirects + 1) + 0
      BY <1>2, <2>1, <3>1, <3>2
    <3> QED
      BY <1>1, <2>2, <3>1, <3>3 DEF WorkInv
  <2>3. CASE pc' = "done"
    <3>1. retries' = retries /\ result' = e /\ (e \in Transient => retries = MaxRetries)
      BY <2>3, FailEnds
    <3> QED
      BY <1>1, <1>2, <2>3, <3>1 DEF WorkInv
  <2> QED
    BY <2>2, <2>3, FailEnds
<1> QED
  BY <1>4, <1>5, <1>6

LEMMA RedirectInv ==
    ASSUME ClientInv, Redirect, UNCHANGED call
    PROVE  ClientInv'
<1>1. PICK t \in Snapshots :
         IF Followed(t)
         THEN Fail("RedirectLoop") /\ UNCHANGED redirects
         ELSE redirects' = Append(redirects, t) /\ UNCHANGED <<pc, retries, result>>
  BY DEF Redirect
<1>2. Ask /\ UNCHANGED resolveVars /\ pc = "request"
  BY DEF Redirect, Ask
<1>3. CASE Followed(t)
  BY <1>1, <1>2, <1>3, FailInv DEF Permanent
<1>4. CASE ~ Followed(t)
  <2>1. redirects' = Append(redirects, t) /\ UNCHANGED <<pc, retries, result>>
    BY <1>1, <1>4
  <2>2. redirects \in Seq(Snapshots) /\ Len(redirects) <= MaxRedirects
    BY <1>2, ClientAssumption DEF Ask, TooDeep, ClientInv, TypeOK
  <2>3. t # Requested /\ \A n \in DOMAIN redirects : redirects[n] # t
    BY <1>4 DEF Followed, Elements
  <2>4. call = "download" /\ result \in Transient \cup {"None"}
    BY <1>2 DEF ClientInv, WorkInv
  <2>5. TypeOK'
    BY <1>2, <2>1, <2>2, AskExtends, AppendElement DEF ClientInv, TypeOK, resolveVars
  <2>6. ChainInv'
    <3>1. Len(redirects') = Len(redirects) + 1 /\ Len(asked') = Len(redirects')
            /\ Len(redirects') <= MaxRedirects + 1
      BY <1>2, <2>1, <2>2, AskExtends, AppendElement, ClientAssumption
    <3>2. \A n \in DOMAIN redirects' : redirects'[n] # Requested
      BY <2>1, <2>2, <2>3, AppendElement DEF ClientInv, ChainInv
    <3>3. \A m, n \in DOMAIN redirects' : redirects'[m] = redirects'[n] => m = n
      BY <2>1, <2>2, <2>3, AppendElement DEF ClientInv, ChainInv
    <3>4. \A n \in DOMAIN asked' : asked'[n] = Hop(n)'
      BY <1>2, <2>1, <2>2, AskExtends, AppendElement DEF Hop
    <3>5. Len(asked') <= MaxRedirects + 1 /\ Len(asked') <= Len(redirects') + 1
      BY <1>2, <2>2, <3>1, AskExtends
    <3> QED
      BY <2>1, <2>4, <3>1, <3>2, <3>3, <3>4, <3>5 DEF ChainInv, Transient
  <2>7. WorkInv'
    BY <1>2, <2>1, <2>4, AskExtends DEF ClientInv, WorkInv
  <2> QED
    BY <2>5, <2>6, <2>7 DEF ClientInv
<1> QED
  BY <1>3, <1>4

LEMMA RetryInv ==
    ASSUME ClientInv, Retry, UNCHANGED call
    PROVE  ClientInv'
<1> USE DEF ClientInv
<1>1. /\ pc = "waiting" /\ pc' = "request" /\ redirects' = <<>> /\ asked' = <<>>
      /\ UNCHANGED <<retries, result, resolveVars, requests>>
  BY DEF Retry
<1>2. result \in Transient /\ call = "download"
  BY <1>1 DEF WorkInv, TypeOK
<1>3. TypeOK'
  BY <1>1, Beginning DEF TypeOK, resolveVars
<1>4. ChainInv'
  BY <1>1, <1>2, Beginning, ClientAssumption DEF ChainInv, Transient
<1>5. WorkInv'
  BY <1>1, <1>2, Beginning DEF WorkInv
<1> QED
  BY <1>3, <1>4, <1>5

LEMMA ResolveInv ==
    ASSUME ClientInv, Resolve, UNCHANGED call
    PROVE  ClientInv'
<1> USE DEF ClientInv
<1>1. /\ pc \in {"head", "get"} /\ UNCHANGED <<redirects, asked, retries>>
      /\ requests' = requests + 1
      /\ \/ pc = "head" /\ pc' = "get" /\ result' = result
         \/ pc' = "done" /\ result' \in Results \ {"Success", "TooManyRedirects"}
  BY DEF Resolve, ResolveFails, HeadRejected, HeadFound, Get, Finish, chainVars, Results,
         Transient, Permanent
<1>2. call = "resolve"
  BY <1>1 DEF WorkInv, TypeOK
<1>3. info' \in Snapshots \cup {Nothing} /\ content' \in Pages \cup {Nothing} /\ valid' \in BOOLEAN
        /\ status' \in {"None", "Found", "Other"}
  <2>1. \/ valid' = valid
        \/ valid' = TRUE
        \/ \E p \in Pages : valid' = (p \in GoodPages)
    <3>1. CASE ResolveFails \/ HeadRejected
      BY Zenon, <3>1 DEF ResolveFails, HeadRejected, resolveVars
    <3>2. ASSUME NEW t \in Snapshots, HeadFound(t)
          PROVE  valid' = valid \/ valid' = TRUE
      BY Zenon, <3>2 DEF HeadFound
    <3>3. CASE Get
      BY Zenon, <3>3 DEF Get
    <3> QED
      BY Zenon, <3>1, <3>2, <3>3 DEF Resolve
  <2>2. valid' \in BOOLEAN
    <3>1. valid \in BOOLEAN
      BY DEF TypeOK
    <3>2. ASSUME NEW p \in Pages, valid' = (p \in GoodPages)
          PROVE  valid' \in BOOLEAN
      <4>1. CASE p \in GoodPages
        BY <3>2, <4>1
      <4>2. CASE p \notin GoodPages
        BY <3>2, <4>2
      <4> QED
        BY <4>1, <4>2
    <3> QED
      BY Zenon, <2>1, <3>1, <3>2
  <2>3. info' \in Snapshots \cup {Nothing} /\ status' \in {"None", "Found", "Other"}
    BY DEF Resolve, ResolveFails, HeadRejected, HeadFound, Get, resolveVars, TypeOK
  <2>4. content' \in Pages \cup {Nothing}
    BY ClientAssumption
    DEF Resolve, ResolveFails, HeadRejected, HeadFound, Get, resolveVars, TypeOK
  <2> QED
    BY <2>2, <2>3, <2>4
<1>4. TypeOK'
  BY <1>1, <1>3 DEF TypeOK
<1>5. ChainInv'
  BY <1>1 DEF ChainInv, Hop
<1>6. WorkInv'
  BY <1>1, <1>2 DEF WorkInv, TypeOK
<1> QED
  BY <1>4, <1>5, <1>6

LEMMA StepClientInv == ClientInv /\ [Next]_vars => ClientInv'
<1> SUFFICES ASSUME ClientInv, [Next]_vars PROVE ClientInv'
  OBVIOUS
<1>1. CASE RefuseDepth /\ UNCHANGED call
  BY <1>1, FailInv DEF RefuseDepth, chainVars, Permanent
<1>2. CASE AnswerFails /\ UNCHANGED call
  <2>1. PICK e \in Transient \cup (Permanent \ {"InvalidUtf8", "TooManyRedirects", "RedirectLoop"}) :
           Fail(e)
    BY <1>2 DEF AnswerFails
  <2>2. e # "TooManyRedirects" /\ e \in Transient \cup Permanent
    BY <2>1 DEF Transient
  <2> QED
    BY <1>2, <2>1, <2>2, FailInv DEF AnswerFails, Ask
<1>3. CASE UNCHANGED vars
  BY <1>3 DEF vars, ClientInv, TypeOK, ChainInv, WorkInv, Hop
<1> QED
  BY <1>1, <1>2, <1>3, AnswerInv, RedirectInv, RetryInv, ResolveInv DEF Next, Download

LEMMA SpecClientInv == Spec => []ClientInv
BY InitClientInv, StepClientInv, PTL DEF Spec

\* Every variable of a call keeps to its type.
THEOREM ClientTypeCorrect == Spec => []TypeOK
BY SpecClientInv, PTL DEF ClientInv

\* Whatever the archive answers, a call sends no more requests than its limits allow.
THEOREM ClientBoundedWork == Spec => []BoundedWork
<1>1. ClientInv => BoundedWork
  <2> SUFFICES ASSUME ClientInv PROVE BoundedWork
    OBVIOUS
  <2> USE DEF ClientInv
  <2>1. CASE call = "resolve"
    BY <2>1 DEF WorkInv, BoundedWork
  <2>2. CASE call = "download"
    <3>1. /\ retries \in Nat /\ MaxRetries \in Nat /\ MaxRedirects \in Nat /\ retries <= MaxRetries
          /\ requests \in Nat /\ Len(asked) \in Nat /\ Len(asked) <= MaxRedirects + 1
      BY ClientAssumption DEF TypeOK, ChainInv
    <3>2. requests <= retries * (MaxRedirects + 1) + Len(asked)
      <4>1. retries * (MaxRedirects + 1) \in Nat
        BY <3>1, OneMoreAttempt
      <4> DEFINE product == retries * (MaxRedirects + 1)
      <4>2. requests <= product + (IF pc = "waiting" THEN 0 ELSE Len(asked))
        BY <2>2 DEF WorkInv
      <4> HIDE DEF product
      <4>3. product \in Nat
        BY <4>1 DEF product
      <4>4. requests <= product + Len(asked)
        BY <3>1, <4>2, <4>3
      <4> QED
        BY <4>4 DEF product
    <3>3. requests <= (retries + 1) * (MaxRedirects + 1)
      BY <3>1, <3>2, FailedWork
    <3>4. (retries + 1) * (MaxRedirects + 1) <= (MaxRetries + 1) * (MaxRedirects + 1)
      BY <3>1, WorkIsMonotone
    <3>5. /\ (retries + 1) * (MaxRedirects + 1) \in Nat
          /\ (MaxRetries + 1) * (MaxRedirects + 1) \in Nat
      BY <3>1, OneMoreAttempt
    <3> QED
      BY <2>2, <3>1, <3>3, <3>4, <3>5 DEF BoundedWork
  <2> QED
    BY <2>1, <2>2 DEF TypeOK
<1> QED
  BY <1>1, SpecClientInv, PTL

\* No attempt requests a snapshot twice.
THEOREM ClientNoRevisit == Spec => []NoRevisit
<1>1. ClientInv => NoRevisit
  <2> SUFFICES ASSUME ClientInv, NEW m \in DOMAIN asked, NEW n \in DOMAIN asked,
                      asked[m] = asked[n]
               PROVE  m = n
    BY DEF NoRevisit
  <2>1. /\ m \in 1 .. Len(redirects) + 1 /\ n \in 1 .. Len(redirects) + 1
        /\ DOMAIN redirects = 1 .. Len(redirects) /\ Len(redirects) \in Nat
    BY DEF ClientInv, TypeOK, ChainInv
  <2>2. Hop(m) = Hop(n)
    BY DEF ClientInv, ChainInv
  <2> QED
    BY <2>1, <2>2 DEF Hop, ClientInv, ChainInv
<1> QED
  BY <1>1, SpecClientInv, PTL

\* Only transient errors are retried, and none is returned while a retry is left.
THEOREM ClientRetriesAreSpent == Spec => []RetriesAreSpent
<1>1. ClientInv => RetriesAreSpent
  BY DEF ClientInv, WorkInv, RetriesAreSpent
<1> QED
  BY <1>1, SpecClientInv, PTL

\* A sequence that has the hops of the chain as its elements is a prefix of the chain.
LEMMA ChainFromHops ==
    ASSUME ClientInv, NEW n \in 0 .. Len(redirects), Len(asked) = n + 1
    PROVE  asked = <<Requested>> \o SubSeq(redirects, 1, n)
<1> DEFINE tail == SubSeq(redirects, 1, n)
           chain == <<Requested>> \o tail
<1>1. redirects \in Seq(Snapshots) /\ asked \in Seq(Snapshots) /\ Requested \in Snapshots
        /\ n \in Nat /\ n <= Len(redirects)
  BY ClientAssumption DEF ClientInv, TypeOK
<1>2. tail \in Seq(Snapshots) /\ Len(tail) = n /\ \A k \in 1 .. n : tail[k] = redirects[k]
  BY <1>1
<1>3. chain \in Seq(Snapshots) /\ Len(chain) = n + 1 /\ chain[1] = Requested
        /\ \A k \in 2 .. (n + 1) : chain[k] = redirects[k - 1]
  BY <1>1, <1>2
<1>4. ASSUME NEW k \in 1 .. (n + 1)
      PROVE  asked[k] = chain[k]
  <2> HIDE DEF chain
  <2>1. k \in DOMAIN asked
    BY <1>1
  <2>2. asked[k] = Hop(k)
    BY <2>1 DEF ClientInv, ChainInv
  <2> QED
    BY <1>1, <1>3, <2>2 DEF Hop
<1> QED
  BY <1>1, <1>3, <1>4, SeqEqual

\* The redirects that are reported are the chain of the attempt that succeeded.
THEOREM ClientReportsTheChain == Spec => []RedirectsAreTheChain
<1>1. ClientInv => RedirectsAreTheChain
  <2> SUFFICES ASSUME ClientInv, result = "Success"
               PROVE  asked = <<Requested>> \o redirects
    BY DEF RedirectsAreTheChain
  <2>1. redirects \in Seq(Snapshots) /\ Len(redirects) \in Nat /\ Len(asked) = Len(redirects) + 1
    BY DEF ClientInv, TypeOK, ChainInv
  <2>2. SubSeq(redirects, 1, Len(redirects)) = redirects
    BY <2>1
  <2> QED
    BY <2>1, <2>2, ChainFromHops
<1> QED
  BY <1>1, SpecClientInv, PTL

\* A chain is refused only after MaxRedirects of its redirects have been followed.
THEOREM ClientDepthIsExact == Spec => []DepthIsExact
<1>1. ClientInv => DepthIsExact
  <2> SUFFICES ASSUME ClientInv, result = "TooManyRedirects"
               PROVE  /\ Len(redirects) = MaxRedirects + 1
                      /\ asked = <<Requested>> \o SubSeq(redirects, 1, MaxRedirects)
    BY DEF DepthIsExact
  <2>1. Len(redirects) = MaxRedirects + 1 /\ Len(asked) = MaxRedirects + 1
    BY DEF ClientInv, ChainInv
  <2>2. MaxRedirects \in 0 .. Len(redirects)
    BY <2>1, ClientAssumption
  <2> QED
    BY <2>1, <2>2, ChainFromHops
<1> QED
  BY <1>1, SpecClientInv, PTL

\* What is resolved came with a redirect, and is the page made from its target or was fetched.
THEOREM ClientResolvesRedirects == Spec => []ResolvedIsARedirect
<1> DEFINE Fetching == pc = "get" => info # Nothing /\ requests = 1
           Fresh == pc \in {"request", "waiting", "head", "get"} => result # "Resolved"
<1>1. Init => ResolvedIsARedirect /\ Fetching /\ Fresh
  BY DEF Init, ResolvedIsARedirect
<1>2. ClientInv /\ ResolvedIsARedirect /\ Fetching /\ Fresh /\ [Next]_vars
        => (ResolvedIsARedirect /\ Fetching /\ Fresh)'
  <2> SUFFICES ASSUME ClientInv, ResolvedIsARedirect, Fetching, Fresh, [Next]_vars
               PROVE  (ResolvedIsARedirect /\ Fetching /\ Fresh)'
    OBVIOUS
  <2>1. CASE UNCHANGED vars
    BY <2>1 DEF vars, ResolvedIsARedirect
  <2>2. CASE Download
    <3>1. pc \in {"request", "waiting"} /\ pc' \in {"request", "waiting", "done"}
            /\ result' # "Resolved"
      BY <2>2 DEF Download, RefuseDepth, Answer, AnswerFails, Redirect, Retry, Ask, Finish, Fail,
                  Declined, Transient, Permanent
    <3> QED
      BY <3>1 DEF ResolvedIsARedirect
  <2>3. CASE ResolveFails \/ HeadRejected
    BY <2>3 DEF ResolveFails, HeadRejected, Finish, ResolvedIsARedirect
  <2>4. ASSUME NEW t \in Snapshots, HeadFound(t)
        PROVE  (ResolvedIsARedirect /\ Fetching /\ Fresh)'
    <3>1. requests = 0 /\ t # Nothing
      BY <2>4, ClientAssumption DEF HeadFound, ClientInv, TypeOK, WorkInv
    <3> QED
      BY <2>4, <3>1 DEF HeadFound, Finish, ResolvedIsARedirect
  <2>5. CASE Get
    <3>1. CASE result' # "Resolved"
      BY <2>5, <3>1 DEF Get, Finish, ResolvedIsARedirect
    <3>2. CASE result' = "Resolved"
      <4>1. /\ pc' = "done" /\ status' = "Found" /\ info' = info /\ requests' = requests + 1
            /\ \E p \in Pages : content' = p /\ valid' = (p \in GoodPages)
        BY <2>5, <3>2, Zenon DEF Get, Finish
      <4>2. info # Nothing /\ requests = 1
        BY <2>5 DEF Get
      <4>3. requests' # 1
        BY <4>1, <4>2
      <4>4. valid' <=> content' \in GoodPages
        BY <4>1
      <4> QED
        BY <4>1, <4>2, <4>3, <4>4 DEF ResolvedIsARedirect
    <3> QED
      BY <3>1, <3>2
  <2> QED
    BY <2>1, <2>2, <2>3, <2>4, <2>5 DEF Next, Resolve
<1> QED
  BY <1>1, <1>2, SpecClientInv, PTL DEF Spec

\* Whatever the archive answers, chains are sound, with any limits.
THEOREM ClientChainsAreSound == Spec => []ChainsAreSound
BY ClientNoRevisit, ClientRetriesAreSpent, ClientReportsTheChain, ClientDepthIsExact,
   ClientResolvesRedirects, PTL DEF ChainsAreSound
=============================================================================
