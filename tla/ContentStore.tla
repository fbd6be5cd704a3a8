---------------------------- MODULE ContentStore ----------------------------
(***************************************************************************)
(* What the trait archivindex_wbm_cas::Store promises of `save`, for any   *)
(* number of concurrent callers: a save is one atomic decision, an entry   *)
(* is written once, whole, and never replaced, and a caller is told the    *)
(* truth about which of these happened.  FileStore implements it.          *)
(***************************************************************************)
CONSTANTS
    Savers,     \* threads and processes that call `save` on the same directory
    Digests,    \* Sha1Digest: the keys of the store
    Contents,   \* byte strings a caller may hand over
    Missing,    \* the value of an entry the store does not have
    NoRequest,  \* the saver is not in a call
    DigestOf    \* Sha1Digest::compute, a function from Contents to Digests

VARIABLES
    entry,      \* entry[d]: the bytes stored under d, or Missing
    status,     \* status[s]: whether s is outside a call, in one, or has its answer
    request,    \* request[s]: the arguments of the call s is in, or NoRequest
    answer      \* answer[s]: the SaveSummary (or error) that call returns, or "None"

vars == <<entry, status, request, answer>>

Request == [digest : Digests, bytes : Contents, verify : BOOLEAN]
Answer == {"None", "Success", "AlreadyPresent", "DigestMismatch", "Error"}

\* The bytes do not hash to the digest they are to be stored under, and the caller asked.
Mismatched(r) == r.verify /\ DigestOf[r.bytes] # r.digest

Init ==
    /\ entry = [d \in Digests |-> Missing]
    /\ status = [s \in Savers |-> "idle"]
    /\ request = [s \in Savers |-> NoRequest]
    /\ answer = [s \in Savers |-> "None"]

Call(s) ==
    /\ status[s] = "idle"
    /\ status' = [status EXCEPT ![s] = "pending"]
    /\ \E r \in Request : request' = [request EXCEPT ![s] = r]
    /\ UNCHANGED <<entry, answer>>

Answered(s, a) ==
    /\ status[s] = "pending"
    /\ status' = [status EXCEPT ![s] = "answered"]
    /\ answer' = [answer EXCEPT ![s] = a]
    /\ UNCHANGED request

\* The entry is there: nothing is written and it is not looked at.
FindPresent(s) ==
    /\ Answered(s, "AlreadyPresent")
    /\ entry[request[s].digest] # Missing
    /\ UNCHANGED entry

\* The entry is absent and the bytes are not what they are said to be.
RejectMismatch(s) ==
    /\ Answered(s, "DigestMismatch")
    /\ entry[request[s].digest] = Missing
    /\ Mismatched(request[s])
    /\ UNCHANGED entry

\* The entry is created.  An error is possible even so: the file is visible and the directory
\* that holds it could not be synchronised.
Create(s) ==
    /\ \E a \in {"Success", "Error"} : Answered(s, a)
    /\ entry[request[s].digest] = Missing
    /\ ~ Mismatched(request[s])
    /\ entry' = [entry EXCEPT ![request[s].digest] = request[s].bytes]

\* An I/O error with no effect.
Fail(s) ==
    /\ Answered(s, "Error")
    /\ UNCHANGED entry

Return(s) ==
    /\ status[s] = "answered"
    /\ status' = [status EXCEPT ![s] = "idle"]
    /\ request' = [request EXCEPT ![s] = NoRequest]
    /\ answer' = [answer EXCEPT ![s] = "None"]
    /\ UNCHANGED entry

\* The callers die.  What was stored stays.
Crash ==
    /\ status' = [s \in Savers |-> "idle"]
    /\ request' = [s \in Savers |-> NoRequest]
    /\ answer' = [s \in Savers |-> "None"]
    /\ UNCHANGED entry

Next ==
    \/ \E s \in Savers :
         \/ Call(s)
         \/ FindPresent(s)
         \/ RejectMismatch(s)
         \/ Create(s)
         \/ Fail(s)
         \/ Return(s)
    \/ Crash

Spec == Init /\ [][Next]_vars
=============================================================================
