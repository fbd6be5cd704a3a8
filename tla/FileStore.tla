------------------------------ MODULE FileStore ------------------------------
(***************************************************************************)
(* The filesystem store of crates/cas: `save_atomically`, step by step,    *)
(* for savers that share a directory (threads of one process, or several   *)
(* processes), with I/O errors at every step and with crashes.  Each       *)
(* action is one file-system operation; what lies between two operations   *)
(* is local to the saver.                                                  *)
(***************************************************************************)
EXTENDS Naturals, FiniteSets

CONSTANTS
    Savers,     \* threads and processes that call `save` on the same directory
    Digests,    \* Sha1Digest; Store::path maps each to a path of its own
    Contents,   \* byte strings a caller may hand over
    Missing,    \* no file at a path
    Partial,    \* a temporary file whose encoder has not been finished
    NoTemp,     \* the saver has no temporary file
    NoRequest,  \* the saver is not in a call
    DigestOf,   \* Sha1Digest::compute, a function from Contents to Digests
    MaxCrashes  \* bound of the model: how many crashes a behaviour has

ASSUME ContentsAssumption ==
    /\ DigestOf \in [Contents -> Digests]
    /\ Missing \notin Contents
    /\ Partial \notin Contents
    /\ NoTemp \notin Contents
    /\ Partial # Missing
    /\ Partial # NoTemp
    /\ MaxCrashes \in Nat

VARIABLES
    file,       \* file[d]: what the path of d holds, or Missing
    temp,       \* temp[s]: what the temporary sibling that s created holds, or NoTemp
    stale,      \* the digests whose directory holds a *.tmp file left by a crash
    pc,         \* pc[s]: the next step of `save_atomically` for s
    request,    \* request[s]: the arguments of the call s is in, or NoRequest
    answer,     \* answer[s]: what that call returns, or "None"
    unverified, \* history: digests published by a call with verify = FALSE
    crashes     \* how many crashes there have been

vars == <<file, temp, stale, pc, request, answer, unverified, crashes>>

Request == [digest : Digests, bytes : Contents, verify : BOOLEAN]
Answer == {"None", "Success", "AlreadyPresent", "DigestMismatch", "Error"}
PC == {"idle", "exists", "create", "write", "finish", "publish", "done"}

TypeOK ==
    /\ file \in [Digests -> Contents \cup {Missing, Partial}]
    /\ temp \in [Savers -> Contents \cup {Partial, NoTemp}]
    /\ stale \subseteq Digests
    /\ pc \in [Savers -> PC]
    /\ request \in [Savers -> Request \cup {NoRequest}]
    /\ answer \in [Savers -> Answer]
    /\ unverified \subseteq Digests
    /\ crashes \in 0 .. MaxCrashes

Init ==
    /\ file = [d \in Digests |-> Missing]
    /\ temp = [s \in Savers |-> NoTemp]
    /\ stale = {}
    /\ pc = [s \in Savers |-> "idle"]
    /\ request = [s \in Savers |-> NoRequest]
    /\ answer = [s \in Savers |-> "None"]
    /\ unverified = {}
    /\ crashes = 0
-----------------------------------------------------------------------------
Digest(s) == request[s].digest

Goto(s, step) == pc' = [pc EXCEPT ![s] = step]

\* The call of s returns a.  Dropping the Publication removes its temporary file.
Finish(s, a) ==
    /\ Goto(s, "done")
    /\ answer' = [answer EXCEPT ![s] = a]
    /\ temp' = [temp EXCEPT ![s] = NoTemp]

Call(s) ==
    /\ pc[s] = "idle"
    /\ Goto(s, "exists")
    /\ \E r \in Request : request' = [request EXCEPT ![s] = r]
    /\ UNCHANGED <<file, temp, stale, answer, unverified, crashes>>

Return(s) ==
    /\ pc[s] = "done"
    /\ Goto(s, "idle")
    /\ request' = [request EXCEPT ![s] = NoRequest]
    /\ answer' = [answer EXCEPT ![s] = "None"]
    /\ UNCHANGED <<file, temp, stale, unverified, crashes>>

\* Path::try_exists, and what the policy CreateNew looks at.
Occupied(d) == file[d] # Missing

\* The digest check, which a caller asks for with `verify`.
Mismatched(r) == r.verify /\ DigestOf[r.bytes] # r.digest

\* An entry that exists is left alone, unread; only then are the bytes checked.
CheckExists(s) ==
    /\ pc[s] = "exists"
    /\ IF Occupied(Digest(s))
       THEN Finish(s, "AlreadyPresent")
       ELSE IF Mismatched(request[s])
            THEN Finish(s, "DigestMismatch")
            ELSE Goto(s, "create") /\ UNCHANGED <<answer, temp>>
    /\ UNCHANGED <<file, stale, request, unverified, crashes>>

\* Publication::new(path, CreateNew): the path is looked at again, and an empty temporary
\* sibling with a name of its own is created.
CreateTemp(s) ==
    /\ pc[s] = "create"
    /\ IF Occupied(Digest(s))
       THEN Finish(s, "AlreadyPresent")
       ELSE /\ Goto(s, "write")
            /\ temp' = [temp EXCEPT ![s] = Partial]
            /\ UNCHANGED answer
    /\ UNCHANGED <<file, stale, request, unverified, crashes>>

\* The bytes go through the encoder; until it is finished the file is not a whole entry.
Write(s) ==
    /\ pc[s] = "write"
    /\ Goto(s, "finish")
    /\ UNCHANGED <<file, temp, stale, request, answer, unverified, crashes>>

FinishEncoder(s) ==
    /\ pc[s] = "finish"
    /\ Goto(s, "publish")
    /\ temp' = [temp EXCEPT ![s] = request[s].bytes]
    /\ UNCHANGED <<file, stale, request, answer, unverified, crashes>>

\* Publication::publish without replacement.  The path may have been taken since CreateTemp.
\* Once the entry is visible, synchronising the directory may still fail, and the error is
\* then returned (`is_published`) although the entry stays.
PublishReplaces(s) ==
    /\ pc[s] = "publish"
    /\ file' = [file EXCEPT ![Digest(s)] = temp[s]]
    /\ unverified' = IF request[s].verify THEN unverified ELSE unverified \cup {Digest(s)}
    /\ \E a \in {"Success", "Error"} : Finish(s, a)
    /\ UNCHANGED <<stale, request, crashes>>
PublishTaken(s) ==
    /\ pc[s] = "publish"
    /\ Occupied(Digest(s))
    /\ Finish(s, "AlreadyPresent")
    /\ UNCHANGED <<file, stale, request, unverified, crashes>>
Publish(s) ==
    /\ pc[s] = "publish"
    /\ ~ Occupied(Digest(s))
    /\ file' = [file EXCEPT ![Digest(s)] = temp[s]]
    /\ unverified' = IF request[s].verify THEN unverified ELSE unverified \cup {Digest(s)}
    /\ \E a \in {"Success", "Error"} : Finish(s, a)
    /\ UNCHANGED <<stale, request, crashes>>

\* An I/O error before the entry is visible: `?` in every step.
FailLeavesTemp(s) ==
    /\ pc[s] \in {"exists", "create", "write", "finish", "publish"}
    /\ Finish(s, "Error")
    /\ stale' = IF temp[s] = NoTemp THEN stale ELSE stale \cup {Digest(s)}
    /\ UNCHANGED <<file, request, unverified, crashes>>
Fail(s) ==
    /\ pc[s] \in {"exists", "create", "write", "finish", "publish"}
    /\ Finish(s, "Error")
    /\ UNCHANGED <<file, stale, request, unverified, crashes>>

\* The process dies between two steps.  No destructor runs: temporary files stay behind.
Crash ==
    /\ crashes < MaxCrashes
    /\ crashes' = crashes + 1
    /\ stale' = stale \cup {Digest(s) : s \in {t \in Savers : temp[t] # NoTemp}}
    /\ temp' = [s \in Savers |-> NoTemp]
    /\ pc' = [s \in Savers |-> "idle"]
    /\ request' = [s \in Savers |-> NoRequest]
    /\ answer' = [s \in Savers |-> "None"]
    /\ UNCHANGED <<file, unverified>>

Step(s) ==
    \/ CheckExists(s)
    \/ CreateTemp(s)
    \/ Write(s)
    \/ FinishEncoder(s)
    \/ PublishTaken(s)
    \/ Publish(s)

Next ==
    \/ \E s \in Savers : Call(s) \/ Step(s) \/ Fail(s) \/ Return(s)
    \/ Crash

\* A save is straight-line code: once called it runs until it returns.  No I/O error is owed
\* to anyone, so Fail is not part of it.
Fairness == \A s \in Savers : WF_vars(Step(s))

Spec == Init /\ [][Next]_vars /\ Fairness
-----------------------------------------------------------------------------
(* Properties *)

\* No path ever holds an unfinished encoding, whatever is interrupted: "a failed or
\* interrupted write cannot leave a partial file at the content-addressed path".
WholeFiles == \A d \in Digests : file[d] # Partial

\* A file whose bytes do not hash to its name was put there by a call that did not ask for
\* verification; a verified save cannot be tricked by a concurrent one.
Authentic ==
    \A d \in Digests :
      file[d] \in Contents /\ DigestOf[file[d]] # d => d \in unverified

\* Temporary files outlive their save only because of a crash.
NoLeakedTemp == crashes = 0 => stale = {}

\* What the directory holds, together: whole entries, under their own digests unless somebody
\* asked for no verification, and no temporary file that no crash explains.
DirectoryIsSound == WholeFiles /\ Authentic /\ NoLeakedTemp

\* An entry, once visible, never changes and never goes away, through later saves and crashes.
WriteOnce == [][\A d \in Digests : file[d] # Missing => file'[d] = file[d]]_vars

\* `Success` means that this very call made the entry appear, with its own bytes: of any number
\* of racing savers at most one is told so.
SuccessWrites ==
    [][\A s \in Savers :
         pc[s] # "done" /\ pc'[s] = "done" /\ answer'[s] = "Success"
           => file[Digest(s)] = Missing /\ file'[Digest(s)] = request[s].bytes]_vars

\* The file store implements the abstract store.
Abstract ==
    INSTANCE ContentStore WITH
      entry <- file,
      status <- [s \in Savers |-> CASE pc[s] = "idle" -> "idle"
                                    [] pc[s] = "done" -> "answered"
                                    [] OTHER -> "pending"]
ImplementsContentStore == Abstract!Spec
=============================================================================
