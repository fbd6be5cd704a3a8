----------------------------- MODULE CdxClaims -----------------------------
(***************************************************************************)
(* The statuses of crates/cdx-index/src/lib.rs: items are claimed for a    *)
(* time, and marked done.  One row of the table STATUSES, and workers that *)
(* coordinate as `claim` asks of them: each looks at the row and writes it *)
(* behind a mutex of theirs.  A worker may die while it works on the item. *)
(*                                                                         *)
(* Time is counted in ticks, TicksPerSecond of them in a second.           *)
(***************************************************************************)
EXTENDS Integers, FiniteSets

CONSTANTS
    Workers,
    NoWorker,         \* no worker
    Durations,      \* how long a claim may be asked for, in ticks
    TicksPerSecond,
    Absent,         \* no row: ItemStatus::Available
    Done,           \* ItemStatus::Done
    MaxTime,        \* bound of the model: the last tick
    MaxCrashes      \* bound of the model: the workers that die

ASSUME ClaimAssumption ==
    /\ NoWorker \notin Workers
    /\ Durations \subseteq Nat
    /\ TicksPerSecond \in Nat \ {0}
    /\ Absent \notin Nat /\ Done \notin Nat /\ Absent # Done
    /\ MaxTime \in Nat /\ MaxCrashes \in Nat

VARIABLES
    now,        \* Utc::now()
    stored,     \* the row: Absent, Done, or the second a claim ends
    lock,       \* who holds the mutex of the workers
    stage,         \* where each worker is
    until,      \* the tick until which it has asked for the item
    crashes     \* how many workers have died

claimVars == <<now, stored, lock, stage, until, crashes>>

ClaimInit ==
    /\ now = 0
    /\ stored = Absent
    /\ lock = NoWorker
    /\ stage = [w \in Workers |-> "idle"]
    /\ until = [w \in Workers |-> 0]
    /\ crashes = 0

ClaimTypeOK ==
    /\ now \in 0 .. MaxTime
    /\ stored \in Nat \cup {Absent, Done}
    /\ lock \in Workers \cup {NoWorker}
    /\ stage \in [Workers -> {"idle", "looking", "claiming", "writing", "working", "finishing", "dead"}]
    /\ until \in [Workers -> Nat]
    /\ crashes \in 0 .. MaxCrashes

MoveTo(w, step) == stage' = [stage EXCEPT ![w] = step]
-----------------------------------------------------------------------------
\* decode_status: a claim has lapsed in the second it is stored with.
LapsedNever == FALSE
LapsedOneEarly == stored \in Nat /\ (stored - 1) * TicksPerSecond <= now
Lapsed == stored \in Nat /\ stored * TicksPerSecond <= now

Lock(w, from, to) ==
    /\ stage[w] = from
    /\ lock = NoWorker
    /\ lock' = w
    /\ MoveTo(w, to)
    /\ UNCHANGED <<now, stored, until, crashes>>
BeginClaim(w) == Lock(w, "idle", "looking")

\* get_status.
FindAvailable(w) ==
    /\ stage[w] = "looking"
    /\ stored = Absent \/ Lapsed
    /\ MoveTo(w, "claiming")
    /\ UNCHANGED <<now, stored, lock, until, crashes>>
FindTaken(w) ==
    /\ stage[w] = "looking"
    /\ stored # Absent /\ ~ Lapsed
    /\ lock' = NoWorker
    /\ MoveTo(w, "idle")
    /\ UNCHANGED <<now, stored, until, crashes>>

\* claim reads the clock, and then writes the row.
Claim(w) ==
    /\ stage[w] = "claiming"
    /\ \E d \in Durations : until' = [until EXCEPT ![w] = now + d]
    /\ MoveTo(w, "writing")
    /\ UNCHANGED <<now, stored, lock, crashes>>

\* encode_status keeps the whole seconds of the timeout.
WriteClaim(w) ==
    /\ stage[w] = "writing"
    /\ stored' = until[w] \div TicksPerSecond
    /\ lock' = NoWorker
    /\ MoveTo(w, "working")
    /\ UNCHANGED <<now, until, crashes>>

Finish(w) == Lock(w, "working", "finishing")
MarkDone(w) ==
    /\ stage[w] = "finishing"
    /\ stored' = Done
    /\ lock' = NoWorker
    /\ MoveTo(w, "idle")
    /\ UNCHANGED <<now, until, crashes>>

\* A worker dies, early enough for its claim to lapse before the last tick.
Die(w) ==
    /\ stage[w] = "working"
    /\ crashes < MaxCrashes
    /\ until[w] <= MaxTime
    /\ crashes' = crashes + 1
    /\ MoveTo(w, "dead")
    /\ UNCHANGED <<now, stored, lock, until>>

Tick ==
    /\ now < MaxTime
    /\ now' = now + 1
    /\ UNCHANGED <<stored, lock, stage, until, crashes>>

Critical(w) ==
    FindAvailable(w) \/ FindTaken(w) \/ Claim(w) \/ WriteClaim(w) \/ MarkDone(w)

ClaimNext ==
    \/ \E w \in Workers : BeginClaim(w) \/ Critical(w) \/ Finish(w) \/ Die(w)
    \/ Tick

\* Time passes, workers that are alive go on, and the mutex, which is theirs, is fair to them.
ClaimSpec ==
    /\ ClaimInit /\ [][ClaimNext]_claimVars
    /\ WF_claimVars(Tick)
    /\ \A w \in Workers : WF_claimVars(Critical(w)) /\ SF_claimVars(BeginClaim(w)) /\ SF_claimVars(Finish(w))
-----------------------------------------------------------------------------
(* Properties *)

\* Whether w has the item, with at least so many ticks left.
Holds(w, ticks) == stage[w] \in {"working", "finishing", "dead"} /\ now + ticks <= until[w]

\* Two workers have the item only in the last second of a claim, which is not stored to the end.
ClaimsExcludeToTheSecond ==
    \A v, w \in Workers : v # w /\ Holds(v, TicksPerSecond) => ~ Holds(w, TicksPerSecond)

\* "reverts to Available if not marked Done before `timeout`": a claim keeps others away until
\* the instant it was made for.
ClaimsExclude == \A v, w \in Workers : v # w /\ Holds(v, 1) => ~ Holds(w, 1)

\* The item gets done, whoever dies with it, and stays done.
ItemGetsDone == <>[](stored = Done)
=============================================================================
