---------------------------- MODULE WorkerHealth ----------------------------
(***************************************************************************)
(* The readiness marker of the Temporal worker (worker/main.py and         *)
(* worker/health.py).  The worker probes Temporal in a loop; a successful  *)
(* probe writes the time to a temporary file and renames it to the marker, *)
(* a failed one removes both.  The container's health check is another     *)
(* process that reads the marker and takes it for valid for MaxAge.        *)
(*                                                                         *)
(* Time advances in units in which the timeout, the pause and the age are  *)
(* measured.  A timer that is due runs before time passes on; statements   *)
(* with no await between them take no time.                                *)
(***************************************************************************)
EXTENDS Naturals

CONSTANTS
    Timeout,   \* wait_for around a probe
    Period,    \* the pause between two probes
    MaxAge,    \* MAX_AGE_SECONDS
    Absent     \* the marker file does not exist

\* 5 + 3 < 15 in the code.
ASSUME TimingAssumption ==
    /\ Timeout \in Nat \ {0}
    /\ Period \in Nat \ {0}
    /\ MaxAge \in Nat
    /\ Timeout + Period < MaxAge

ASSUME AbsentAssumption == Absent \notin Nat

VARIABLES
    pc,         \* where the worker process is
    elapsed,    \* since the probe or the pause began
    client,     \* the connection that check_temporal keeps between probes
    temporal,   \* how the Temporal service answers
    disk,       \* whether the file system takes writes
    marker,     \* age of the marker file's timestamp, MaxAge standing for any greater age
    temporary   \* the temporary file exists

vars == <<pc, elapsed, client, temporal, disk, marker, temporary>>
world == <<temporal, disk>>

-----------------------------------------------------------------------------
(* Variants of definitions below, each with a plausible bug: a property is *)
(* told from its absence by failing with one of them (mutants in           *)
(* PROJECT.json).                                                          *)

\* is_ready that does not look at the age of the marker
FaultyIsReady(age) == age # Absent

\* a timer that goes on from the probe into the pause
FaultyPause == pc' = "sleeping" /\ UNCHANGED elapsed

\* a failed probe that leaves the old marker to expire
FaultyWithdraw ==
    pc' = "sleeping" /\ elapsed' = 0 /\ temporary' = FALSE /\ UNCHANGED marker

\* a client reused after it failed
FaultyDropClient == UNCHANGED client

\* a start that does not remove an earlier process's marker
FaultyClear ==
    /\ pc = "starting"
    /\ pc' = "connecting"
    /\ elapsed' = 0
    /\ UNCHANGED <<client, world, marker, temporary>>

-----------------------------------------------------------------------------
Probing == pc \in {"connecting", "checking"}
Down == pc \in {"stopped", "killed"}

\* is_ready: a missing, unreadable or too old marker is not ready.  The lower
\* bound is the code's; no age is negative here, since time.monotonic does not
\* go back while the system that wrote the marker is up.
IsReady(age) == age # Absent /\ 0 <= age /\ age < MaxAge

Ready == IsReady(marker)

-----------------------------------------------------------------------------
\* A probe ends and the pause of the main loop begins.
Pause == pc' = "sleeping" /\ elapsed' = 0

\* refresh_readiness, except branch: both files are removed.
Withdraw == Pause /\ temporary' = FALSE /\ marker' = Absent

\* check_temporal: a client that failed or was cancelled is not used again.
DropClient == client' = "none"

\* check_temporal connects only when it keeps no client.
BeginProbe ==
    /\ pc' = IF client = "none" THEN "connecting" ELSE "checking"
    /\ elapsed' = 0

Boot ==
    /\ Down
    /\ pc' = "starting"
    /\ elapsed' = 0
    /\ client' = "none"
    /\ UNCHANGED <<world, marker, temporary>>

\* main: the marker of an earlier process is removed before the first probe.
Clear ==
    /\ pc = "starting"
    /\ marker' = Absent
    /\ BeginProbe
    /\ UNCHANGED <<client, world, temporary>>

Connected ==
    /\ pc = "connecting"
    /\ temporal \in {"serving", "not_serving"}
    /\ client' = "live"
    /\ pc' = "checking"
    /\ UNCHANGED <<elapsed, world, marker, temporary>>

ConnectFails ==
    /\ pc = "connecting"
    /\ temporal = "refusing"
    /\ DropClient
    /\ Withdraw
    /\ UNCHANGED world

Healthy ==
    /\ pc = "checking"
    /\ client = "live"
    /\ temporal = "serving"
    /\ pc' = "writing"
    /\ UNCHANGED <<elapsed, client, world, marker, temporary>>

\* The service answers that it is not serving.
Unhealthy ==
    /\ pc = "checking"
    /\ client = "live"
    /\ temporal = "not_serving"
    /\ DropClient
    /\ Withdraw
    /\ UNCHANGED world

CheckRaises ==
    /\ pc = "checking"
    /\ client = "broken" \/ temporal = "refusing"
    /\ DropClient
    /\ Withdraw
    /\ UNCHANGED world

\* wait_for cancels the probe; the cancellation passes through check_temporal.
TimesOut ==
    /\ Probing
    /\ elapsed = Timeout
    /\ DropClient
    /\ Withdraw
    /\ UNCHANGED world

WriteTemporary ==
    /\ pc = "writing"
    /\ disk = "ok"
    /\ temporary' = TRUE
    /\ pc' = "replacing"
    /\ UNCHANGED <<elapsed, client, world, marker>>

WriteFails ==
    /\ pc = "writing"
    /\ disk = "failing"
    /\ Withdraw
    /\ UNCHANGED <<client, world>>

\* The rename may succeed where a write would fail.
Replace ==
    /\ pc = "replacing"
    /\ marker' = 0
    /\ temporary' = FALSE
    /\ Pause
    /\ UNCHANGED <<client, world>>

ReplaceFails ==
    /\ pc = "replacing"
    /\ disk = "failing"
    /\ Withdraw
    /\ UNCHANGED <<client, world>>

Wake ==
    /\ pc = "sleeping"
    /\ elapsed = Period
    /\ BeginProbe
    /\ UNCHANGED <<client, world, marker, temporary>>

\* The main task is cancelled at an await: refresh_readiness removes both
\* files, the finally of main the marker.
Interrupt ==
    /\ Probing \/ pc = "sleeping"
    /\ temporary' = (temporary /\ ~Probing)
    /\ marker' = Absent
    /\ DropClient
    /\ pc' = "stopped"
    /\ elapsed' = 0
    /\ UNCHANGED world

\* The process is gone at any point, with no handler run.
Kill ==
    /\ ~Down
    /\ pc' = "killed"
    /\ elapsed' = 0
    /\ client' = "none"
    /\ UNCHANGED <<world, marker, temporary>>

-----------------------------------------------------------------------------
(* The environment.                                                        *)

\* A change of the service may leave an open connection useless for good.
TemporalChanges ==
    /\ temporal' \in {"serving", "not_serving", "refusing", "hung"} \ {temporal}
    /\ client' \in {client} \cup (IF client = "live" THEN {"broken"} ELSE {})
    /\ UNCHANGED <<pc, elapsed, disk, marker, temporary>>

DiskChanges ==
    /\ disk' \in {"ok", "failing"} \ {disk}
    /\ UNCHANGED <<pc, elapsed, client, temporal, marker, temporary>>

\* A serving Temporal answers a call on a good connection before the timeout.
AnswerDue == Probing /\ temporal = "serving" /\ client # "broken" /\ elapsed + 1 = Timeout

\* A step of the worker that must happen before time passes.
Due == \/ pc \in {"writing", "replacing"}
       \/ Probing /\ elapsed = Timeout
       \/ pc = "sleeping" /\ elapsed = Period
       \/ AnswerDue

Tick ==
    /\ ~Due
    /\ elapsed' = IF Probing \/ pc = "sleeping" THEN elapsed + 1 ELSE elapsed
    /\ marker' = IF marker # Absent /\ marker < MaxAge THEN marker + 1 ELSE marker
    /\ UNCHANGED <<pc, client, world, temporary>>

-----------------------------------------------------------------------------
Init ==
    /\ pc = "stopped"
    /\ elapsed = 0
    /\ client = "none"
    /\ temporal = "refusing"
    /\ disk = "ok"
    /\ marker = Absent
    /\ temporary = FALSE

Work ==
    \/ Clear
    \/ Connected
    \/ ConnectFails
    \/ Healthy
    \/ Unhealthy
    \/ CheckRaises
    \/ TimesOut
    \/ WriteTemporary
    \/ WriteFails
    \/ Replace
    \/ ReplaceFails
    \/ Wake

Next ==
    \/ Boot
    \/ Work
    \/ Interrupt
    \/ Kill
    \/ TemporalChanges
    \/ DiskChanges
    \/ Tick

Spec == Init /\ [][Next]_vars

\* The event loop runs what is runnable and the clock goes on.
FairSpec == Spec /\ WF_vars(Work) /\ WF_vars(Tick)

-----------------------------------------------------------------------------
\* Every variable has its type; a pause or a probe is never overdue.
TypeOK ==
    /\ pc \in {"stopped", "killed", "starting", "connecting", "checking", "writing",
               "replacing", "sleeping"}
    /\ elapsed \in 0 .. IF pc = "sleeping" THEN Period ELSE Timeout
    /\ client \in {"none", "live", "broken"}
    /\ temporal \in {"serving", "not_serving", "refusing", "hung"}
    /\ disk \in {"ok", "failing"}
    /\ marker \in 0 .. MaxAge \cup {Absent}
    /\ temporary \in BOOLEAN

\* The marker of a running worker never expires: between two refreshes lie at
\* most a pause and a probe, which MAX_AGE_SECONDS outlasts.  So the health
\* check of a live worker fails only after a probe that failed.
LiveMarkerNeverExpires ==
    pc \notin {"stopped", "killed", "starting"} /\ marker # Absent
        => marker <= Timeout + Period /\ Ready

\* Without a client there is no readiness: a worker that was interrupted, has
\* not finished its first probe or dropped a failed client shows no marker,
\* its own or an earlier process's.
NotReadyWithoutClient ==
    client = "none" /\ pc \notin {"killed", "starting"} => marker = Absent

\* The worker recovers: once Temporal serves for good, the file system works
\* and the process is not stopped, it is ready for good, also when
\* the connection it kept had gone bad.
Recovers ==
    <>[](temporal = "serving" /\ disk = "ok" /\ ~Down) => <>[]Ready

\* Readiness fails closed: once Temporal stops serving for good, or the worker
\* is gone for good with no handler run, the health check fails for good.
FailsClosed ==
    <>[](temporal # "serving" \/ Down) => <>[]~Ready

=============================================================================
