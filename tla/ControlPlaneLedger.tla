------------------------- MODULE ControlPlaneLedger -------------------------
(***************************************************************************)
(* The control plane implements TaskLedger.  The history of a task is read *)
(* off its rows: version n is the specification row numbered n, up to the  *)
(* version of the current specification; epoch n is the attempt row with   *)
(* that epoch, up to the task's ownership_epoch.                           *)
(***************************************************************************)
EXTENDS ControlPlane

SpecAt(t, n) == CHOOSE s \in SpecsOf(t) : specs[s].version = n

AttemptAt(t, e) == CHOOSE a \in AttemptsOf(t) : attempts[a].epoch = e

CurrentVersion(t) ==
    IF ~IsTask(t) \/ tasks[t].current = NoSpec THEN 0 ELSE specs[tasks[t].current].version

CurrentEpoch(t) == IF IsTask(t) THEN tasks[t].epoch ELSE 0

VersionHistory == [t \in Tasks |->
    [n \in 1 .. CurrentVersion(t) |-> specs[SpecAt(t, n)].content]]

StartHistory == [t \in Tasks |->
    [e \in 1 .. CurrentEpoch(t) |-> specs[attempts[AttemptAt(t, e)].spec].version]]

Ledger == INSTANCE TaskLedger WITH
    created <- {t \in Tasks : IsTask(t)},
    versions <- VersionHistory,
    starts <- StartHistory

\* Requests that race on stale copies of a task still produce, on the tables,
\* a history that atomic appends could have produced: every commit appends
\* one version or one start, and a refused or lost request appends nothing.
ImplementsLedger == Ledger!LedgerSpec

=============================================================================
