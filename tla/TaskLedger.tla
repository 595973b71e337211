----------------------------- MODULE TaskLedger -----------------------------
(***************************************************************************)
(* What the control plane promises about a task's history, with every      *)
(* operation atomic: versions of its input and starts of its execution are *)
(* appended one at a time, nothing recorded is rewritten or removed, and a *)
(* start refers to a version, recorded before it, that met every readiness *)
(* policy.  No concurrency, no sessions, no statuses.                      *)
(***************************************************************************)
EXTENDS Sequences, Naturals

CONSTANTS Tasks, Contents, Satisfied

VARIABLES
    created,   \* the tasks that exist
    versions,  \* of each task, the payloads of its versions 1, 2, ...
    starts     \* of each task, the version started by its epochs 1, 2, ...

ledger == <<created, versions, starts>>

LedgerInit ==
    /\ created = {}
    /\ versions = [t \in Tasks |-> <<>>]
    /\ starts = [t \in Tasks |-> <<>>]

Create(t) ==
    /\ t \notin created
    /\ created' = created \cup {t}
    /\ UNCHANGED <<versions, starts>>

AppendVersion(t, c) ==
    /\ t \in created
    /\ versions' = [versions EXCEPT ![t] = Append(@, c)]
    /\ UNCHANGED <<created, starts>>

AppendStart(t, n) ==
    /\ n \in 1 .. Len(versions[t])
    /\ versions[t][n] \in Satisfied
    /\ starts' = [starts EXCEPT ![t] = Append(@, n)]
    /\ UNCHANGED <<created, versions>>

LedgerNext ==
    \E t \in Tasks :
        \/ Create(t)
        \/ \E c \in Contents : AppendVersion(t, c)
        \/ \E n \in 1 .. Len(versions[t]) : AppendStart(t, n)

LedgerSpec == LedgerInit /\ [][LedgerNext]_ledger

=============================================================================
