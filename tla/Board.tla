------------------------------- MODULE Board -------------------------------
(***************************************************************************)
(* The task board (src/frontend/src/App.tsx): one React component whose    *)
(* handlers are asynchronous functions over shared view state, run against *)
(* the control plane as its callers may see it (TaskLedger), which other   *)
(* clients change too.                                                     *)
(*                                                                         *)
(* A handler goes on whenever the answer it awaits arrives; what it sets   *)
(* between two awaits is one render (React 19 batches it).  Submit and     *)
(* start buttons are disabled while busy is set, task rows and Refresh are *)
(* not, and any handler's finally clears busy: handlers overlap.           *)
(***************************************************************************)
EXTENDS TaskLedger

CONSTANTS
    Handlers,    \* handler invocations that may overlap: a bound
    MaxCommits,  \* bound on the rows committed
    MaxOthers,   \* bound on the rows committed after which other clients stop
    None         \* null; also: no handler

VARIABLES
    setups,     \* how many projects, repositories and configurations there are
    lists,      \* the lists shown: each task's versions and epoch, and the setups
    selected,   \* the task detail shown
    readiness,  \* the readiness gate shown
    notice,     \* the status line
    busy,       \* the flag that disables the buttons
    handler     \* the handler invocations in flight

view == <<lists, selected, readiness>>
rows == <<ledger, setups>>
vars == <<rows, view, notice, busy, handler>>

Op == {"mount", "reload", "open", "setup", "create", "version", "start"}

Row == [versions : Nat, epoch : Nat]
Listing == [tasks : [Tasks -> Row \cup {None}], setups : Nat]
Detail == [task : Tasks, versions : Nat]
Gate == [work : Tasks, ready : BOOLEAN]
\* What the status line says; a success says it of the rows of a click.
Notice == [kind : {"idle", "error"}] \cup
          [kind : {"started", "success"}, op : Op, task : Tasks \cup {None}, before : Nat]

\* The awaits of the handlers.  "agent", "row", "task", "specification" and
\* "attempt" are POSTs, "open" the pair of GETs of openTask and "inner" its
\* refresh, "outer" the refresh of run, "load" a refresh of its own.
Post == {"agent", "row", "task", "specification", "attempt"}
Refresh == {"inner", "outer", "load"}
Stage == Post \cup Refresh \cup {"open"}

\* A setup is a project, a repository, a configuration, or an agent and then
\* its first configuration.
First(op) ==
    CASE op \in {"mount", "reload"} -> {"load"}
      [] op = "open"    -> {"open"}
      [] op = "setup"   -> {"agent", "row"}
      [] op = "create"  -> {"task"}
      [] op = "version" -> {"specification"}
      [] op = "start"   -> {"attempt"}

After(op, stage) ==
    CASE stage = "agent" -> "row"
      [] stage = "task"  -> "specification"
      [] stage \in {"specification", "attempt"} -> "open"
      [] stage = "open"  -> "inner"
      [] stage = "row" \/ (stage = "inner" /\ op # "open") -> "outer"
      [] OTHER           -> "done"

\* An invocation: what it awaits, the task it is about (its closure), how many
\* rows of its kind there were at the click, and the answers it has.
Invocation == [op : Op, at : Stage, task : Tasks \cup {None}, before : Nat,
               detail : Detail \cup {None}, gate : Gate \cup {None},
               list : Listing \cup {None}]

ASSUME NoneAssumption ==
    None \notin Tasks \cup Row \cup Detail \cup Gate \cup Listing \cup Invocation

InFlight(i) == handler[i] # None

\* Invocations, and the ids of new tasks, are interchangeable: the next one.
NextHandler == CHOOSE i \in Handlers : ~InFlight(i)
NextTask == CHOOSE t \in Tasks : t \notin created

Awaits(i, stages) == InFlight(i) /\ handler[i].at \in stages

-----------------------------------------------------------------------------
(* The control plane's answers.                                            *)

Commits == LET of(t) == (IF t \in created THEN 1 ELSE 0) + Len(versions[t]) + Len(starts[t])
               Sum[S \in SUBSET Tasks] ==
                    IF S = {} THEN 0 ELSE LET t == CHOOSE x \in S : TRUE
                                          IN of(t) + Sum[S \ {t}]
           IN Sum[Tasks] + setups

\* A list answered from a browser cache.
FaultySnapshot == lists

TaskList == [t \in Tasks |-> IF t \in created
                             THEN [versions |-> Len(versions[t]), epoch |-> Len(starts[t])]
                             ELSE None]

Snapshot == [tasks |-> TaskList, setups |-> setups]

\* A detail without its current specification.
FaultyDetailOf(t) == [task |-> t, versions |-> IF versions[t] = <<>> THEN None ELSE Len(versions[t])]

DetailOf(t) == [task |-> t, versions |-> Len(versions[t])]

GateOf(t) == [work |-> t, ready |-> /\ versions[t] # <<>>
                                    /\ versions[t][Len(versions[t])] \in Satisfied]

\* A start binds a version that was current while the service handled it, and
\* is refused when that one does not meet every policy.  Which one it is the
\* board never learns: any version that the ledger allows.
Start(t) == \E n \in 1 .. Len(versions[t]) : AppendStart(t, n)

AddSetup == setups' = setups + 1 /\ UNCHANGED ledger

OtherClient ==
    /\ Commits < MaxOthers
    /\ \/ AddSetup
       \/ \E t \in Tasks :
            /\ \/ Tasks # created /\ t = NextTask /\ Create(t)
               \/ \E c \in Contents : AppendVersion(t, c)
               \/ Start(t)
            /\ UNCHANGED setups
    /\ UNCHANGED <<view, notice, busy, handler>>

-----------------------------------------------------------------------------
(* Clicks.                                                                 *)

Invoke(i, op, t, before) ==
    /\ ~InFlight(i) /\ i = NextHandler
    /\ \E first \in First(op) :
        handler' = [handler EXCEPT ![i] =
            [op |-> op, at |-> first, task |-> t, before |-> before,
             detail |-> None, gate |-> None, list |-> None]]
    /\ UNCHANGED <<rows, view, notice>>

ClickReload(i) == Invoke(i, "reload", None, 0) /\ UNCHANGED busy

\* A task row of the list; not disabled while busy.
ClickTask(i, t) ==
    /\ lists.tasks[t] # None
    /\ Invoke(i, "open", t, 0)
    /\ busy' = TRUE

Submit(i, op, t, before) ==
    /\ ~busy
    /\ Invoke(i, op, t, before)
    /\ busy' = TRUE

SubmitSetup(i) == Submit(i, "setup", None, setups)
SubmitTask(i) == Submit(i, "create", None, 0)

\* The editor is shown only for a task with a current specification.
SubmitVersion(i) ==
    /\ selected # None
    /\ selected.versions > 0
    /\ Submit(i, "version", selected.task, Len(versions[selected.task]))

\* A button that looks at the selection only.
FaultyCanStart == selected # None

CanStart == selected # None /\ readiness # None /\ readiness.ready

ClickStart(i) ==
    /\ CanStart
    /\ Submit(i, "start", selected.task, Len(starts[selected.task]))

-----------------------------------------------------------------------------
(* What a handler does when an answer arrives.                             *)

Report(i, kind) == notice' = [kind |-> kind, op |-> handler[i].op,
                              task |-> handler[i].task, before |-> handler[i].before]
ReportError == notice' = [kind |-> "error"]

\* The handler goes on with another await, or is done.
GoOn(i, stage, t) ==
    handler' = [handler EXCEPT ![i] =
        IF stage = "done" THEN None
        ELSE [@ EXCEPT !.at = stage, !.task = t, !.detail = None, !.gate = None, !.list = None]]

\* The POST commits a row.  Of an agent that gets a configuration next, only
\* the configuration counts as a setup.
CommitsRow(i, t) ==
    LET stage == handler[i].at
    IN  /\ Commits < MaxCommits \/ stage = "agent"
        /\ stage # "task" => t = handler[i].task
        /\ CASE stage = "agent" -> UNCHANGED rows
             [] stage = "row"   -> AddSetup
             [] stage = "task"  -> Tasks # created /\ t = NextTask /\ Create(t) /\ UNCHANGED setups
             [] stage = "specification" ->
                    (\E c \in Contents : AppendVersion(t, c)) /\ UNCHANGED setups
             [] stage = "attempt" -> Start(t) /\ UNCHANGED setups

\* The last POST of a task is followed by openTask, which sets busy again.
PostAnswered(i) ==
    LET next == After(handler[i].op, handler[i].at)
    IN  /\ Awaits(i, Post)
        /\ \E t \in Tasks \cup {None} : CommitsRow(i, t) /\ GoOn(i, next, t)
        /\ IF handler[i].op = "start" THEN Report(i, "started") ELSE UNCHANGED notice
        /\ busy' = (busy \/ next = "open")
        /\ UNCHANGED view

\* A run whose failed call does not stop it.
FaultyFail(i) ==
    /\ GoOn(i, IF handler[i].op \in {"setup", "create", "version", "start"} THEN "outer" ELSE "done",
            handler[i].task)
    /\ busy' = FALSE
    /\ UNCHANGED <<view, notice>>

\* Busy is cleared only on success.
FaultyFailBusy(i) ==
    /\ ReportError
    /\ GoOn(i, "done", handler[i].task)
    /\ UNCHANGED <<view, busy>>

\* An await rejects.  run reports it and ends; openTask reports it and returns
\* as if it had succeeded, so that the handler around it goes on; the failure
\* of a Refresh click is reported nowhere.
Fail(i) ==
    LET h == handler[i]
        nested == h.at \in {"open", "inner"} /\ h.op # "open"
    IN  /\ GoOn(i, IF nested THEN "outer" ELSE "done", h.task)
        /\ IF h.op = "reload" THEN UNCHANGED notice ELSE ReportError
        /\ busy' = IF h.at = "load" THEN busy ELSE FALSE
        /\ UNCHANGED view

\* Refused by the control plane, or not reached.
CallFails(i) ==
    /\ \/ Awaits(i, Post)
       \/ Awaits(i, {"open"}) /\ None \in {handler[i].detail, handler[i].gate}
       \/ Awaits(i, Refresh) /\ handler[i].list = None
    /\ Fail(i)
    /\ UNCHANGED rows

\* Committed, and the answer lost.
AnswerLost(i) ==
    /\ Awaits(i, Post)
    /\ \E t \in Tasks \cup {None} : CommitsRow(i, t)
    /\ Fail(i)

\* The two GETs of openTask answer in any order, at different moments.
ReadDetail(i) ==
    /\ Awaits(i, {"open"}) /\ handler[i].detail = None
    /\ handler' = [handler EXCEPT ![i].detail = DetailOf(handler[i].task)]
    /\ UNCHANGED <<rows, view, notice, busy>>

\* The gate shown as soon as its own answer arrives.
FaultyReadGate(i) ==
    /\ Awaits(i, {"open"}) /\ handler[i].gate = None
    /\ handler' = [handler EXCEPT ![i].gate = GateOf(handler[i].task)]
    /\ readiness' = GateOf(handler[i].task)
    /\ UNCHANGED <<rows, lists, selected, notice, busy>>

ReadGate(i) ==
    /\ Awaits(i, {"open"}) /\ handler[i].gate = None
    /\ handler' = [handler EXCEPT ![i].gate = GateOf(handler[i].task)]
    /\ UNCHANGED <<rows, view, notice, busy>>

Show(i) ==
    /\ Awaits(i, {"open"}) /\ None \notin {handler[i].detail, handler[i].gate}
    /\ selected' = handler[i].detail
    /\ readiness' = handler[i].gate
    /\ GoOn(i, "inner", handler[i].task)
    /\ UNCHANGED <<rows, lists, notice, busy>>

ReadLists(i) ==
    /\ Awaits(i, Refresh) /\ handler[i].list = None
    /\ handler' = [handler EXCEPT ![i].list = Snapshot]
    /\ UNCHANGED <<rows, view, notice, busy>>

\* All lists are set together; run then reports success, and run and openTask
\* clear busy.
SetLists(i) ==
    LET stage == handler[i].at
    IN  /\ Awaits(i, Refresh) /\ handler[i].list # None
        /\ lists' = handler[i].list
        /\ IF stage = "outer" THEN Report(i, "success") ELSE UNCHANGED notice
        /\ busy' = IF stage = "load" THEN busy ELSE FALSE
        /\ GoOn(i, After(handler[i].op, stage), handler[i].task)
        /\ UNCHANGED <<rows, selected, readiness>>

-----------------------------------------------------------------------------

\* The mount effect is the first handler.
Init ==
    /\ LedgerInit
    /\ setups = 0
    /\ lists = [tasks |-> [t \in Tasks |-> None], setups |-> 0]
    /\ selected = None
    /\ readiness = None
    /\ notice = [kind |-> "idle"]
    /\ busy = FALSE
    /\ LET first == CHOOSE i \in Handlers : TRUE
       IN  handler = [j \in Handlers |->
            IF j = first THEN [op |-> "mount", at |-> "load", task |-> None,
                           before |-> 0, detail |-> None, gate |-> None, list |-> None]
                     ELSE None]

Click(i) ==
    \/ ClickReload(i)
    \/ \E t \in Tasks : ClickTask(i, t)
    \/ SubmitSetup(i)
    \/ SubmitTask(i)
    \/ SubmitVersion(i)
    \/ ClickStart(i)

Proceed(i) ==
    \/ PostAnswered(i)
    \/ CallFails(i)
    \/ AnswerLost(i)
    \/ ReadDetail(i)
    \/ ReadGate(i)
    \/ Show(i)
    \/ ReadLists(i)
    \/ SetLists(i)

Next == OtherClient \/ \E i \in Handlers : Click(i) \/ Proceed(i)

Spec == Init /\ [][Next]_vars

\* Every call settles: fetch answers or rejects, and the event loop runs the
\* handler that awaits it.  Nobody has to click.
FairSpec == Spec /\ \A i \in Handlers : WF_vars(Proceed(i))

-----------------------------------------------------------------------------
(* Properties.                                                             *)

\* The rows, the view, the status line and the handlers in flight have their types.
TypeOK ==
    /\ setups \in Nat
    /\ lists \in Listing
    /\ selected \in Detail \cup {None}
    /\ readiness \in Gate \cup {None}
    /\ notice \in Notice
    /\ busy \in BOOLEAN
    /\ handler \in [Handlers -> Invocation \cup {None}]

\* The gate shown is the gate of the task shown, however the answers of
\* overlapping openTask calls are ordered.
ViewOfOneTask ==
    /\ selected = None <=> readiness = None
    /\ selected # None => readiness.work = selected.task

\* What a success speaks of: the row written since the click that saw n rows.
Written(op, t, n) ==
    /\ op = "setup" => setups > n
    /\ op = "create" => t \in created /\ versions[t] # <<>>
    /\ op = "version" => Len(versions[t]) > n
    /\ op = "start" => Len(starts[t]) > n

\* The same row, in the lists of a refresh.
Listed(list, op, t, n) ==
    /\ op = "setup" => list.setups > n
    /\ op = "create" => list.tasks[t] # None
    /\ op = "version" => list.tasks[t].versions > n
    /\ op = "start" => list.tasks[t].epoch > n

\* A success message is true: the rows it speaks of were committed after the
\* click, whatever failed, got lost or overlapped on the way (App.test.tsx
\* "shows an authoritative API rejection without claiming an attempt started").
SuccessIsTrue ==
    notice.kind \in {"started", "success"} => Written(notice.op, notice.task, notice.before)

\* The board shows the work it reports: when a success message appears, the
\* list shown with it already holds the row that was written.
SuccessShowsItsWork ==
    [][notice' # notice /\ notice'.kind = "success"
            => Listed(lists', notice'.op, notice'.task, notice'.before)]_vars

\* An attempt is requested only for the task whose gate is shown, and only
\* when that gate is shown as passed (App.test.tsx "fails closed in the UI").
StartsWhatIsShown ==
    [][\A i \in Handlers :
        ~InFlight(i) /\ handler'[i] # None /\ handler'[i].op = "start"
            => readiness = [work |-> handler'[i].task, ready |-> TRUE]]_vars

\* The buttons are never left disabled: busy is set only while some handler
\* is in flight that will clear it.
BusyIsWork ==
    busy => \E i \in Handlers : InFlight(i) /\ handler[i].at # "load"

\* Busy ends, whatever fails and whatever else is clicked meanwhile.
BusyEnds == busy ~> ~busy

=============================================================================
