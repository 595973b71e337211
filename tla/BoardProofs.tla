----------------------------- MODULE BoardProofs -----------------------------
(***************************************************************************)
(* Theorems about Board, for any number of tasks and overlapping handlers. *)
(* The invariants are inductive together with Sound, what an invocation in *)
(* flight knows: the answers it holds are of its own task, and past its    *)
(* last POST the rows it wrote are there.  The ledger only grows, so what  *)
(* a handler or a message once knew stays true.                            *)
(***************************************************************************)
EXTENDS Board, TLAPS, SequenceTheorems

LedgerOK ==
    /\ setups \in Nat
    /\ created \in SUBSET Tasks
    /\ versions \in [Tasks -> Seq(Contents)]
    /\ starts \in [Tasks -> Seq(Nat)]
    /\ \A t \in Tasks : versions[t] # <<>> \/ starts[t] # <<>> => t \in created

StagesOf(op) ==
    CASE op \in {"mount", "reload"} -> {"load"}
      [] op = "open"    -> {"open", "inner"}
      [] op = "setup"   -> {"agent", "row", "outer"}
      [] op = "create"  -> {"task", "specification", "open", "inner", "outer"}
      [] op = "version" -> {"specification", "open", "inner", "outer"}
      [] op = "start"   -> {"attempt", "open", "inner", "outer"}

Sound(h) ==
    /\ h.at \in StagesOf(h.op)
    /\ h.op \in {"open", "version", "start"} => h.task \in Tasks
    /\ h.op = "version" => h.before <= Len(versions[h.task])
    /\ h.op = "start" => h.before <= Len(starts[h.task])
    /\ h.op = "setup" => h.before <= setups
    /\ h.op = "create" /\ h.at # "task" => h.task \in created
    /\ h.at \in {"open", "inner", "outer"} => Written(h.op, h.task, h.before)
    /\ h.detail # None => h.at = "open" /\ h.detail.task = h.task
    /\ h.gate # None => h.at = "open" /\ h.gate.work = h.task
    /\ h.at = "outer" /\ h.list # None => Listed(h.list, h.op, h.task, h.before)

HandlersSound == \A i \in Handlers : InFlight(i) => Sound(handler[i])

\* The task a success message is about.
NoticeTask == notice.kind \in {"started", "success"} =>
    /\ notice.before \in Nat
    /\ notice.op \in {"create", "version", "start"} => notice.task \in Tasks

BoardInv ==
    /\ TypeOK
    /\ LedgerOK
    /\ HandlersSound
    /\ ViewOfOneTask
    /\ SuccessIsTrue
    /\ NoticeTask
    /\ BusyIsWork

\* The ledger only grows.
Grows ==
    /\ setups <= setups'
    /\ created \subseteq created'
    /\ \A t \in Tasks : /\ Len(versions[t]) <= Len(versions'[t])
                        /\ versions[t] # <<>> => versions'[t] # <<>>
                        /\ Len(starts[t]) <= Len(starts'[t])

-----------------------------------------------------------------------------
(* The ledger.                                                             *)

\* Lengths are numbers.
LEMMA Lengths ==
  ASSUME LedgerOK, NEW t \in Tasks
  PROVE  /\ versions[t] \in Seq(Contents) /\ Len(versions[t]) \in Nat
         /\ starts[t] \in Seq(Nat) /\ Len(starts[t]) \in Nat
         /\ versions[t] # <<>> <=> Len(versions[t]) > 0
         /\ starts[t] # <<>> <=> Len(starts[t]) > 0
BY LenProperties, EmptySeq DEF LedgerOK

\* A ledger that does not change grows.
LEMMA StaysGrows ==
  ASSUME LedgerOK, UNCHANGED rows
  PROVE  LedgerOK' /\ Grows
BY Lengths DEF LedgerOK, Grows, rows, ledger

\* A new task.
LEMMA CreateGrows ==
  ASSUME LedgerOK, Tasks # created, Create(NextTask), UNCHANGED setups
  PROVE  LedgerOK' /\ Grows /\ NextTask \in Tasks /\ NextTask \in created'
<1>1. NextTask \in Tasks
  BY DEF NextTask, LedgerOK
<1> QED
  BY <1>1, Lengths DEF Create, LedgerOK, Grows

\* A new version is one more.
LEMMA AppendVersionGrows ==
  ASSUME LedgerOK, NEW t \in Tasks, NEW c \in Contents, AppendVersion(t, c), UNCHANGED setups
  PROVE  /\ LedgerOK' /\ Grows /\ t \in created /\ created' = created
         /\ Len(versions'[t]) = Len(versions[t]) + 1
         /\ versions'[t] # <<>>
<1>1. /\ versions'[t] = Append(versions[t], c)
      /\ \A u \in Tasks : u # t => versions'[u] = versions[u]
      /\ UNCHANGED <<created, starts>> /\ t \in created
      /\ versions' = [versions EXCEPT ![t] = Append(versions[t], c)]
  BY DEF AppendVersion, LedgerOK
<1>2. /\ Append(versions[t], c) \in Seq(Contents)
      /\ Len(Append(versions[t], c)) = Len(versions[t]) + 1
      /\ Append(versions[t], c) # <<>>
  BY Lengths, AppendProperties
<1>3. LedgerOK'
  BY <1>1, <1>2 DEF LedgerOK
<1>4. Grows
  <2>1. setups' = setups /\ setups \in Nat
    BY DEF LedgerOK
  <2> QED
    BY <1>1, <1>2, <2>1, Lengths DEF Grows
<1> QED
  BY <1>1, <1>2, <1>3, <1>4

\* A start is one more.
LEMMA StartGrows ==
  ASSUME LedgerOK, NEW t \in Tasks, Start(t), UNCHANGED setups
  PROVE  /\ LedgerOK' /\ Grows
         /\ Len(starts'[t]) = Len(starts[t]) + 1
<1>0. PICK n \in 1 .. Len(versions[t]) : AppendStart(t, n)
  BY DEF Start
<1>1. /\ starts'[t] = Append(starts[t], n)
      /\ \A u \in Tasks : u # t => starts'[u] = starts[u]
      /\ UNCHANGED <<created, versions>>
      /\ starts' = [starts EXCEPT ![t] = Append(starts[t], n)]
  BY <1>0 DEF AppendStart, LedgerOK
<1>2. n \in Nat /\ starts[t] \in Seq(Nat) /\ versions[t] # <<>>
  BY <1>0, Lengths
<1>3. /\ Append(starts[t], n) \in Seq(Nat)
      /\ Len(Append(starts[t], n)) = Len(starts[t]) + 1
  BY <1>2, AppendProperties
<1>4. t \in created
  BY <1>2 DEF LedgerOK
<1>5. LedgerOK'
  BY <1>1, <1>3, <1>4 DEF LedgerOK
<1>6. Grows
  <2>1. setups' = setups /\ setups \in Nat
    BY DEF LedgerOK
  <2> QED
    BY <1>1, <1>3, <2>1, Lengths DEF Grows
<1> QED
  BY <1>1, <1>3, <1>5, <1>6

\* A new setup.
LEMMA SetupGrows ==
  ASSUME LedgerOK, AddSetup
  PROVE  LedgerOK' /\ Grows /\ setups' = setups + 1
BY Lengths DEF AddSetup, LedgerOK, Grows, ledger

\* Another client's operation.
LEMMA OtherGrows ==
  ASSUME LedgerOK, OtherClient
  PROVE  LedgerOK' /\ Grows
BY CreateGrows, AppendVersionGrows, StartGrows, SetupGrows DEF OtherClient

-----------------------------------------------------------------------------
(* Invocations.                                                            *)

\* What was written stays written.
LEMMA WrittenStays ==
  ASSUME LedgerOK, LedgerOK', Grows, NEW op, NEW t, NEW n \in Nat, Written(op, t, n),
         op \in {"create", "version", "start"} => t \in Tasks
  PROVE  Written(op, t, n)'
BY Lengths DEF Written, Grows, LedgerOK

\* What an invocation knows stays true.
LEMMA SoundStays ==
  ASSUME LedgerOK, LedgerOK', Grows, NEW h \in Invocation, Sound(h)
  PROVE  Sound(h)'
<1>1. h.before \in Nat /\ h.op \in Op
  BY DEF Invocation
<1>2. h.op = "create" /\ h.at # "task" => h.task \in created'
  BY DEF Sound, Grows
<1>3. h.op = "version" => h.before <= Len(versions'[h.task])
  BY <1>1, Lengths DEF Sound, Grows, LedgerOK
<1>4. h.op = "start" => h.before <= Len(starts'[h.task])
  BY <1>1, Lengths DEF Sound, Grows, LedgerOK
<1>6. h.op = "setup" => h.before <= setups'
  BY <1>1 DEF Sound, Grows, LedgerOK
<1>5. h.at \in {"open", "inner", "outer"} => Written(h.op, h.task, h.before)'
  <2>1. h.at \in {"open", "inner", "outer"} => (h.op \in {"create", "version", "start"} => h.task \in Tasks)
    BY DEF Sound, LedgerOK
  <2> QED
    BY <1>1, <2>1, WrittenStays DEF Sound
<1> QED
  BY <1>2, <1>3, <1>4, <1>5, <1>6 DEF Sound, Listed

\* A handler in flight has an invocation.
LEMMA InFlightInvocation ==
  ASSUME TypeOK, NEW i \in Handlers
  PROVE  /\ InFlight(i) => handler[i] \in Invocation
         /\ None \notin Invocation /\ None \notin Tasks /\ None \notin Detail
         /\ None \notin Gate /\ None \notin Listing /\ None \notin Row
BY NoneAssumption DEF TypeOK, InFlight

\* A step that replaces one invocation keeps the others sound.
LEMMA HandlersStep ==
  ASSUME TypeOK, HandlersSound, LedgerOK, LedgerOK', Grows, NEW i \in Handlers,
         NEW new \in Invocation \cup {None}, new # None => Sound(new)',
         handler' = [handler EXCEPT ![i] = new]
  PROVE  /\ HandlersSound'
         /\ handler' \in [Handlers -> Invocation \cup {None}]
         /\ handler'[i] = new
         /\ \A j \in Handlers : j # i => handler'[j] = handler[j]
<1>1. handler \in [Handlers -> Invocation \cup {None}]
  BY DEF TypeOK
<1>2. /\ handler'[i] = new
      /\ \A j \in Handlers : j # i => handler'[j] = handler[j]
      /\ handler' \in [Handlers -> Invocation \cup {None}]
  BY <1>1
<1>3. ASSUME NEW j \in Handlers, InFlight(j)'
      PROVE  Sound(handler[j])'
  <2>1. CASE j = i
    BY <2>1, <1>2, <1>3 DEF InFlight, Sound, Written, Listed
  <2>2. CASE j # i
    <3>1. InFlight(j) /\ handler'[j] = handler[j]
      BY <2>2, <1>2, <1>3 DEF InFlight
    <3>2. PICK h \in Invocation : h = handler[j]
      BY <3>1, InFlightInvocation
    <3>3. Sound(h)'
      BY <3>1, <3>2, SoundStays DEF HandlersSound
    <3> QED
      BY <3>1, <3>2, <3>3 DEF Sound, Written, Listed
  <2> QED
    BY <2>1, <2>2
<1> QED
  BY <1>2, <1>3 DEF HandlersSound

\* A step that leaves the handlers alone, while the ledger grows.
LEMMA HandlersStay ==
  ASSUME TypeOK, HandlersSound, LedgerOK, LedgerOK', Grows, UNCHANGED handler
  PROVE  HandlersSound'
<1> SUFFICES ASSUME NEW j \in Handlers, InFlight(j)'
             PROVE  Sound(handler[j])'
  BY DEF HandlersSound
<1>1. InFlight(j) /\ handler'[j] = handler[j]
  BY DEF InFlight
<1>2. PICK h \in Invocation : h = handler[j]
  BY <1>1, InFlightInvocation
<1>3. Sound(h)'
  BY <1>1, <1>2, SoundStays DEF HandlersSound
<1> QED
  BY <1>1, <1>2, <1>3 DEF Sound, Written, Listed

\* A message that stays on the board stays true.
LEMMA SuccessStays ==
  ASSUME LedgerOK, LedgerOK', Grows, NoticeTask, SuccessIsTrue, UNCHANGED notice
  PROVE  SuccessIsTrue'
<1> SUFFICES ASSUME notice.kind \in {"started", "success"}
             PROVE  Written(notice.op, notice.task, notice.before)'
  BY DEF SuccessIsTrue
<1>1. PICK op, t, n : op = notice.op /\ t = notice.task /\ n = notice.before
  OBVIOUS
<1>2. Written(op, t, n)'
  BY <1>1, WrittenStays DEF SuccessIsTrue, NoticeTask
<1> QED
  BY <1>1, <1>2 DEF Written

\* A message made of an invocation that wrote its rows is true.
LEMMA ReportTrue ==
  ASSUME LedgerOK', NEW i \in Handlers, NEW h \in Invocation, h = handler[i], Sound(h),
         NEW kind \in {"started", "success"}, Report(i, kind),
         Written(h.op, h.task, h.before)'
  PROVE  SuccessIsTrue' /\ NoticeTask' /\ notice' \in Notice
<1>1. notice' = [kind |-> kind, op |-> h.op, task |-> h.task, before |-> h.before]
  BY DEF Report
<1>2. h.op \in Op /\ h.task \in Tasks \cup {None} /\ h.before \in Nat
  BY DEF Invocation
<1>3. SuccessIsTrue'
  BY <1>1 DEF SuccessIsTrue, Written
<1>4. notice' \in Notice
  BY <1>1, <1>2 DEF Notice
<1>5. h.op = "create" => h.task \in Tasks
  BY DEF Sound, LedgerOK, Written
<1> QED
  BY <1>1, <1>2, <1>3, <1>4, <1>5 DEF NoticeTask, Sound

\* Busy is work as long as the handler that changes is, or was not.
LEMMA BusyStep ==
  ASSUME BusyIsWork, NEW i \in Handlers, NEW new, handler'[i] = new,
         \A j \in Handlers : j # i => handler'[j] = handler[j],
         \/ busy' = FALSE
         \/ new # None /\ new.at # "load"
         \/ busy' = busy /\ (InFlight(i) => handler[i].at = "load")
  PROVE  BusyIsWork'
BY DEF BusyIsWork, InFlight

-----------------------------------------------------------------------------
(* The actions.                                                            *)

\* Other clients change the ledger only.
LEMMA OtherInv ==
  ASSUME BoardInv, OtherClient
  PROVE  BoardInv'
<1> USE DEF BoardInv
<1>1. LedgerOK' /\ Grows /\ UNCHANGED <<view, notice, busy, handler>>
  BY OtherGrows DEF OtherClient
<1>2. HandlersSound' /\ SuccessIsTrue'
  BY <1>1, HandlersStay, SuccessStays
<1> QED
  BY <1>1, <1>2 DEF LedgerOK, TypeOK, view, ViewOfOneTask, NoticeTask, BusyIsWork, InFlight

\* A click starts an invocation that knows its task.
LEMMA InvokeInv ==
  ASSUME BoardInv, NEW i \in Handlers, NEW op \in Op, NEW t \in Tasks \cup {None}, NEW n \in Nat,
         Invoke(i, op, t, n),
         op \in {"open", "version", "start"} => t \in Tasks,
         op = "version" => n <= Len(versions[t]),
         op = "start" => n <= Len(starts[t]),
         op = "setup" => n <= setups,
         busy' = busy \/ (busy' = TRUE /\ op \notin {"mount", "reload"})
  PROVE  BoardInv'
<1> USE DEF BoardInv
<1>1. PICK first \in First(op) :
        handler' = [handler EXCEPT ![i] = [op |-> op, at |-> first, task |-> t, before |-> n,
                                           detail |-> None, gate |-> None, list |-> None]]
  BY DEF Invoke
<1> DEFINE new == [op |-> op, at |-> first, task |-> t, before |-> n,
                   detail |-> None, gate |-> None, list |-> None]
<1>2. LedgerOK' /\ Grows /\ UNCHANGED <<rows, view, notice>> /\ ~InFlight(i)
  BY StaysGrows DEF Invoke
<1>3. /\ first \in Stage /\ first \in StagesOf(op) /\ first \notin {"inner", "outer"}
      /\ first = "open" => op = "open"
      /\ op = "create" => first = "task"
      /\ first = "load" => op \in {"mount", "reload"}
  BY DEF First, Stage, Post, Refresh, StagesOf, Op
<1>4. new \in Invocation
  BY <1>3 DEF Invocation
<1>5. new # None
  BY <1>4, InFlightInvocation
<1>6. Sound(new)'
  BY <1>2, <1>3 DEF Sound, Written, rows, ledger
<1>7. handler' = [handler EXCEPT ![i] = new]
  BY <1>1
<1>8. /\ HandlersSound' /\ handler' \in [Handlers -> Invocation \cup {None}] /\ handler'[i] = new
      /\ \A j \in Handlers : j # i => handler'[j] = handler[j]
  <2> HIDE DEF new
  <2> QED
    BY <1>2, <1>4, <1>6, <1>7, HandlersStep
<1>9. BusyIsWork'
  <2>1. new.at # "load" \/ (busy' = busy /\ (InFlight(i) => handler[i].at = "load"))
    BY <1>2, <1>3
  <2> QED
    BY <1>5, <1>8, <2>1, BusyStep
<1>10. SuccessIsTrue'
  BY <1>2, SuccessStays
<1> QED
  BY <1>2, <1>8, <1>9, <1>10 DEF LedgerOK, TypeOK, view, ViewOfOneTask, NoticeTask

\* Every click.
LEMMA ClickInv ==
  ASSUME BoardInv, NEW i \in Handlers, Click(i)
  PROVE  BoardInv'
<1>1. CASE ClickReload(i)
  BY <1>1, InvokeInv DEF ClickReload, Op
<1>2. CASE \E t \in Tasks : ClickTask(i, t)
  BY <1>2, InvokeInv DEF ClickTask, Op
<1>3. CASE SubmitSetup(i) \/ SubmitTask(i)
  <2>1. setups \in Nat /\ setups <= setups
    BY DEF BoardInv, LedgerOK
  <2> QED
    BY <1>3, <2>1, InvokeInv DEF SubmitSetup, SubmitTask, Submit, Op
<1>4. CASE SubmitVersion(i)
  <2>1. selected.task \in Tasks /\ Len(versions[selected.task]) \in Nat
    BY <1>4, Lengths DEF SubmitVersion, BoardInv, TypeOK, Detail
  <2>2. PICK t \in Tasks, n \in Nat : t = selected.task /\ n = Len(versions[t])
    BY <2>1
  <2>3. Invoke(i, "version", t, n) /\ busy' = TRUE /\ n <= Len(versions[t])
    BY <1>4, <2>2 DEF SubmitVersion, Submit
  <2> QED
    BY <2>3, InvokeInv DEF Op
<1>5. CASE ClickStart(i)
  <2>1. selected.task \in Tasks /\ Len(starts[selected.task]) \in Nat
    BY <1>5, Lengths DEF ClickStart, CanStart, BoardInv, TypeOK, Detail
  <2>2. PICK t \in Tasks, n \in Nat : t = selected.task /\ n = Len(starts[t])
    BY <2>1
  <2>3. Invoke(i, "start", t, n) /\ busy' = TRUE /\ n <= Len(starts[t])
    BY <1>5, <2>2 DEF ClickStart, Submit
  <2> QED
    BY <2>3, InvokeInv DEF Op
<1> QED
  BY <1>1, <1>2, <1>3, <1>4, <1>5 DEF Click

\* A handler that goes on, or ends.
LEMMA GoOnEffect ==
  ASSUME TypeOK, NEW i \in Handlers, InFlight(i), NEW stage \in Stage \cup {"done"},
         NEW t \in Tasks \cup {None}, GoOn(i, stage, t)
  PROVE  \E new \in Invocation \cup {None} :
            /\ handler' = [handler EXCEPT ![i] = new]
            /\ new = None <=> stage = "done"
            /\ new # None => /\ new.at = stage /\ new.task = t
                             /\ new.op = handler[i].op /\ new.before = handler[i].before
                             /\ new.detail = None /\ new.gate = None /\ new.list = None
<1> DEFINE new == IF stage = "done" THEN None
                  ELSE [handler[i] EXCEPT !.at = stage, !.task = t, !.detail = None,
                                          !.gate = None, !.list = None]
<1>1. handler[i] \in Invocation /\ None \notin Invocation
  BY InFlightInvocation
<1>2. handler' = [handler EXCEPT ![i] = new]
  BY DEF GoOn, TypeOK
<1>3. /\ new \in Invocation \cup {None}
      /\ new = None <=> stage = "done"
      /\ new # None => /\ new.at = stage /\ new.task = t
                       /\ new.op = handler[i].op /\ new.before = handler[i].before
                       /\ new.detail = None /\ new.gate = None /\ new.list = None
  BY <1>1, NoneAssumption DEF Invocation
<1> HIDE DEF new
<1> QED
  BY <1>2, <1>3

\* A step of a handler keeps the invariant when what it goes on with is
\* sound, the view it leaves is of one task, the message it leaves is true,
\* and it clears busy or is still at work.
LEMMA ProceedStep ==
  ASSUME BoardInv, NEW i \in Handlers, LedgerOK', Grows,
         NEW new \in Invocation \cup {None}, handler' = [handler EXCEPT ![i] = new],
         new # None => Sound(new)',
         \/ busy' = FALSE
         \/ busy' \in BOOLEAN /\ new # None /\ new.at # "load"
         \/ busy' = busy /\ handler[i].at = "load",
         lists' \in Listing, selected' \in Detail \cup {None}, readiness' \in Gate \cup {None},
         ViewOfOneTask',
         UNCHANGED notice \/ (SuccessIsTrue' /\ NoticeTask' /\ notice' \in Notice)
  PROVE  BoardInv'
<1> USE DEF BoardInv
<1>1. /\ HandlersSound' /\ handler' \in [Handlers -> Invocation \cup {None}] /\ handler'[i] = new
      /\ \A j \in Handlers : j # i => handler'[j] = handler[j]
  BY HandlersStep
<1>2. BusyIsWork'
  BY <1>1, BusyStep
<1>3. SuccessIsTrue' /\ NoticeTask' /\ notice' \in Notice
  <2>1. CASE UNCHANGED notice
    BY <2>1, SuccessStays DEF NoticeTask, TypeOK
  <2> QED
    BY <2>1
<1>4. busy' \in BOOLEAN
  BY DEF TypeOK
<1> QED
  BY <1>1, <1>2, <1>3, <1>4 DEF LedgerOK, TypeOK

\* An error is no claim.
LEMMA ErrorTrue ==
  ASSUME ReportError
  PROVE  SuccessIsTrue' /\ NoticeTask' /\ notice' \in Notice
BY DEF ReportError, SuccessIsTrue, NoticeTask, Notice

\* A failed call ends the handler, or makes run go on after openTask, whose
\* rows were written.
LEMMA FailInv ==
  ASSUME BoardInv, NEW i \in Handlers, InFlight(i), LedgerOK', Grows, Fail(i)
  PROVE  BoardInv'
<1>1. PICK h \in Invocation : h = handler[i]
  BY InFlightInvocation DEF BoardInv
<1>2. Sound(h) /\ Sound(h)'
  BY <1>1, SoundStays DEF BoardInv, HandlersSound
<1>3. PICK stage \in {"outer", "done"} :
        /\ GoOn(i, stage, h.task)
        /\ stage = "outer" => h.at \in {"open", "inner"} /\ h.op # "open"
  BY <1>1 DEF Fail
<1>4. h.task \in Tasks \cup {None} /\ stage \in Stage \cup {"done"}
  BY <1>1 DEF Invocation, Stage, Refresh
<1>5. PICK new \in Invocation \cup {None} :
        /\ handler' = [handler EXCEPT ![i] = new]
        /\ new = None <=> stage = "done"
        /\ new # None => /\ new.at = stage /\ new.task = h.task
                         /\ new.op = h.op /\ new.before = h.before
                         /\ new.detail = None /\ new.gate = None /\ new.list = None
  BY <1>1, <1>3, <1>4, GoOnEffect DEF BoardInv
<1>6. new # None => Sound(new)'
  <2> SUFFICES ASSUME new # None
               PROVE  Sound(new)'
    OBVIOUS
  <2>1. stage = "outer" /\ h.at \in {"open", "inner"} /\ h.op # "open"
    BY <1>3, <1>5
  <2>2. "outer" \in StagesOf(h.op)
    <3>1. h.op \in Op
      BY DEF Invocation
    <3> QED
      BY <3>1, <2>1, <1>2 DEF Sound, StagesOf, Op
  <2> QED
    BY <2>1, <2>2, <1>2, <1>5 DEF Sound
<1>7. UNCHANGED view /\ (UNCHANGED notice \/ ReportError)
  BY DEF Fail
<1>8. busy' = FALSE \/ (busy' = busy /\ handler[i].at = "load")
  BY DEF Fail
<1>9. /\ lists' \in Listing /\ selected' \in Detail \cup {None} /\ readiness' \in Gate \cup {None}
      /\ ViewOfOneTask'
  BY <1>7 DEF view, BoardInv, TypeOK, ViewOfOneTask
<1> QED
  BY <1>5, <1>6, <1>7, <1>8, <1>9, ErrorTrue, ProceedStep

\* What a handler awaits after a POST is sound once the POST has committed
\* its row.
LEMMA CommitsSound ==
  ASSUME BoardInv, NEW i \in Handlers, NEW h \in Invocation, h = handler[i], Sound(h),
         h.at \in Post, NEW t \in Tasks \cup {None}, CommitsRow(i, t),
         NEW new \in Invocation, new.op = h.op, new.before = h.before, new.task = t,
         new.at = After(h.op, h.at), new.detail = None, new.gate = None, new.list = None
  PROVE  LedgerOK' /\ Grows /\ Sound(new)'
<1> USE DEF BoardInv
<1>1. h.op \in Op /\ h.before \in Nat /\ h.at \in StagesOf(h.op)
  BY DEF Invocation, Sound
<1>2. CASE h.at \in {"agent", "row"}
  <2>1. h.op = "setup"
    BY <1>1, <1>2 DEF StagesOf, Op
  <2>2. CASE h.at = "agent"
    <3>1. UNCHANGED rows /\ new.at = "row" /\ new.op = "setup"
      BY <2>1, <2>2 DEF CommitsRow, After
    <3>2. LedgerOK' /\ Grows /\ setups' = setups
      BY <3>1, StaysGrows DEF rows
    <3> QED
      BY <2>1, <3>1, <3>2 DEF Sound, StagesOf
  <2>3. CASE h.at = "row"
    <3>1. AddSetup /\ new.at = "outer" /\ new.op = "setup"
      BY <2>1, <2>3 DEF CommitsRow, After
    <3>2. LedgerOK' /\ Grows /\ setups' = setups + 1
      BY <3>1, SetupGrows
    <3>3. new.before <= setups /\ setups \in Nat /\ new.before \in Nat
      BY <1>1, <2>1 DEF Sound, LedgerOK
    <3> QED
      BY <3>1, <3>2, <3>3 DEF Sound, StagesOf, Written
  <2> QED
    BY <1>2, <2>2, <2>3
<1>3. CASE h.at = "task"
  <2>1. /\ h.op = "create" /\ Tasks # created /\ t = NextTask /\ Create(NextTask)
        /\ UNCHANGED setups
    BY <1>1, <1>3 DEF StagesOf, Op, CommitsRow
  <2>2. LedgerOK' /\ Grows /\ t \in created'
    BY <2>1, CreateGrows
  <2>3. new.at = "specification" /\ new.op = "create"
    BY <1>3, <2>1 DEF After
  <2> QED
    BY <2>2, <2>3 DEF Sound, StagesOf
<1>4. CASE h.at = "specification"
  <2>1. h.op \in {"create", "version"} /\ h.task \in Tasks
    BY <1>1, <1>4 DEF StagesOf, Op, Sound, LedgerOK
  <2>2. t = h.task /\ (\E c \in Contents : AppendVersion(t, c)) /\ UNCHANGED setups
    BY <1>4 DEF CommitsRow
  <2>3. /\ LedgerOK' /\ Grows /\ t \in created'
        /\ Len(versions'[t]) = Len(versions[t]) + 1 /\ versions'[t] # <<>>
    BY <2>1, <2>2, AppendVersionGrows
  <2>4. new.at = "open"
    BY <1>4 DEF After
  <2>5. h.op = "version" => h.before < Len(versions'[t])
    BY <1>1, <2>1, <2>2, <2>3, Lengths DEF Sound
  <2> QED
    BY <1>1, <2>1, <2>2, <2>3, <2>4, <2>5, Lengths DEF Sound, StagesOf, Written
<1>5. CASE h.at = "attempt"
  <2>1. h.op = "start" /\ h.task \in Tasks
    BY <1>1, <1>5 DEF StagesOf, Op, Sound
  <2>2. t = h.task /\ Start(t) /\ UNCHANGED setups
    BY <1>5 DEF CommitsRow
  <2>3. LedgerOK' /\ Grows /\ Len(starts'[t]) = Len(starts[t]) + 1
    BY <2>1, <2>2, StartGrows
  <2>4. new.at = "open"
    BY <1>5 DEF After
  <2>5. h.before < Len(starts'[t])
    BY <1>1, <2>1, <2>2, <2>3, Lengths DEF Sound
  <2> QED
    BY <1>1, <2>1, <2>2, <2>3, <2>4, <2>5 DEF Sound, StagesOf, Written
<1> QED
  BY <1>2, <1>3, <1>4, <1>5 DEF Post

\* The chain of awaits: after a POST another call of the same run.
LEMMA AfterPost ==
  ASSUME NEW op \in Op, NEW stage \in Post
  PROVE  After(op, stage) \in Stage /\ After(op, stage) # "load" /\ After(op, stage) # "done"
BY DEF After, Post, Stage, Refresh

\* A POST answered: the row is there, the handler goes on.
LEMMA PostAnsweredInv ==
  ASSUME BoardInv, NEW i \in Handlers, PostAnswered(i)
  PROVE  BoardInv'
<1>1. InFlight(i) /\ handler[i].at \in Post /\ UNCHANGED view
  BY DEF PostAnswered, Awaits
<1>2. PICK h \in Invocation : h = handler[i]
  BY <1>1, InFlightInvocation DEF BoardInv
<1>3. Sound(h) /\ h.at \in Post /\ h.op \in Op /\ h.before \in Nat
  BY <1>1, <1>2 DEF BoardInv, HandlersSound, Invocation
<1>4. PICK next \in Stage : next = After(h.op, h.at) /\ next # "load" /\ next # "done"
  BY <1>3, AfterPost
<1>5. PICK t \in Tasks \cup {None} : CommitsRow(i, t) /\ GoOn(i, next, t)
  BY <1>2, <1>4 DEF PostAnswered
<1>6. PICK new \in Invocation \cup {None} :
        /\ handler' = [handler EXCEPT ![i] = new]
        /\ new = None <=> next = "done"
        /\ new # None => /\ new.at = next /\ new.task = t
                         /\ new.op = h.op /\ new.before = h.before
                         /\ new.detail = None /\ new.gate = None /\ new.list = None
  BY <1>1, <1>2, <1>5, GoOnEffect DEF BoardInv
<1>7. new \in Invocation /\ new # None
  BY <1>4, <1>6
<1>8. LedgerOK' /\ Grows /\ Sound(new)'
  BY <1>2, <1>3, <1>4, <1>5, <1>6, <1>7, CommitsSound
<1>9. busy' \in BOOLEAN
  BY DEF PostAnswered, BoardInv, TypeOK
<1>10. /\ lists' \in Listing /\ selected' \in Detail \cup {None} /\ readiness' \in Gate \cup {None}
       /\ ViewOfOneTask'
  BY <1>1 DEF view, BoardInv, TypeOK, ViewOfOneTask
<1>11. UNCHANGED notice \/ (SuccessIsTrue' /\ NoticeTask' /\ notice' \in Notice)
  <2>1. CASE h.op = "start"
    <3>1. h.at = "attempt" /\ h.task \in Tasks
      BY <1>3, <2>1 DEF Sound, StagesOf, Post
    <3>2. t = h.task /\ next = "open"
      BY <1>2, <1>4, <1>5, <3>1 DEF CommitsRow, After
    <3>3. Written(h.op, h.task, h.before)'
      BY <1>6, <1>7, <1>8, <3>2 DEF Sound, Written
    <3>4. Report(i, "started")
      BY <1>2, <2>1 DEF PostAnswered
    <3> QED
      BY <1>2, <1>3, <1>8, <3>3, <3>4, ReportTrue
  <2>2. CASE h.op # "start"
    BY <1>2, <2>2 DEF PostAnswered
  <2> QED
    BY <2>1, <2>2
<1> QED
  BY <1>4, <1>6, <1>7, <1>8, <1>9, <1>10, <1>11, ProceedStep

\* A call refused, or not reached.
LEMMA CallFailsInv ==
  ASSUME BoardInv, NEW i \in Handlers, CallFails(i)
  PROVE  BoardInv'
<1>1. InFlight(i) /\ Fail(i) /\ UNCHANGED rows
  BY DEF CallFails, Awaits
<1> QED
  BY <1>1, StaysGrows, FailInv DEF BoardInv

\* A row committed, its answer lost: what is written is not claimed.
LEMMA AnswerLostInv ==
  ASSUME BoardInv, NEW i \in Handlers, AnswerLost(i)
  PROVE  BoardInv'
<1>1. InFlight(i) /\ handler[i].at \in Post /\ Fail(i)
  BY DEF AnswerLost, Awaits
<1>2. PICK h \in Invocation : h = handler[i]
  BY <1>1, InFlightInvocation DEF BoardInv
<1>3. Sound(h) /\ h.at \in Post /\ h.op \in Op
  BY <1>1, <1>2 DEF BoardInv, HandlersSound, Invocation
<1>4. PICK t \in Tasks \cup {None} : CommitsRow(i, t)
  BY DEF AnswerLost
<1>5. PICK new \in Invocation :
        /\ new.op = h.op /\ new.before = h.before /\ new.task = t
        /\ new.at = After(h.op, h.at)
        /\ new.detail = None /\ new.gate = None /\ new.list = None
  <2>1. After(h.op, h.at) \in Stage
    BY <1>3, AfterPost
  <2>2. PICK stage \in Stage : stage = After(h.op, h.at)
    BY <2>1
  <2> DEFINE w == [op |-> h.op, at |-> stage, task |-> t, before |-> h.before,
                   detail |-> None, gate |-> None, list |-> None]
  <2>3. w \in Invocation
    BY DEF Invocation
  <2> QED
    BY <2>2, <2>3
<1>6. LedgerOK' /\ Grows
  BY <1>2, <1>3, <1>4, <1>5, CommitsSound
<1> QED
  BY <1>1, <1>6, FailInv

\* A handler that waits for openTask or a list is about a task it wrote.
LEMMA ReadsItsTask ==
  ASSUME LedgerOK, NEW h \in Invocation, Sound(h)
  PROVE  /\ h.at = "open" => h.task \in Tasks
         /\ h.op \in {"create", "version", "start"} /\ h.at = "outer" => h.task \in created
<1>1. h.op \in Op /\ h.before \in Nat
  BY DEF Invocation
<1>2. h.at = "open" => h.op \in {"open", "create", "version", "start"}
  BY <1>1 DEF Sound, StagesOf, Op
<1>3. h.op \in {"open", "version", "start"} => h.task \in Tasks
  BY DEF Sound
<1>4. h.op = "create" /\ h.at \in {"open", "outer"} => h.task \in created
  BY DEF Sound
<1>5. h.op \in {"version", "start"} /\ h.at = "outer" => h.task \in created
  <2> SUFFICES ASSUME h.op \in {"version", "start"}, h.at = "outer"
               PROVE  h.task \in created
    OBVIOUS
  <2>1. Len(versions[h.task]) > h.before \/ Len(starts[h.task]) > h.before
    BY DEF Sound, Written
  <2>2. Len(versions[h.task]) > 0 \/ Len(starts[h.task]) > 0
    BY <1>1, <1>3, <2>1, Lengths
  <2> QED
    BY <1>3, <2>2, Lengths DEF LedgerOK
<1> QED
  BY <1>2, <1>3, <1>4, <1>5 DEF LedgerOK

\* An answer that a handler keeps, sound for its task.
LEMMA KeepInv ==
  ASSUME BoardInv, NEW i \in Handlers, InFlight(i), NEW new \in Invocation, Sound(new),
         new.at = handler[i].at, handler' = [handler EXCEPT ![i] = new],
         UNCHANGED <<rows, view, notice, busy>>
  PROVE  BoardInv'
<1>1. LedgerOK' /\ Grows
  BY StaysGrows DEF BoardInv
<1>2. Sound(new)' /\ new # None
  BY <1>1, SoundStays, InFlightInvocation DEF BoardInv
<1>3. /\ lists' \in Listing /\ selected' \in Detail \cup {None} /\ readiness' \in Gate \cup {None}
      /\ ViewOfOneTask' /\ busy' \in BOOLEAN
  BY DEF view, BoardInv, TypeOK, ViewOfOneTask
<1>4. busy' = busy /\ (new.at = "load" => handler[i].at = "load")
  OBVIOUS
<1> QED
  BY <1>1, <1>2, <1>3, <1>4, ProceedStep

\* The detail of the task of the handler.
LEMMA ReadDetailInv ==
  ASSUME BoardInv, NEW i \in Handlers, ReadDetail(i)
  PROVE  BoardInv'
<1>1. InFlight(i) /\ UNCHANGED <<rows, view, notice, busy>>
  BY DEF ReadDetail, Awaits
<1>2. PICK h \in Invocation : h = handler[i]
  BY <1>1, InFlightInvocation DEF BoardInv
<1>3. Sound(h) /\ h.at = "open" /\ h.task \in Tasks
  BY <1>1, <1>2, ReadsItsTask DEF BoardInv, HandlersSound, ReadDetail, Awaits
<1>4. PICK d \in Detail : d = DetailOf(h.task) /\ d.task = h.task
  <2>1. PICK t \in Tasks, n \in Nat : t = h.task /\ n = Len(versions[t])
    BY <1>3, Lengths DEF BoardInv
  <2>2. [task |-> t, versions |-> n] \in Detail
    BY DEF Detail
  <2> QED
    BY <2>1, <2>2 DEF DetailOf
<1>5. PICK new : new = [h EXCEPT !.detail = d]
  OBVIOUS
<1>6. new \in Invocation /\ Sound(new)
  BY <1>3, <1>4, <1>5 DEF Invocation, Sound
<1>7. handler' = [handler EXCEPT ![i] = new] /\ new.at = handler[i].at
  BY <1>2, <1>4, <1>5 DEF ReadDetail, BoardInv, TypeOK, Invocation
<1> QED
  BY <1>1, <1>6, <1>7, KeepInv

\* The gate of the task of the handler.
LEMMA ReadGateInv ==
  ASSUME BoardInv, NEW i \in Handlers, ReadGate(i)
  PROVE  BoardInv'
<1>1. InFlight(i) /\ UNCHANGED <<rows, view, notice, busy>>
  BY DEF ReadGate, Awaits
<1>2. PICK h \in Invocation : h = handler[i]
  BY <1>1, InFlightInvocation DEF BoardInv
<1>3. Sound(h) /\ h.at = "open" /\ h.task \in Tasks
  BY <1>1, <1>2, ReadsItsTask DEF BoardInv, HandlersSound, ReadGate, Awaits
<1>4. PICK g \in Gate : g = GateOf(h.task) /\ g.work = h.task
  <2>1. PICK t \in Tasks, ready \in BOOLEAN :
            /\ t = h.task
            /\ ready = (versions[t] # <<>> /\ versions[t][Len(versions[t])] \in Satisfied)
    BY <1>3, Zenon
  <2>2. [work |-> t, ready |-> ready] \in Gate
    BY DEF Gate
  <2>3. GateOf(t) = [work |-> t, ready |-> ready]
    BY <2>1, Zenon DEF GateOf
  <2> QED
    BY <2>1, <2>2, <2>3
<1>5. PICK new : new = [h EXCEPT !.gate = g]
  OBVIOUS
<1>6. new \in Invocation /\ Sound(new)
  BY <1>3, <1>4, <1>5 DEF Invocation, Sound
<1>7. handler' = [handler EXCEPT ![i] = new] /\ new.at = handler[i].at
  BY <1>2, <1>4, <1>5 DEF ReadGate, BoardInv, TypeOK, Invocation
<1> QED
  BY <1>1, <1>6, <1>7, KeepInv

\* The lists, read after the rows of the handler were written.
LEMMA ReadListsInv ==
  ASSUME BoardInv, NEW i \in Handlers, ReadLists(i)
  PROVE  BoardInv'
<1>1. InFlight(i) /\ UNCHANGED <<rows, view, notice, busy>>
  BY DEF ReadLists, Awaits
<1>2. PICK h \in Invocation : h = handler[i]
  BY <1>1, InFlightInvocation DEF BoardInv
<1>3. Sound(h) /\ h.at \in Refresh /\ h.at # "open"
  BY <1>1, <1>2 DEF BoardInv, HandlersSound, ReadLists, Awaits, Refresh
<1>4. PICK l \in Listing :
        /\ l = Snapshot
        /\ l.setups = setups
        /\ \A t \in created : /\ l.tasks[t] # None
                              /\ l.tasks[t].versions = Len(versions[t])
                              /\ l.tasks[t].epoch = Len(starts[t])
  <2>1. \A t \in Tasks : Len(versions[t]) \in Nat /\ Len(starts[t]) \in Nat
    BY Lengths DEF BoardInv
  <2>2. \A t \in Tasks : [versions |-> Len(versions[t]), epoch |-> Len(starts[t])] \in Row
    BY <2>1 DEF Row
  <2>3. TaskList \in [Tasks -> Row \cup {None}] /\ setups \in Nat
    BY <2>2 DEF TaskList, BoardInv, LedgerOK
  <2>4. \A t \in created : TaskList[t] = [versions |-> Len(versions[t]), epoch |-> Len(starts[t])]
    BY DEF TaskList, BoardInv, LedgerOK
  <2>5. PICK l \in Listing : l = Snapshot /\ l.tasks = TaskList /\ l.setups = setups
    <3>1. PICK list \in [Tasks -> Row \cup {None}] : list = TaskList
      BY <2>3
    <3>2. [tasks |-> list, setups |-> setups] \in Listing
      BY <2>3 DEF Listing
    <3> QED
      BY <3>1, <3>2 DEF Snapshot
  <2>6. ASSUME NEW t \in created
        PROVE  /\ l.tasks[t] # None
               /\ l.tasks[t].versions = Len(versions[t]) /\ l.tasks[t].epoch = Len(starts[t])
    <3>1. /\ l.tasks[t] = [versions |-> Len(versions[t]), epoch |-> Len(starts[t])]
          /\ l.tasks[t] \in Row
      BY <2>2, <2>4, <2>5 DEF BoardInv, LedgerOK
    <3> QED
      BY <3>1, NoneAssumption
  <2> QED
    BY <2>5, <2>6
<1>5. PICK new : new = [h EXCEPT !.list = l]
  OBVIOUS
<1>6. new \in Invocation
  BY <1>5 DEF Invocation
<1>7. h.at = "outer" => Listed(l, h.op, h.task, h.before)
  <2> SUFFICES ASSUME h.at = "outer"
               PROVE  Listed(l, h.op, h.task, h.before)
    OBVIOUS
  <2>1. Written(h.op, h.task, h.before)
    BY <1>3 DEF Sound
  <2>2. h.op \in {"create", "version", "start"} => h.task \in created
    BY <1>3, ReadsItsTask DEF BoardInv
  <2> QED
    BY <1>4, <2>1, <2>2 DEF Written, Listed
<1>8. Sound(new)
  BY <1>3, <1>5, <1>7 DEF Invocation, Sound
<1>9. handler' = [handler EXCEPT ![i] = new] /\ new.at = handler[i].at
  BY <1>2, <1>4, <1>5 DEF ReadLists, BoardInv, TypeOK, Invocation
<1> QED
  BY <1>1, <1>6, <1>8, <1>9, KeepInv

\* Both answers of openTask are shown together, and are of one task.
LEMMA ShowInv ==
  ASSUME BoardInv, NEW i \in Handlers, Show(i)
  PROVE  BoardInv'
<1>1. InFlight(i) /\ UNCHANGED <<rows, lists, notice, busy>>
  BY DEF Show, Awaits
<1>2. PICK h \in Invocation : h = handler[i]
  BY <1>1, InFlightInvocation DEF BoardInv
<1>3. /\ Sound(h) /\ h.at = "open" /\ h.op \in Op /\ h.task \in Tasks \cup {None}
      /\ h.detail \in Detail /\ h.gate \in Gate
      /\ h.detail.task = h.task /\ h.gate.work = h.task
  <2>1. h.detail # None /\ h.gate # None
    BY <1>2 DEF Show
  <2> QED
    BY <1>1, <1>2, <2>1 DEF BoardInv, HandlersSound, Show, Awaits, Invocation, Sound
<1>4. LedgerOK' /\ Grows /\ Sound(h)'
  BY <1>1, <1>3, StaysGrows, SoundStays DEF BoardInv
<1>5. PICK stage \in Stage : stage = "inner"
  BY DEF Stage, Refresh
<1>6. GoOn(i, stage, h.task) /\ selected' = h.detail /\ readiness' = h.gate
  BY <1>2, <1>5 DEF Show
<1>7. PICK new \in Invocation \cup {None} :
        /\ handler' = [handler EXCEPT ![i] = new]
        /\ new = None <=> stage = "done"
        /\ new # None => /\ new.at = stage /\ new.task = h.task
                         /\ new.op = h.op /\ new.before = h.before
                         /\ new.detail = None /\ new.gate = None /\ new.list = None
  BY <1>1, <1>2, <1>3, <1>6, GoOnEffect DEF BoardInv
<1>8. new # None /\ new.at = "inner"
  BY <1>5, <1>7
<1>9. "inner" \in StagesOf(h.op)
  BY <1>3 DEF Sound, StagesOf, Op
<1>10. Sound(new)'
  BY <1>3, <1>4, <1>7, <1>8, <1>9 DEF Sound
<1>11. /\ selected' \in Detail \cup {None} /\ readiness' \in Gate \cup {None}
       /\ selected' # None /\ readiness' # None /\ readiness'.work = selected'.task
  BY <1>3, <1>6, NoneAssumption
<1>12. ViewOfOneTask'
  BY <1>11 DEF ViewOfOneTask
<1>13. lists' \in Listing /\ busy' \in BOOLEAN /\ new.at # "load"
  BY <1>1, <1>8 DEF BoardInv, TypeOK
<1> QED
  BY <1>1, <1>4, <1>7, <1>8, <1>10, <1>11, <1>12, <1>13, ProceedStep

\* The chain of awaits after a refresh: the refresh of run, or the end.
LEMMA AfterRefresh ==
  ASSUME NEW op \in Op, NEW stage \in Refresh
  PROVE  /\ stage = "inner" /\ op # "open" => After(op, stage) = "outer"
         /\ ~(stage = "inner" /\ op # "open") => After(op, stage) = "done"
BY DEF After, Refresh

\* The lists are set, and the success that comes with them is true.
LEMMA SetListsInv ==
  ASSUME BoardInv, NEW i \in Handlers, SetLists(i)
  PROVE  BoardInv'
<1>1. InFlight(i) /\ UNCHANGED <<rows, selected, readiness>>
  BY DEF SetLists, Awaits
<1>2. PICK h \in Invocation : h = handler[i]
  BY <1>1, InFlightInvocation DEF BoardInv
<1>3. /\ Sound(h) /\ h.at \in Refresh /\ h.op \in Op /\ h.task \in Tasks \cup {None}
      /\ h.list \in Listing
  <2>1. h.list # None
    BY <1>2 DEF SetLists
  <2> QED
    BY <1>1, <1>2, <2>1 DEF BoardInv, HandlersSound, SetLists, Awaits, Invocation
<1>4. LedgerOK' /\ Grows /\ Sound(h)'
  BY <1>1, <1>3, StaysGrows, SoundStays DEF BoardInv
<1>5. PICK stage \in Stage \cup {"done"} :
        /\ stage = After(h.op, h.at)
        /\ stage # "done" => stage = "outer" /\ h.at = "inner" /\ h.op # "open"
  BY <1>3, AfterRefresh DEF Stage, Refresh
<1>6. GoOn(i, stage, h.task) /\ lists' = h.list
  BY <1>2, <1>5 DEF SetLists
<1>7. PICK new \in Invocation \cup {None} :
        /\ handler' = [handler EXCEPT ![i] = new]
        /\ new = None <=> stage = "done"
        /\ new # None => /\ new.at = stage /\ new.task = h.task
                         /\ new.op = h.op /\ new.before = h.before
                         /\ new.detail = None /\ new.gate = None /\ new.list = None
  BY <1>1, <1>2, <1>3, <1>6, GoOnEffect DEF BoardInv
<1>8. new # None => Sound(new)'
  <2> SUFFICES ASSUME new # None
               PROVE  Sound(new)'
    OBVIOUS
  <2>1. stage = "outer" /\ h.at = "inner" /\ h.op # "open"
    BY <1>5, <1>7
  <2>2. "outer" \in StagesOf(h.op)
    BY <1>3, <2>1 DEF Sound, StagesOf, Op
  <2> QED
    BY <1>4, <1>7, <2>1, <2>2 DEF Sound
<1>9. UNCHANGED notice \/ (SuccessIsTrue' /\ NoticeTask' /\ notice' \in Notice)
  <2>1. CASE h.at = "outer"
    <3>1. Report(i, "success")
      BY <1>2, <2>1 DEF SetLists
    <3>2. Written(h.op, h.task, h.before)'
      BY <1>4, <2>1 DEF Sound, Written
    <3> QED
      BY <1>2, <1>3, <1>4, <3>1, <3>2, ReportTrue
  <2>2. CASE h.at # "outer"
    BY <1>2, <2>2 DEF SetLists
  <2> QED
    BY <2>1, <2>2
<1>10. busy' = FALSE \/ (busy' = busy /\ handler[i].at = "load")
  BY DEF SetLists
<1>11. /\ lists' \in Listing /\ selected' \in Detail \cup {None} /\ readiness' \in Gate \cup {None}
       /\ ViewOfOneTask'
  BY <1>1, <1>3, <1>6 DEF BoardInv, TypeOK, ViewOfOneTask
<1> QED
  BY <1>4, <1>7, <1>8, <1>9, <1>10, <1>11, ProceedStep

-----------------------------------------------------------------------------
(* The theorems.                                                           *)

\* The mount effect is a sound handler, and the board claims nothing.
LEMMA InitInv ==
  ASSUME Init
  PROVE  BoardInv
<1>1. LedgerOK
  BY EmptySeq DEF Init, LedgerInit, LedgerOK
<1>2. PICK first : handler = [j \in Handlers |->
        IF j = first THEN [op |-> "mount", at |-> "load", task |-> None,
                           before |-> 0, detail |-> None, gate |-> None, list |-> None]
                     ELSE None]
  BY DEF Init
<1> DEFINE mount == [op |-> "mount", at |-> "load", task |-> None, before |-> 0,
                     detail |-> None, gate |-> None, list |-> None]
<1>3. mount \in Invocation /\ Sound(mount)
  BY DEF Invocation, Op, Stage, Refresh, Sound, StagesOf, Listed
<1>4. /\ \A j \in Handlers : handler[j] \in {mount, None}
      /\ handler \in [Handlers -> Invocation \cup {None}]
  BY <1>2, <1>3
<1> HIDE DEF mount
<1>5. HandlersSound
  BY <1>3, <1>4 DEF HandlersSound, InFlight
<1>6. TypeOK
  BY <1>4 DEF Init, TypeOK, Listing, Notice
<1> QED
  BY <1>1, <1>5, <1>6 DEF Init, BoardInv, ViewOfOneTask, SuccessIsTrue, NoticeTask, BusyIsWork

\* Every step of the board or of another client.
LEMMA StepInv ==
  ASSUME BoardInv, [Next]_vars
  PROVE  BoardInv'
<1>1. CASE OtherClient
  BY <1>1, OtherInv
<1>2. ASSUME NEW i \in Handlers, Click(i)
      PROVE  BoardInv'
  BY <1>2, ClickInv
<1>3. ASSUME NEW i \in Handlers, Proceed(i)
      PROVE  BoardInv'
  BY <1>3, PostAnsweredInv, CallFailsInv, AnswerLostInv, ReadDetailInv, ReadGateInv, ShowInv,
     ReadListsInv, SetListsInv DEF Proceed
<1>4. CASE UNCHANGED vars
  <2>1. /\ LedgerOK' /\ Grows /\ UNCHANGED <<rows, view, notice, busy, handler>>
    BY <1>4, StaysGrows DEF vars, BoardInv
  <2>2. HandlersSound' /\ SuccessIsTrue'
    BY <2>1, HandlersStay, SuccessStays DEF BoardInv
  <2> QED
    BY <2>1, <2>2 DEF BoardInv, LedgerOK, TypeOK, view, ViewOfOneTask, NoticeTask, BusyIsWork,
                      InFlight
<1> QED
  BY <1>1, <1>2, <1>3, <1>4 DEF Next

\* The board and its handlers stay sound, for any number of overlapping
\* handlers and any answers.
THEOREM BoardCorrect == Spec => []BoardInv
<1>1. Init => BoardInv
  BY InitInv
<1>2. BoardInv /\ [Next]_vars => BoardInv'
  BY StepInv
<1> QED
  BY <1>1, <1>2, PTL DEF Spec

\* Type correctness.
THEOREM TypeCorrect == Spec => []TypeOK
<1>1. BoardInv => TypeOK
  BY DEF BoardInv
<1> QED
  BY <1>1, BoardCorrect, PTL

\* The gate shown is the gate of the task shown.
THEOREM ViewOfOneTaskHolds == Spec => []ViewOfOneTask
<1>1. BoardInv => ViewOfOneTask
  BY DEF BoardInv
<1> QED
  BY <1>1, BoardCorrect, PTL

\* A success message is true.
THEOREM SuccessIsTrueHolds == Spec => []SuccessIsTrue
<1>1. BoardInv => SuccessIsTrue
  BY DEF BoardInv
<1> QED
  BY <1>1, BoardCorrect, PTL

\* Busy only while a handler is at work that clears it.
THEOREM BusyIsWorkHolds == Spec => []BusyIsWork
<1>1. BoardInv => BusyIsWork
  BY DEF BoardInv
<1> QED
  BY <1>1, BoardCorrect, PTL

\* A new success message comes from the refresh of run, whose list shows
\* what it claims.
LEMMA SuccessStep ==
  ASSUME BoardInv, [Next]_vars, notice' # notice, notice'.kind = "success"
  PROVE  Listed(lists', notice'.op, notice'.task, notice'.before)
<1>1. PICK i \in Handlers : SetLists(i) /\ handler[i].at = "outer"
  <2>1. ~OtherClient /\ vars' # vars
    BY DEF OtherClient, vars
  <2>2. \A i \in Handlers : ~Click(i)
    BY DEF Click, ClickReload, ClickTask, SubmitSetup, SubmitTask, SubmitVersion, ClickStart,
           Submit, Invoke
  <2>3. PICK i \in Handlers : Proceed(i)
    BY <2>1, <2>2 DEF Next
  <2>4. ~PostAnswered(i) /\ ~CallFails(i) /\ ~AnswerLost(i)
    <3>1. ~(IF handler[i].op = "start" THEN Report(i, "started") ELSE UNCHANGED notice)
      BY DEF Report
    <3>2. ~(IF handler[i].op = "reload" THEN UNCHANGED notice ELSE ReportError)
      BY DEF ReportError
    <3>3. ~Fail(i)
      BY <3>2 DEF Fail
    <3> QED
      BY <3>1, <3>3 DEF PostAnswered, CallFails, AnswerLost
  <2>5. ~ReadDetail(i) /\ ~ReadGate(i) /\ ~Show(i) /\ ~ReadLists(i)
    BY DEF ReadDetail, ReadGate, Show, ReadLists
  <2> QED
    BY <2>3, <2>4, <2>5 DEF Proceed, SetLists
<1>2. PICK h \in Invocation : h = handler[i]
  BY <1>1, InFlightInvocation DEF BoardInv, SetLists, Awaits
<1>3. Sound(h) /\ h.list # None /\ h.at = "outer"
  BY <1>1, <1>2 DEF BoardInv, HandlersSound, SetLists, Awaits
<1>4. /\ lists' = h.list
      /\ notice' = [kind |-> "success", op |-> h.op, task |-> h.task, before |-> h.before]
  BY <1>1, <1>2 DEF SetLists, Report
<1> QED
  BY <1>3, <1>4 DEF Sound

\* When a success message appears, the list shown holds the row written.
THEOREM SuccessShowsItsWorkHolds == Spec => SuccessShowsItsWork
<1>1. BoardInv /\ [Next]_vars
        => [notice' # notice /\ notice'.kind = "success"
            => Listed(lists', notice'.op, notice'.task, notice'.before)]_vars
  BY SuccessStep
<1> QED
  BY <1>1, BoardCorrect, PTL DEF Spec, SuccessShowsItsWork

\* Only the start button starts, and only what is shown as ready.
LEMMA StartStep ==
  ASSUME BoardInv, [Next]_vars, NEW i \in Handlers,
         ~InFlight(i), handler'[i] # None, handler'[i].op = "start"
  PROVE  readiness = [work |-> handler'[i].task, ready |-> TRUE]
<1>1. handler[i] = None /\ handler \in [Handlers -> Invocation \cup {None}]
  BY DEF InFlight, BoardInv, TypeOK
<1>2. ~UNCHANGED handler
  BY <1>1
<1>3. ASSUME NEW j \in Handlers, Proceed(j)
      PROVE  FALSE
  <2>1. InFlight(j)
    BY <1>3 DEF Proceed, PostAnswered, CallFails, AnswerLost, ReadDetail, ReadGate, Show,
                ReadLists, SetLists, Awaits
  <2>2. \E new : handler' = [handler EXCEPT ![j] = new]
    BY <1>3 DEF Proceed, PostAnswered, CallFails, AnswerLost, ReadDetail, ReadGate, Show,
                ReadLists, SetLists, Fail, GoOn
  <2> QED
    BY <1>1, <2>1, <2>2
<1>4. PICK j \in Handlers : Click(j)
  BY <1>2, <1>3 DEF Next, OtherClient, vars
<1>5. ASSUME NEW op \in Op, NEW t, NEW n, Invoke(j, op, t, n)
      PROVE  op = "start" /\ handler'[i].task = t
  BY <1>1, <1>5 DEF Invoke
<1>6. ClickStart(j)
  BY <1>4, <1>5 DEF Click, ClickReload, ClickTask, SubmitSetup, SubmitTask, SubmitVersion, Submit, Op
<1>7. handler'[i].task = selected.task
  BY <1>5, <1>6 DEF ClickStart, Submit, Op
<1>8. readiness \in Gate /\ readiness.ready = TRUE /\ readiness.work = selected.task
  BY <1>6 DEF ClickStart, CanStart, BoardInv, TypeOK, Gate, ViewOfOneTask
<1> QED
  BY <1>7, <1>8 DEF Gate

\* An attempt is requested only for the task whose gate is shown as passed.
THEOREM StartsWhatIsShownHolds == Spec => StartsWhatIsShown
<1>1. BoardInv /\ [Next]_vars
        => [\A i \in Handlers :
              ~InFlight(i) /\ handler'[i] # None /\ handler'[i].op = "start"
                => readiness = [work |-> handler'[i].task, ready |-> TRUE]]_vars
  BY StartStep
<1> QED
  BY <1>1, BoardCorrect, PTL DEF Spec, StartsWhatIsShown

=============================================================================
