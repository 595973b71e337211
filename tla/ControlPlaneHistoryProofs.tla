---------------------- MODULE ControlPlaneHistoryProofs ----------------------
(***************************************************************************)
(* Theorems about ControlPlane on top of its inductive invariant Inv (see  *)
(* ControlPlaneProofs): the audit events match the rows, statuses are      *)
(* earned, the overshoot of max_concurrency is bounded, the service        *)
(* implements TaskLedger, the promises that overlapping requests break     *)
(* hold while none overlap, and the guards of the database never stand in  *)
(* the way.  Only the four steps that write rows matter; each has a lemma  *)
(* here that says what it writes.                                          *)
(***************************************************************************)
EXTENDS ControlPlaneProofs, ControlPlaneLedger, ControlPlaneGuards, FiniteSetTheorems,
        SequenceTheorems

-----------------------------------------------------------------------------
(* What the steps write.                                                   *)

\* Nothing but requests: tables and events are as before.
Quiet == UNCHANGED <<tasks, specs, attempts, events>>

\* Every step is one of five kinds.
LEMMA StepKinds ==
    ASSUME [Next]_vars
    PROVE  \/ Quiet
           \/ \E t \in Tasks : CreateTask(t)
           \/ \E r \in Requests : InFlight(r) /\ PersistReadiness(r)
           \/ \E r \in Requests : CommitSpecification(r)
           \/ \E r \in Requests : CommitAttempt(r)
<1>1. CASE UNCHANGED vars
  BY <1>1 DEF vars, Quiet
<1>2. ASSUME NEW r \in Requests, Begin(r) \/ Abort(r)
      PROVE  Quiet
  BY <1>2 DEF Quiet, Begin, BeginSpecification, BeginReadiness, BeginStart, Load, Abort, Rollback
<1>3. ASSUME NEW r \in Requests, Proceed(r)
      PROVE  \/ Quiet \/ (InFlight(r) /\ PersistReadiness(r))
             \/ CommitSpecification(r) \/ CommitAttempt(r)
  BY <1>3 DEF Proceed, Quiet, Rollback, RejectReferences, ReadLatestVersion,
              ConflictSpecification, AnswerReadiness, GateStart, AdmitStart, RefuseStart,
              ConflictAttempt, At
<1> QED
  BY <1>1, <1>2, <1>3 DEF Next

\* A new task: one row, one event.
LEMMA TaskInserted ==
    ASSUME TypeOK, NEW t \in Tasks, CreateTask(t)
    PROVE  /\ ~IsTask(t) /\ tasks'[t] # NoRow
           /\ tasks'[t] = [status |-> "draft", epoch |-> 0, current |-> NoSpec]
           /\ \A u \in Tasks : u # t => tasks'[u] = tasks[u]
           /\ events' = events \cup {Event("task.created", t, t)}
           /\ UNCHANGED <<specs, attempts>>
<1>1. [status |-> "draft", epoch |-> 0, current |-> NoSpec] \in TaskRow
  BY DEF TaskRow, TaskStatus
<1> QED
  BY <1>1, NotNoRow DEF CreateTask, TypeOK

\* A committed version: one row, its event, the pointer, perhaps a demotion.
LEMMA SpecificationInserted ==
    ASSUME TypeOK, SessionsSound, NEW r \in Requests, CommitSpecification(r)
    PROVE  \E t \in Tasks, id \in SpecIds, n \in VersionsOf(req[r].work) \cup {0}, c \in Contents :
             /\ t = req[r].work /\ IsTask(t) /\ ~IsSpec(id) /\ ~VersionTaken(t, n + 1)
             /\ specs'[id] = [work |-> t, version |-> n + 1, content |-> c] /\ specs'[id] # NoRow
             /\ \A s \in SpecIds : s # id => specs'[s] = specs[s]
             /\ \A u \in Tasks : SpecsOf(u)' = IF u = t THEN SpecsOf(t) \cup {id} ELSE SpecsOf(u)
             /\ tasks'[t] # NoRow /\ tasks'[t].epoch = tasks[t].epoch /\ tasks'[t].current = id
             /\ tasks'[t].status \in {tasks[t].status, "draft"}
             /\ \A u \in Tasks : u # t => tasks'[u] = tasks[u]
             /\ events' = events \cup {Event("task.specification.created", t, id)}
             /\ attempts' = attempts /\ InFlight(r) /\ req' = [req EXCEPT ![r] = NoRow]
<1>1. InFlight(r) /\ req[r].op = "specification"
  BY DEF CommitSpecification, At
<1>2. req[r] \in SpecificationRequest /\ req[r].task \in TaskRow
  BY <1>1, RequestKinds
<1>3. PICK t \in Tasks, id \in SpecIds, n \in VersionsOf(req[r].work) \cup {0}, c \in Contents :
        t = req[r].work /\ id = req[r].id /\ n = req[r].latest /\ c = req[r].content
  BY <1>1, <1>2 DEF SpecificationRequest, SessionsSound, SessionSound
<1>4. IsTask(t) /\ ~IsSpec(id) /\ ~VersionTaken(t, n + 1)
  BY <1>1, <1>3 DEF SessionsSound, SessionSound, CommitSpecification
<1>5. PICK row \in SpecRow : row = [work |-> t, version |-> n + 1, content |-> c]
  <2>1. n \in Nat
    BY <1>2, <1>3 DEF SpecificationRequest
  <2>2. [work |-> t, version |-> n + 1, content |-> c] \in SpecRow
    BY <2>1 DEF SpecRow
  <2> QED
    BY <2>2
<1>6. /\ specs' = [specs EXCEPT ![id] = row]
      /\ events' = events \cup {Event("task.specification.created", t, id)}
      /\ attempts' = attempts /\ req' = [req EXCEPT ![r] = NoRow]
  BY <1>3, <1>5 DEF CommitSpecification, Finish
<1>7. /\ \A s \in SpecIds : specs'[s] = IF s = id THEN row ELSE specs[s]
      /\ row # NoRow /\ row.work = t
  BY <1>5, <1>6, NotNoRow DEF TypeOK
<1>8. \A u \in Tasks : SpecsOf(u)' = IF u = t THEN SpecsOf(t) \cup {id} ELSE SpecsOf(u)
  BY <1>4, <1>7 DEF SpecsOf, IsSpec
<1>9. PICK status : /\ status = Saved(tasks[t].status, req[r].task.status,
                                      AfterSpecification(req[r].task.status))
                    /\ tasks' = [tasks EXCEPT ![t] =
                            [status |-> status, epoch |-> tasks[t].epoch, current |-> id]]
  BY <1>3 DEF CommitSpecification
<1>10. status \in {tasks[t].status, "draft"}
  BY <1>9 DEF Saved, AfterSpecification
<1>11. /\ tasks'[t].epoch = tasks[t].epoch /\ tasks'[t].current = id /\ tasks'[t].status = status
       /\ \A u \in Tasks : u # t => tasks'[u] = tasks[u]
  BY <1>9 DEF TypeOK
<1>12. tasks'[t] # NoRow
  BY <1>4, CommitSpecificationGrows DEF TablesGrow
<1> QED
  BY <1>1, <1>3, <1>4, <1>5, <1>6, <1>7, <1>8, <1>10, <1>11, <1>12

\* A committed start: one row, its event, the epoch, perhaps the status.
LEMMA AttemptInserted ==
    ASSUME TypeOK, SessionsSound, EpochFence, NEW r \in Requests, CommitAttempt(r)
    PROVE  \E t \in Tasks, id \in AttemptIds, s \in SpecsOf(req[r].work) :
             /\ t = req[r].work /\ IsTask(t) /\ ~IsAttempt(id) /\ s = Input(req[r])
             /\ specs[s].content \in Satisfied
             /\ attempts'[id] # NoRow /\ attempts'[id].work = t /\ attempts'[id].spec = s
             /\ attempts'[id].epoch = tasks[t].epoch + 1
             /\ attempts'[id].config = ConfigOf(req[r])
             /\ \A a \in AttemptIds : a # id => attempts'[a] = attempts[a]
             /\ \A u \in Tasks : AttemptsOf(u)' = IF u = t THEN AttemptsOf(t) \cup {id}
                                                          ELSE AttemptsOf(u)
             /\ tasks'[t] # NoRow /\ tasks'[t].current = tasks[t].current
             /\ tasks'[t].epoch = tasks[t].epoch + 1
             /\ tasks'[t].status \in {tasks[t].status, "in_progress"}
             /\ \A u \in Tasks : u # t => tasks'[u] = tasks[u]
             /\ events' = events \cup {Event("attempt.started", t, id)}
             /\ specs' = specs /\ At(r, "start", "admitted") /\ req' = [req EXCEPT ![r] = NoRow]
<1>1. InFlight(r) /\ req[r].op = "start" /\ req[r].pc = "admitted" /\ At(r, "start", "admitted")
  BY DEF CommitAttempt, At
<1>2. req[r] \in StartRequest /\ req[r].task \in TaskRow
  BY <1>1, RequestKinds
<1>3. PICK t \in Tasks, id \in AttemptIds, s \in SpecsOf(req[r].work) :
        t = req[r].work /\ id = req[r].id /\ s = Input(req[r]) /\ specs[s].content \in Satisfied
  BY <1>1, <1>2, InputRow DEF StartRequest
<1>4. IsTask(t) /\ ~IsAttempt(id)
  BY <1>1, <1>3 DEF SessionsSound, SessionSound
<1>5. PICK row : row = [work |-> t, spec |-> s, config |-> ConfigOf(req[r]),
                        input |-> specs[s].content, epoch |-> req[r].task.epoch + 1,
                        status |-> StartTransition.attempt]
  OBVIOUS
<1>6. /\ attempts' = [attempts EXCEPT ![id] = row]
      /\ events' = events \cup {Event("attempt.started", t, id)}
      /\ specs' = specs /\ req' = [req EXCEPT ![r] = NoRow]
  BY <1>3, <1>5 DEF CommitAttempt, Finish
<1>7. \A a \in AttemptIds : attempts'[a] = IF a = id THEN row ELSE attempts[a]
  BY <1>6 DEF TypeOK
<1>8. row # NoRow /\ row.work = t /\ row.spec = s /\ row.config = ConfigOf(req[r])
      /\ row.epoch = req[r].task.epoch + 1
  <2>1. ConfigOf(req[r]) \in Configs /\ specs[s].content \in Contents /\ s \in SpecIds
    BY <1>1, <1>3, InputRow DEF SpecsOf
  <2>2. req[r].task.epoch + 1 \in Nat \ {0} /\ StartTransition.attempt \in AttemptStatus
    BY <1>2 DEF TaskRow, StartTransition, AttemptStatus
  <2>3. row \in AttemptRow
    BY <1>5, <2>1, <2>2 DEF AttemptRow
  <2> QED
    BY <1>5, <2>3, NotNoRow
<1>9. req[r].task.epoch = tasks[t].epoch
  BY <1>3, FreshCopy
<1>10. /\ \A u \in Tasks : u # t => tasks'[u] = tasks[u]
       /\ tasks'[t].epoch = tasks[t].epoch + 1 /\ tasks'[t].current = tasks[t].current
       /\ tasks'[t] # NoRow
  BY <1>3, CommitAttemptTask
<1>11. tasks'[t].status \in {tasks[t].status, "in_progress"}
  <2>1. PICK status, epoch :
          /\ status = Saved(tasks[t].status, req[r].task.status, StartTransition.task)
          /\ tasks' = [tasks EXCEPT ![t] =
                [status |-> status, epoch |-> epoch, current |-> tasks[t].current]]
    BY <1>3 DEF CommitAttempt
  <2>2. status \in {tasks[t].status, "in_progress"}
    BY <2>1 DEF Saved, StartTransition
  <2> QED
    BY <2>1, <2>2 DEF TypeOK
<1>12. \A u \in Tasks : AttemptsOf(u)' = IF u = t THEN AttemptsOf(t) \cup {id} ELSE AttemptsOf(u)
  BY <1>4, <1>7, <1>8 DEF AttemptsOf, IsAttempt
<1> QED
  BY <1>1, <1>3, <1>4, <1>6, <1>7, <1>8, <1>9, <1>10, <1>11, <1>12

-----------------------------------------------------------------------------
(* Events and rows are written in one transaction.                         *)

\* Events differ when their type, task or subject do.
LEMMA EventsDiffer ==
    \A ty1, ty2, w1, w2, s1, s2 :
        Event(ty1, w1, s1) = Event(ty2, w2, s2) <=> ty1 = ty2 /\ w1 = w2 /\ s1 = s2
BY DEF Event

\* Every step writes the events of its rows.
LEMMA AuditStep == Inv /\ AuditMatchesRows /\ [Next]_vars => AuditMatchesRows'
<1> SUFFICES ASSUME TypeOK, SessionsSound, EpochFence, AuditMatchesRows, [Next]_vars
             PROVE  AuditMatchesRows'
  BY DEF Inv
<1>1. CASE Quiet
  BY <1>1 DEF Quiet, AuditMatchesRows, IsTask, SpecsOf, IsSpec, AttemptsOf, IsAttempt
<1>2. ASSUME NEW t \in Tasks, CreateTask(t)
      PROVE  AuditMatchesRows'
  <2>1. /\ \A u \in Tasks : IsTask(u)' <=> (u = t \/ IsTask(u))
        /\ \A u \in Tasks : SpecsOf(u)' = SpecsOf(u) /\ AttemptsOf(u)' = AttemptsOf(u)
        /\ events' = events \cup {Event("task.created", t, t)}
    BY <1>2, TaskInserted DEF IsTask, SpecsOf, IsSpec, AttemptsOf, IsAttempt
  <2> QED
    BY <2>1, EventsDiffer DEF AuditMatchesRows
<1>3. ASSUME NEW r \in Requests, InFlight(r), PersistReadiness(r)
      PROVE  AuditMatchesRows'
  <2>1. /\ \A u \in Tasks : IsTask(u)' <=> IsTask(u)
        /\ \A u \in Tasks : SpecsOf(u)' = SpecsOf(u) /\ AttemptsOf(u)' = AttemptsOf(u)
    BY <1>3, PersistReadinessRows
       DEF SameButStatus, IsTask, SpecsOf, IsSpec, AttemptsOf, IsAttempt
  <2>2. \E w, s : events' \subseteq events \cup {Event("task.readiness.changed", w, s)}
    BY <1>3 DEF PersistReadiness
  <2>3. events \subseteq events'
    BY <1>3 DEF PersistReadiness
  <2> QED
    BY <2>1, <2>2, <2>3, EventsDiffer DEF AuditMatchesRows
<1>4. ASSUME NEW r \in Requests, CommitSpecification(r)
      PROVE  AuditMatchesRows'
  <2>1. PICK t \in Tasks, id \in SpecIds :
          /\ IsTask(t) /\ tasks'[t] # NoRow /\ attempts' = attempts
          /\ \A u \in Tasks : SpecsOf(u)' = IF u = t THEN SpecsOf(t) \cup {id} ELSE SpecsOf(u)
          /\ \A u \in Tasks : u # t => tasks'[u] = tasks[u]
          /\ events' = events \cup {Event("task.specification.created", t, id)}
    BY <1>4, SpecificationInserted
  <2>2. /\ \A u \in Tasks : IsTask(u)' <=> IsTask(u)
        /\ \A u \in Tasks : AttemptsOf(u)' = AttemptsOf(u)
    BY <2>1 DEF IsTask, AttemptsOf, IsAttempt
  <2> QED
    BY <2>1, <2>2, EventsDiffer DEF AuditMatchesRows
<1>5. ASSUME NEW r \in Requests, CommitAttempt(r)
      PROVE  AuditMatchesRows'
  <2>1. PICK t \in Tasks, id \in AttemptIds :
          /\ IsTask(t) /\ tasks'[t] # NoRow /\ specs' = specs
          /\ \A u \in Tasks : AttemptsOf(u)' = IF u = t THEN AttemptsOf(t) \cup {id}
                                                       ELSE AttemptsOf(u)
          /\ \A u \in Tasks : u # t => tasks'[u] = tasks[u]
          /\ events' = events \cup {Event("attempt.started", t, id)}
    BY <1>5, AttemptInserted
  <2>2. /\ \A u \in Tasks : IsTask(u)' <=> IsTask(u)
        /\ \A u \in Tasks : SpecsOf(u)' = SpecsOf(u)
    BY <2>1 DEF IsTask, SpecsOf, IsSpec
  <2> QED
    BY <2>1, <2>2, EventsDiffer DEF AuditMatchesRows
<1> QED
  BY <1>1, <1>2, <1>3, <1>4, <1>5, StepKinds

\* The audit trail has an event exactly for each task, specification and
\* attempt there is (_event in the transaction of its row).
THEOREM AuditMatchesRowsHolds == Spec => []AuditMatchesRows
<1>1. Init => AuditMatchesRows
  BY DEF Init, AuditMatchesRows, IsTask, SpecsOf, IsSpec, AttemptsOf, IsAttempt
<1> QED
  BY <1>1, AuditStep, InvHolds, PTL DEF Spec

-----------------------------------------------------------------------------
(* Statuses.  Blind writes of a stale copy can only take a task back to    *)
(* draft, to a verdict on a version it has, or forward with an attempt.    *)

\* The status of one task.
Earned(t) ==
    /\ tasks[t].status \in {"draft", "ready", "in_progress"}
    /\ tasks[t].status = "ready" => \E s \in SpecsOf(t) : specs[s].content \in Satisfied
    /\ tasks[t].status = "in_progress" => AttemptsOf(t) # {}

\* A task whose status and rows are kept, or that is taken back to draft.
LEMMA KeepEarned ==
    ASSUME NEW t \in Tasks, Earned(t), tasks'[t].status \in {tasks[t].status, "draft"},
           SpecsOf(t) \subseteq SpecsOf(t)', AttemptsOf(t) \subseteq AttemptsOf(t)',
           \A s \in SpecsOf(t) : specs'[s] = specs[s]
    PROVE  Earned(t)'
BY DEF Earned

\* What an evaluation makes of a status.
LEMMA PersistReadinessStatus ==
    ASSUME TypeOK, SessionsSound, NEW r \in Requests, InFlight(r), PersistReadiness(r)
    PROVE  /\ \A u \in Tasks : u # req[r].work => tasks'[u] = tasks[u]
           /\ \/ tasks' = tasks
              \/ tasks'[req[r].work].status = "draft"
              \/ /\ tasks'[req[r].work].status = "ready"
                 /\ \E s \in SpecsOf(req[r].work) : specs[s].content \in Satisfied
<1>0. PICK t \in Tasks : t = req[r].work /\ IsTask(t)
  BY RequestKinds DEF SessionsSound, SessionSound
<1>1. PICK status : /\ t = req[r].work /\ IsTask(t)
                    /\ status = AfterReadiness(req[r].task.status, req[r].task.current)
  BY <1>0
<1>2. CASE UNCHANGED tasks
  BY <1>2
<1>3. CASE tasks' = [tasks EXCEPT ![t].status = status] /\ status # req[r].task.status
  <2>1. tasks'[t].status = status /\ \A u \in Tasks : u # t => tasks'[u] = tasks[u]
    <3>1. tasks[t] \in TaskRow
      BY <1>1, RowTypes
    <3> QED
      BY <1>3, <3>1 DEF TypeOK, TaskRow
  <2>2. status = "draft" \/ (status = "ready" /\ IsReady(req[r].task.current))
    BY <1>1, <1>3 DEF AfterReadiness
  <2>3. IsReady(req[r].task.current) => req[r].task.current \in SpecsOf(t)
    BY <1>1 DEF SessionsSound, SessionSound, IsReady
  <2> QED
    BY <1>1, <2>1, <2>2, <2>3 DEF IsReady
<1> QED
  BY <1>1, <1>2, <1>3 DEF PersistReadiness

\* Every step writes statuses that are earned.
LEMMA StatusStep == Inv /\ StatusIsEarned /\ [Next]_vars => StatusIsEarned'
<1> SUFFICES ASSUME TypeOK, SessionsSound, EpochFence, StatusIsEarned, [Next]_vars
             PROVE  StatusIsEarned'
  BY DEF Inv
<1> SUFFICES ASSUME NEW u \in Tasks, tasks'[u] # NoRow
             PROVE  Earned(u)'
  BY DEF StatusIsEarned, Earned, IsTask
<1>0. IsTask(u) => Earned(u)
  BY DEF StatusIsEarned, Earned
<1>1. CASE Quiet
  BY <1>1, <1>0 DEF Quiet, Earned, IsTask, SpecsOf, IsSpec, AttemptsOf, IsAttempt
<1>2. ASSUME NEW t \in Tasks, CreateTask(t)
      PROVE  Earned(u)'
  <2>1. /\ SpecsOf(u)' = SpecsOf(u) /\ AttemptsOf(u)' = AttemptsOf(u) /\ specs' = specs
        /\ u # t => tasks'[u] = tasks[u]
        /\ tasks'[t].status = "draft"
    BY <1>2, TaskInserted DEF SpecsOf, IsSpec, AttemptsOf, IsAttempt
  <2> QED
    BY <2>1, <1>0 DEF Earned, IsTask
<1>3. ASSUME NEW r \in Requests, InFlight(r), PersistReadiness(r)
      PROVE  Earned(u)'
  <2>1. /\ SpecsOf(u)' = SpecsOf(u) /\ AttemptsOf(u)' = AttemptsOf(u) /\ specs' = specs /\ IsTask(u)
    BY <1>3, PersistReadinessRows
       DEF SameButStatus, IsTask, SpecsOf, IsSpec, AttemptsOf, IsAttempt
  <2>2. \/ tasks'[u] = tasks[u] \/ tasks'[u].status = "draft"
        \/ tasks'[u].status = "ready" /\ \E s \in SpecsOf(u) : specs[s].content \in Satisfied
    BY <1>3, PersistReadinessStatus
  <2> QED
    BY <2>1, <2>2, <1>0 DEF Earned
<1>4. ASSUME NEW r \in Requests, CommitSpecification(r)
      PROVE  Earned(u)'
  <2>1. PICK t \in Tasks, id \in SpecIds :
          /\ IsTask(t) /\ ~IsSpec(id) /\ attempts' = attempts
          /\ \A s \in SpecIds : s # id => specs'[s] = specs[s]
          /\ \A x \in Tasks : SpecsOf(x)' = IF x = t THEN SpecsOf(t) \cup {id} ELSE SpecsOf(x)
          /\ tasks'[t].status \in {tasks[t].status, "draft"}
          /\ \A x \in Tasks : x # t => tasks'[x] = tasks[x]
    BY <1>4, SpecificationInserted
  <2>2. /\ IsTask(u) /\ tasks'[u].status \in {tasks[u].status, "draft"}
        /\ SpecsOf(u) \subseteq SpecsOf(u)' /\ AttemptsOf(u)' = AttemptsOf(u)
        /\ \A s \in SpecsOf(u) : specs'[s] = specs[s]
    BY <2>1 DEF IsTask, SpecsOf, AttemptsOf, IsAttempt
  <2> QED
    BY <2>2, <1>0, KeepEarned
<1>5. ASSUME NEW r \in Requests, CommitAttempt(r)
      PROVE  Earned(u)'
  <2>1. PICK t \in Tasks, id \in AttemptIds :
          /\ IsTask(t) /\ specs' = specs
          /\ \A x \in Tasks : AttemptsOf(x)' = IF x = t THEN AttemptsOf(t) \cup {id}
                                                       ELSE AttemptsOf(x)
          /\ tasks'[t].status \in {tasks[t].status, "in_progress"}
          /\ \A x \in Tasks : x # t => tasks'[x] = tasks[x]
    BY <1>5, AttemptInserted
  <2>2. /\ IsTask(u) /\ SpecsOf(u)' = SpecsOf(u) /\ AttemptsOf(u) \subseteq AttemptsOf(u)'
        /\ u = t => AttemptsOf(u)' # {}
        /\ tasks'[u].status \in {tasks[u].status, "in_progress"}
        /\ u # t => tasks'[u] = tasks[u]
    BY <2>1 DEF IsTask, SpecsOf, IsSpec
  <2> QED
    BY <2>1, <2>2, <1>0 DEF Earned
<1> QED
  BY <1>1, <1>2, <1>3, <1>4, <1>5, StepKinds

\* Whatever races, a ready task has a version that met every policy and a
\* task in progress has an attempt.
THEOREM StatusIsEarnedHolds == Spec => []StatusIsEarned
<1>1. Init => StatusIsEarned
  BY DEF Init, StatusIsEarned, IsTask
<1> QED
  BY <1>1, StatusStep, InvHolds, PTL DEF Spec

-----------------------------------------------------------------------------
(* The slots of a configuration.  A start is counted from its admission on *)
(* the attempts of then; what it counted is exceeded by the starts that    *)
(* were admitted beside it, of which there are fewer than requests.        *)

\* A specification that exists stays as it is.
LEMMA SpecsStay ==
    ASSUME Inv, [Next]_vars, NEW s \in SpecIds, IsSpec(s)
    PROVE  specs'[s] = specs[s]
<1>1. TypeOK /\ SessionsSound
  BY DEF Inv
<1>2. ASSUME NEW r \in Requests, CommitSpecification(r)
      PROVE  specs'[s] = specs[s]
  BY <1>1, <1>2, CommitSpecificationGrows DEF TablesGrow
<1> QED
  BY <1>2, StepKinds DEF Quiet, CreateTask, PersistReadiness, CommitAttempt

\* A start is admitted by AdmitStart only, and then left alone until it ends.
LEMMA AdmittedStays ==
    ASSUME TypeOK, [Next]_vars, NEW x \in Requests, At(x, "start", "admitted")'
    PROVE  AdmitStart(x) \/ (At(x, "start", "admitted") /\ req'[x] = req[x])
<1>1. CASE req'[x] = req[x]
  BY <1>1 DEF At, InFlight
<1>2. CASE req'[x] # req[x]
  <2>1. Begin(x) \/ Proceed(x) \/ Abort(x)
    <3>1. ASSUME NEW r \in Requests, r # x, Begin(r) \/ Proceed(r) \/ Abort(r)
          PROVE  FALSE
      <4>1. \E q : req' = [req EXCEPT ![r] = q]
        <5>1. CASE Begin(r)
          BY <5>1 DEF Begin, BeginSpecification, BeginReadiness, BeginStart, Load
        <5>2. CASE Rollback(r) \/ Finish(r)
          BY <5>2 DEF Rollback, Finish
        <5>3. CASE ReadLatestVersion(r)
          <6>1. PICK n : req' = [req EXCEPT ![r].pc = "numbered", ![r].latest = n]
            BY <5>3 DEF ReadLatestVersion
          <6> QED
            BY <6>1
        <5>4. CASE AdmitStart(r)
          BY <5>4 DEF AdmitStart, Advance
        <5>5. CASE GateStart(r)
          BY <5>5 DEF GateStart, Finish
        <5> QED
          BY <3>1, <5>1, <5>2, <5>3, <5>4, <5>5
             DEF Proceed, Abort, RejectReferences, CommitSpecification, ConflictSpecification,
                 AnswerReadiness, RefuseStart, CommitAttempt, ConflictAttempt
      <4> QED
        BY <1>2, <3>1, <4>1 DEF TypeOK
    <3> QED
      BY <1>2, <3>1 DEF Next, vars, CreateTask
  <2>2. req'[x] # NoRow /\ req'[x].op = "start" /\ req'[x].pc = "admitted"
    BY DEF At, InFlight
  <2>3. ~Begin(x)
    BY <2>2 DEF Begin, BeginSpecification, BeginReadiness, BeginStart, Load, TypeOK
  <2>4. ~Rollback(x) /\ ~Finish(x)
    BY <2>2 DEF Rollback, Finish, TypeOK
  <2>5. ~ReadLatestVersion(x)
    <3> SUFFICES ASSUME ReadLatestVersion(x)
                 PROVE  FALSE
      OBVIOUS
    <3>1. PICK n : req' = [req EXCEPT ![x] = [req[x] EXCEPT !.pc = "numbered", !.latest = n]]
      BY DEF ReadLatestVersion, TypeOK
    <3>2. req[x] \in SpecificationRequest
      BY RequestKinds DEF ReadLatestVersion, At
    <3> QED
      BY <2>2, <3>1, <3>2 DEF SpecificationRequest, TypeOK
  <2>6. ~GateStart(x)
    <3>1. ~(req' = [req EXCEPT ![x] =
                [op |-> "start", pc |-> "gated", work |-> req[x].work,
                 task |-> Evaluated(req[x].task), id |-> req[x].id]])
      BY <2>2 DEF TypeOK
    <3> QED
      BY <2>4, <3>1 DEF GateStart
  <2> QED
    BY <2>1, <2>3, <2>4, <2>5, <2>6
       DEF Proceed, Abort, RejectReferences, CommitSpecification, ConflictSpecification,
           AnswerReadiness, RefuseStart, CommitAttempt, ConflictAttempt
<1> QED
  BY <1>1, <1>2

\* The configuration of an admitted start stays.
LEMMA ConfigStays ==
    ASSUME Inv, [Next]_vars, NEW x \in Requests, At(x, "start", "admitted"), req'[x] = req[x]
    PROVE  ConfigOf(req[x])' = ConfigOf(req[x])
<1>1. Input(req[x]) \in SpecIds /\ IsSpec(Input(req[x]))
  BY InputRow DEF Inv, At, SpecsOf
<1>2. specs'[Input(req[x])] = specs[Input(req[x])]
  BY <1>1, SpecsStay
<1> QED
  BY <1>2 DEF ConfigOf, Input

\* The sets counted are finite.
LEMMA Counted ==
    ASSUME NEW c
    PROVE  /\ IsFiniteSet(Active(c)) /\ Cardinality(Active(c)) \in Nat
           /\ IsFiniteSet(Admitted(c)) /\ Cardinality(Admitted(c)) \in Nat
           /\ Cardinality(Admitted(c)) <= Cardinality(Requests)
           /\ Cardinality(Requests) \in Nat
<1>1. Active(c) \subseteq AttemptIds /\ Admitted(c) \subseteq Requests
  BY DEF Active, Admitted
<1> QED
  BY <1>1, BoundsAssumption, FS_Subset, FS_CardinalityType

\* No slot becomes free or taken but by the insert of an attempt.
LEMMA SlotsStay ==
    ASSUME Inv, [Next]_vars, \A r \in Requests : ~CommitAttempt(r), NEW c
    PROVE  Active(c)' = Active(c)
<1>1. attempts' = attempts
  BY StepKinds, PersistReadinessRows, SpecificationInserted
     DEF Inv, Quiet, CreateTask, PersistReadiness
<1> QED
  BY <1>1 DEF Active, IsAttempt

\* Those admitted after a step were admitted before, or are by this step.
LEMMA AdmittedGrows ==
    ASSUME Inv, [Next]_vars, NEW c, NEW x \in Admitted(c)'
    PROVE  x \in Admitted(c) \/ (AdmitStart(x) /\ ConfigOf(req[x]) = c)
<1>1. x \in Requests /\ At(x, "start", "admitted")' /\ ConfigOf(req[x])' = c
  BY DEF Admitted
<1>2. CASE AdmitStart(x)
  <2>1. PICK q : q = [req[x] EXCEPT !.pc = "admitted"]
    OBVIOUS
  <2>2. req[x] \in StartRequest /\ req'[x] = q
    BY <1>1, <1>2, <2>1, RequestKinds DEF AdmitStart, Advance, At, Inv, TypeOK
  <2>3. req'[x].task = req[x].task /\ specs' = specs
    BY <1>2, <2>1, <2>2 DEF StartRequest, AdmitStart
  <2>4. ConfigOf(req[x]) = c
    BY <1>1, <2>3 DEF ConfigOf, Input
  <2> QED
    BY <1>2, <2>4
<1>3. CASE At(x, "start", "admitted") /\ req'[x] = req[x]
  BY <1>1, <1>3, ConfigStays DEF Admitted
<1> QED
  BY <1>1, <1>2, <1>3, AdmittedStays DEF Inv

\* Without an admission for the configuration, its attempts and admitted starts
\* become no more: an insert takes the slot its admission counted.
LEMMA SlotsHeld ==
    ASSUME Inv, [Next]_vars, NEW c, \A r \in Requests : AdmitStart(r) => ConfigOf(req[r]) # c
    PROVE  /\ Cardinality(Active(c)') + Cardinality(Admitted(c)')
                <= Cardinality(Active(c)) + Cardinality(Admitted(c))
           /\ Cardinality(Active(c)') \in Nat /\ Cardinality(Admitted(c)') \in Nat
<1>1. /\ IsFiniteSet(Active(c)) /\ Cardinality(Active(c)) \in Nat
      /\ IsFiniteSet(Admitted(c)) /\ Cardinality(Admitted(c)) \in Nat
  BY Counted
<1>2. /\ IsFiniteSet(Active(c)') /\ Cardinality(Active(c)') \in Nat
      /\ IsFiniteSet(Admitted(c)') /\ Cardinality(Admitted(c)') \in Nat
  <2>1. Admitted(c)' \subseteq Requests /\ Active(c)' \subseteq AttemptIds
    BY DEF Admitted, Active
  <2> QED
    BY <2>1, BoundsAssumption, FS_Subset, FS_CardinalityType
<1>3. Admitted(c)' \subseteq Admitted(c)
  BY AdmittedGrows DEF Admitted
<1>4. CASE \A r \in Requests : ~CommitAttempt(r)
  <2>1. Active(c)' = Active(c)
    BY <1>4, SlotsStay
  <2>2. Cardinality(Admitted(c)') <= Cardinality(Admitted(c))
    BY <1>1, <1>3, FS_Subset
  <2> QED
    BY <1>1, <1>2, <2>1, <2>2
<1>5. ASSUME NEW r \in Requests, CommitAttempt(r)
      PROVE  Cardinality(Active(c)') + Cardinality(Admitted(c)')
                <= Cardinality(Active(c)) + Cardinality(Admitted(c))
  <2>1. PICK id \in AttemptIds :
          /\ attempts'[id].config = ConfigOf(req[r])
          /\ \A a \in AttemptIds : a # id => attempts'[a] = attempts[a]
          /\ At(r, "start", "admitted") /\ req' = [req EXCEPT ![r] = NoRow]
          /\ ~IsAttempt(id)
    BY <1>5, AttemptInserted DEF Inv
  <2>2. CASE ConfigOf(req[r]) = c
    <3>1. Active(c)' \subseteq Active(c) \cup {id}
      BY <2>1 DEF Active, IsAttempt
    <3>2. r \in Admitted(c) /\ r \notin Admitted(c)'
      BY <2>1, <2>2 DEF Admitted, At, InFlight, Inv, TypeOK
    <3>3. Admitted(c)' \subseteq Admitted(c) \ {r}
      BY <1>3, <3>2
    <3>4. /\ IsFiniteSet(Active(c) \cup {id})
          /\ Cardinality(Active(c) \cup {id}) <= Cardinality(Active(c)) + 1
      <4>1. Cardinality(Active(c) \cup {id}) \in {Cardinality(Active(c)), Cardinality(Active(c)) + 1}
        BY <1>1, FS_AddElement
      <4> QED
        BY <1>1, <4>1, FS_AddElement
    <3>5. IsFiniteSet(Admitted(c) \ {r}) /\ Cardinality(Admitted(c) \ {r}) = Cardinality(Admitted(c)) - 1
      BY <1>1, <3>2, FS_RemoveElement
    <3>6. /\ Cardinality(Active(c)') <= Cardinality(Active(c) \cup {id})
          /\ Cardinality(Admitted(c)') <= Cardinality(Admitted(c) \ {r})
          /\ Cardinality(Active(c) \cup {id}) \in Nat
      BY <3>1, <3>3, <3>4, <3>5, FS_Subset, FS_CardinalityType
    <3> QED
      BY <1>1, <1>2, <3>4, <3>5, <3>6
  <2>3. CASE ConfigOf(req[r]) # c
    <3>1. Active(c)' \subseteq Active(c)
      BY <2>1, <2>3 DEF Active, IsAttempt
    <3>2. /\ Cardinality(Active(c)') <= Cardinality(Active(c))
          /\ Cardinality(Admitted(c)') <= Cardinality(Admitted(c))
      BY <1>1, <1>3, <3>1, FS_Subset
    <3> QED
      BY <1>1, <1>2, <3>2
  <2> QED
    BY <2>2, <2>3
<1> QED
  BY <1>2, <1>4, <1>5

\* Every step keeps the overshoot below the number of requests.
LEMMA OvershootStep == Inv /\ OvershootBounded /\ [Next]_vars => OvershootBounded'
<1> SUFFICES ASSUME Inv, OvershootBounded, [Next]_vars, NEW c \in Configs
             PROVE  Cardinality(Active(c)') + Cardinality(Admitted(c)')
                        < MaxConcurrency[c] + Cardinality(Requests)
  BY DEF OvershootBounded
<1>1. /\ Cardinality(Active(c)) + Cardinality(Admitted(c)) < MaxConcurrency[c] + Cardinality(Requests)
      /\ MaxConcurrency[c] \in Nat
      /\ Cardinality(Active(c)) \in Nat /\ Cardinality(Admitted(c)) \in Nat
      /\ Cardinality(Requests) \in Nat
  BY Counted, ConcurrencyAssumption DEF OvershootBounded
<1>2. ASSUME NEW r \in Requests, AdmitStart(r), ConfigOf(req[r]) = c
      PROVE  Cardinality(Active(c)') + Cardinality(Admitted(c)')
                < MaxConcurrency[c] + Cardinality(Requests)
  <2>1. Cardinality(Active(c)) < MaxConcurrency[c]
    BY <1>2 DEF AdmitStart, HasSlot
  <2>2. Active(c)' = Active(c)
    BY <1>2 DEF AdmitStart, Active, IsAttempt
  <2>3. Admitted(c)' \subseteq Requests
    BY DEF Admitted
  <2>4. Cardinality(Admitted(c)') \in Nat /\ Cardinality(Admitted(c)') <= Cardinality(Requests)
    BY <2>3, BoundsAssumption, FS_Subset, FS_CardinalityType
  <2> QED
    BY <1>1, <2>1, <2>2, <2>4
<1>3. CASE \A r \in Requests : AdmitStart(r) => ConfigOf(req[r]) # c
  BY <1>1, <1>3, SlotsHeld
<1> QED
  BY <1>2, <1>3

\* For any number of tasks and requests, the race of starts that count slots
\* before they insert exceeds max_concurrency by less than that number.
THEOREM OvershootBoundedHolds == Spec => []OvershootBounded
<1>1. Init => OvershootBounded
  <2> SUFFICES ASSUME Init, NEW c \in Configs
               PROVE  Cardinality(Active(c)) + Cardinality(Admitted(c))
                        < MaxConcurrency[c] + Cardinality(Requests)
    BY DEF OvershootBounded
  <2>1. Active(c) = {} /\ Admitted(c) = {}
    BY DEF Init, Active, Admitted, IsAttempt, At, InFlight
  <2>2. MaxConcurrency[c] \in 1 .. 100 /\ Cardinality(Requests) \in Nat
    BY ConcurrencyAssumption, Counted
  <2> QED
    BY <2>1, <2>2, FS_EmptySet
<1> QED
  BY <1>1, OvershootStep, InvHolds, PTL DEF Spec

-----------------------------------------------------------------------------
(* The service implements TaskLedger.  Versions and epochs number the rows *)
(* of a task without gap, so the rows are a sequence; a step that adds the *)
(* row of the next number appends to it, and no step touches the others.   *)

HistoryInv == Inv /\ CurrentIsLatest /\ SpecsHaveTasks /\ AttemptOnSatisfiedInput

\* The history is well numbered in every reachable state.
LEMMA HistoryInvStep == HistoryInv /\ [Next]_vars => HistoryInv'
BY InvStep, VersionsStep, InputStep DEF HistoryInv

\* The well-numbered history is an invariant of the service.
LEMMA HistoryInvHolds == Spec => []HistoryInv
<1>1. Init => HistoryInv
  BY InitInv DEF HistoryInv, Init, CurrentIsLatest, SpecsHaveTasks, AttemptOnSatisfiedInput,
                 SpecsOf, IsSpec, IsAttempt
<1> QED
  BY <1>1, HistoryInvStep, PTL DEF Spec

\* A row with a number that no other row has is the one the number chooses.
LEMMA TheVersion ==
    ASSUME NEW S, NEW f, NEW s \in S,
           \A s1, s2 \in S : f[s1].version = f[s2].version => s1 = s2
    PROVE  \A n : n = f[s].version => (CHOOSE x \in S : f[x].version = n) = s
OBVIOUS

\* The same of an epoch: a fence that no other attempt has chooses its row.
LEMMA TheEpoch ==
    ASSUME NEW S, NEW f, NEW s \in S,
           \A s1, s2 \in S : f[s1].epoch = f[s2].epoch => s1 = s2
    PROVE  \A n : n = f[s].epoch => (CHOOSE x \in S : f[x].epoch = n) = s
OBVIOUS

\* The version of the pointer is the number of versions.
LEMMA CountVersions ==
    ASSUME HistoryInv, NEW t \in Tasks
    PROVE  /\ CurrentVersion(t) \in Nat
           /\ CurrentVersion(t) \in VersionsOf(t) \cup {0}
           /\ \A s \in SpecsOf(t) : specs[s].version \in 1 .. CurrentVersion(t)
           /\ 1 .. CurrentVersion(t) \subseteq VersionsOf(t)
<1>1. \A s \in SpecsOf(t) : specs[s].version \in Nat \ {0}
  BY RowTypes DEF HistoryInv, Inv, SpecsOf, SpecRow
<1>2. CASE SpecsOf(t) = {}
  <2>1. CurrentVersion(t) = 0
    BY <1>2 DEF CurrentVersion, HistoryInv, Inv, SessionsSound, PointersSound
  <2> QED
    BY <1>2, <2>1
<1>3. CASE SpecsOf(t) # {}
  <2>1. IsTask(t) /\ tasks[t].current \in SpecsOf(t)
    BY <1>3 DEF HistoryInv, SpecsHaveTasks, CurrentIsLatest
  <2>2. CurrentVersion(t) = specs[tasks[t].current].version
    BY <2>1, NoSpecAssumption DEF CurrentVersion, SpecsOf
  <2> QED
    BY <1>1, <2>1, <2>2 DEF HistoryInv, CurrentIsLatest, VersionsOf
<1> QED
  BY <1>2, <1>3

\* The row of a version.
LEMMA VersionRow ==
    ASSUME HistoryInv, NEW t \in Tasks, NEW n \in 1 .. CurrentVersion(t)
    PROVE  SpecAt(t, n) \in SpecsOf(t) /\ specs[SpecAt(t, n)].version = n
<1>1. \E s \in SpecsOf(t) : specs[s].version = n
  BY CountVersions DEF VersionsOf
<1> QED
  BY <1>1 DEF SpecAt

\* The row of an epoch.
LEMMA EpochRow ==
    ASSUME HistoryInv, NEW t \in Tasks, NEW e \in 1 .. CurrentEpoch(t)
    PROVE  /\ AttemptAt(t, e) \in AttemptsOf(t) /\ attempts[AttemptAt(t, e)].epoch = e
           /\ attempts[AttemptAt(t, e)].spec \in SpecsOf(t)
<1>1. IsTask(t) /\ e \in 1 .. tasks[t].epoch
  BY DEF CurrentEpoch
<1>2. \E a \in AttemptsOf(t) : attempts[a].epoch = e
  BY <1>1 DEF HistoryInv, Inv, EpochFence
<1>3. AttemptAt(t, e) \in AttemptsOf(t) /\ attempts[AttemptAt(t, e)].epoch = e
  BY <1>2 DEF AttemptAt
<1>4. attempts[AttemptAt(t, e)].spec \in SpecIds
  BY <1>3, RowTypes DEF HistoryInv, Inv, AttemptsOf, AttemptRow
<1> QED
  BY <1>3, <1>4 DEF HistoryInv, AttemptOnSatisfiedInput, AttemptsOf, SpecsOf

\* The rows of a task that a step keeps stay where they are in its history.
LEMMA VersionsKept ==
    ASSUME HistoryInv, HistoryInv', NEW t \in Tasks, SpecsOf(t) \subseteq SpecsOf(t)',
           \A s \in SpecsOf(t) : specs'[s] = specs[s], NEW n \in 1 .. CurrentVersion(t)
    PROVE  specs'[SpecAt(t, n)'].content = VersionHistory[t][n]
<1>1. PICK s \in SpecsOf(t) : s = SpecAt(t, n) /\ specs[s].version = n
  BY VersionRow
<1>2. s \in SpecsOf(t)' /\ specs'[s] = specs[s]
  BY <1>1
<1>3. \A s1, s2 \in SpecsOf(t)' : specs'[s1].version = specs'[s2].version => s1 = s2
  BY DEF HistoryInv, CurrentIsLatest
<1>4. (CHOOSE x \in SpecsOf(t)' : specs'[x].version = n) = s
  BY <1>1, <1>2, <1>3, TheVersion
<1>5. SpecAt(t, n)' = s
  BY <1>4 DEF SpecAt
<1> QED
  BY <1>1, <1>2, <1>5 DEF VersionHistory

\* An attempt that stays keeps its place in the history of starts: its epoch
\* chooses it, and its specification its version, also after the step.
LEMMA StartsKept ==
    ASSUME HistoryInv, HistoryInv', NEW t \in Tasks, AttemptsOf(t) \subseteq AttemptsOf(t)',
           \A a \in AttemptsOf(t) : attempts'[a] = attempts[a],
           \A s \in SpecsOf(t) : specs'[s] = specs[s], NEW e \in 1 .. CurrentEpoch(t)
    PROVE  specs'[attempts'[AttemptAt(t, e)'].spec].version = StartHistory[t][e]
<1>1. PICK a \in AttemptsOf(t) :
        a = AttemptAt(t, e) /\ attempts[a].epoch = e /\ attempts[a].spec \in SpecsOf(t)
  BY EpochRow
<1>2. a \in AttemptsOf(t)' /\ attempts'[a] = attempts[a]
  BY <1>1
<1>3. \A a1, a2 \in AttemptsOf(t)' : attempts'[a1].epoch = attempts'[a2].epoch => a1 = a2
  BY DEF HistoryInv, Inv, EpochFence
<1>4. (CHOOSE x \in AttemptsOf(t)' : attempts'[x].epoch = e) = a
  BY <1>1, <1>2, <1>3, TheEpoch
<1>5. AttemptAt(t, e)' = a
  BY <1>4 DEF AttemptAt
<1> QED
  BY <1>1, <1>2, <1>5 DEF StartHistory

\* A function on 1 .. n is a sequence of length n.
LEMMA IsHistory ==
    ASSUME NEW S, NEW n \in Nat, NEW f \in [1 .. n -> S]
    PROVE  f \in Seq(S) /\ Len(f) = n
<1>1. f \in Seq(S)
  OBVIOUS
<1> QED
  BY <1>1, LenProperties

\* A sequence with one more element.
LEMMA Extends ==
    ASSUME NEW S, NEW n \in Nat, NEW f \in [1 .. n -> S], NEW x \in S,
           NEW g \in [1 .. n + 1 -> S], \A i \in 1 .. n : g[i] = f[i], g[n + 1] = x
    PROVE  g = Append(f, x)
<1>1. f \in Seq(S) /\ Len(f) = n
  BY IsHistory
<1>2. n + 1 \in Nat
  OBVIOUS
<1>3. g \in Seq(S) /\ Len(g) = n + 1
  BY <1>2, IsHistory
<1> DEFINE h == Append(f, x)
<1>4. /\ h \in Seq(S) /\ Len(h) = n + 1
      /\ \A i \in 1 .. n : h[i] = f[i]
      /\ h[n + 1] = x
  BY <1>1, AppendProperties
<1> HIDE DEF h
<1>5. \A i \in 1 .. n + 1 : g[i] = h[i]
  <2> SUFFICES ASSUME NEW i \in 1 .. n + 1
               PROVE  g[i] = h[i]
    OBVIOUS
  <2>1. CASE i = n + 1
    BY <2>1, <1>4
  <2>2. CASE i \in 1 .. n
    BY <2>2, <1>4
  <2> QED
    BY <2>1, <2>2
<1>6. g = h
  BY <1>3, <1>4, <1>5, SeqEqual
<1> QED
  BY <1>6 DEF h

\* The histories of a task are sequences.
LEMMA Histories ==
    ASSUME HistoryInv, NEW t \in Tasks
    PROVE  /\ VersionHistory[t] \in [1 .. CurrentVersion(t) -> Contents]
           /\ Len(VersionHistory[t]) = CurrentVersion(t)
           /\ CurrentEpoch(t) \in Nat
           /\ StartHistory[t] \in [1 .. CurrentEpoch(t) -> Nat]
<1>1. \A n \in 1 .. CurrentVersion(t) : specs[SpecAt(t, n)].content \in Contents
  BY VersionRow, RowTypes DEF HistoryInv, Inv, SpecsOf, SpecRow
<1>2. VersionHistory[t] \in [1 .. CurrentVersion(t) -> Contents]
  BY <1>1 DEF VersionHistory
<1>3. CurrentVersion(t) \in Nat
  BY CountVersions
<1>4. Len(VersionHistory[t]) = CurrentVersion(t)
  BY <1>2, <1>3, IsHistory
<1>5. \A e \in 1 .. CurrentEpoch(t) : specs[attempts[AttemptAt(t, e)].spec].version \in Nat
  BY EpochRow, RowTypes DEF HistoryInv, Inv, SpecsOf, SpecRow
<1>6. StartHistory[t] \in [1 .. CurrentEpoch(t) -> Nat]
  BY <1>5 DEF StartHistory
<1>7. CurrentEpoch(t) \in Nat
  BY RowTypes DEF CurrentEpoch, HistoryInv, Inv, TaskRow
<1> QED
  BY <1>2, <1>4, <1>6, <1>7

\* The history of a task without new rows.
LEMMA SameVersions ==
    ASSUME HistoryInv, HistoryInv', NEW t \in Tasks, SpecsOf(t) \subseteq SpecsOf(t)',
           \A s \in SpecsOf(t) : specs'[s] = specs[s], CurrentVersion(t)' = CurrentVersion(t)
    PROVE  VersionHistory'[t] = VersionHistory[t]
<1>1. VersionHistory'[t] = [n \in 1 .. CurrentVersion(t) |-> specs'[SpecAt(t, n)'].content]
  BY DEF VersionHistory
<1>2. VersionHistory[t] = [n \in 1 .. CurrentVersion(t) |-> VersionHistory[t][n]]
  BY Histories
<1> QED
  BY <1>1, <1>2, VersionsKept

\* A step without a new attempt of the task leaves its history of starts.
LEMMA SameStarts ==
    ASSUME HistoryInv, HistoryInv', NEW t \in Tasks, AttemptsOf(t) \subseteq AttemptsOf(t)',
           \A a \in AttemptsOf(t) : attempts'[a] = attempts[a],
           \A s \in SpecsOf(t) : specs'[s] = specs[s], CurrentEpoch(t)' = CurrentEpoch(t)
    PROVE  StartHistory'[t] = StartHistory[t]
<1>1. StartHistory'[t] = [e \in 1 .. CurrentEpoch(t) |->
                            specs'[attempts'[AttemptAt(t, e)'].spec].version]
  BY DEF StartHistory
<1>2. StartHistory[t] = [e \in 1 .. CurrentEpoch(t) |-> StartHistory[t][e]]
  BY Histories
<1> QED
  BY <1>1, <1>2, StartsKept

\* The four steps that write rows map to steps of the ledger, or to none.
LEMMA CreateTaskAppends ==
    ASSUME HistoryInv, HistoryInv', NEW t \in Tasks, CreateTask(t)
    PROVE  Ledger!Create(t)
<1>1. /\ ~IsTask(t) /\ tasks'[t] # NoRow /\ UNCHANGED <<specs, attempts>>
      /\ tasks'[t].epoch = 0 /\ tasks'[t].current = NoSpec
      /\ \A u \in Tasks : u # t => tasks'[u] = tasks[u]
  BY TaskInserted DEF HistoryInv, Inv
<1>2. /\ \A u \in Tasks : SpecsOf(u)' = SpecsOf(u) /\ AttemptsOf(u)' = AttemptsOf(u)
      /\ \A s \in SpecIds : specs'[s] = specs[s]
      /\ \A a \in AttemptIds : attempts'[a] = attempts[a]
  BY <1>1 DEF SpecsOf, IsSpec, AttemptsOf, IsAttempt
<1>3. ASSUME NEW u \in Tasks
      PROVE  CurrentVersion(u)' = CurrentVersion(u) /\ CurrentEpoch(u)' = CurrentEpoch(u)
  <2>1. CASE u = t
    BY <1>1, <2>1 DEF CurrentVersion, CurrentEpoch, IsTask
  <2>2. CASE u # t
    BY <1>1, <2>2 DEF CurrentVersion, CurrentEpoch, IsTask
  <2> QED
    BY <2>1, <2>2
<1>4. ASSUME NEW u \in Tasks
      PROVE  VersionHistory'[u] = VersionHistory[u] /\ StartHistory'[u] = StartHistory[u]
  <2>1. /\ SpecsOf(u) \subseteq SpecsOf(u)' /\ \A s \in SpecsOf(u) : specs'[s] = specs[s]
        /\ AttemptsOf(u) \subseteq AttemptsOf(u)' /\ \A a \in AttemptsOf(u) : attempts'[a] = attempts[a]
    BY <1>2 DEF SpecsOf, AttemptsOf
  <2> QED
    BY <2>1, <1>3, SameVersions, SameStarts
<1>5. UNCHANGED <<VersionHistory, StartHistory>>
  BY <1>4 DEF VersionHistory, StartHistory
<1>6. {u \in Tasks : IsTask(u)}' = {u \in Tasks : IsTask(u)} \cup {t}
  BY <1>1 DEF IsTask
<1> QED
  BY <1>1, <1>5, <1>6 DEF Ledger!Create

\* The commit of a version, on whatever stale copy, appends its content
\* (_create_task_specification).
LEMMA CommitSpecificationAppends ==
    ASSUME HistoryInv, HistoryInv', NEW r \in Requests, CommitSpecification(r)
    PROVE  \E t \in Tasks, c \in Contents : Ledger!AppendVersion(t, c)
<1>1. PICK t \in Tasks, id \in SpecIds, n \in VersionsOf(req[r].work) \cup {0}, c \in Contents :
        /\ t = req[r].work /\ IsTask(t) /\ ~IsSpec(id) /\ ~VersionTaken(t, n + 1)
        /\ specs'[id] = [work |-> t, version |-> n + 1, content |-> c] /\ specs'[id] # NoRow
        /\ \A s \in SpecIds : s # id => specs'[s] = specs[s]
        /\ \A u \in Tasks : SpecsOf(u)' = IF u = t THEN SpecsOf(t) \cup {id} ELSE SpecsOf(u)
        /\ tasks'[t] # NoRow /\ tasks'[t].epoch = tasks[t].epoch /\ tasks'[t].current = id
        /\ tasks'[t].status \in {tasks[t].status, "draft"}
        /\ \A u \in Tasks : u # t => tasks'[u] = tasks[u]
        /\ events' = events \cup {Event("task.specification.created", t, id)}
        /\ attempts' = attempts /\ InFlight(r) /\ req' = [req EXCEPT ![r] = NoRow]
  <2>1. TypeOK /\ SessionsSound
    BY DEF HistoryInv, Inv
  <2> QED
    BY <2>1, SpecificationInserted, Zenon
<1>2. n \in Nat /\ n = CurrentVersion(t)
  <2>1. /\ n \in Nat /\ n \in VersionsOf(t) \cup {0}
        /\ \A s \in SpecsOf(t) : specs[s].version <= n
    BY <1>1, FreeVersion DEF HistoryInv, Inv
  <2>2. /\ CurrentVersion(t) \in Nat /\ CurrentVersion(t) \in VersionsOf(t) \cup {0}
        /\ \A s \in SpecsOf(t) : specs[s].version \in 1 .. CurrentVersion(t)
    BY CountVersions
  <2>3. n <= CurrentVersion(t)
    BY <2>1, <2>2 DEF VersionsOf
  <2>4. CurrentVersion(t) <= n
    BY <2>1, <2>2 DEF VersionsOf
  <2> QED
    BY <2>1, <2>2, <2>3, <2>4
<1>3. /\ \A u \in Tasks : /\ SpecsOf(u) \subseteq SpecsOf(u)' /\ AttemptsOf(u)' = AttemptsOf(u)
                         /\ \A s \in SpecsOf(u) : specs'[s] = specs[s]
      /\ \A a \in AttemptIds : attempts'[a] = attempts[a]
  BY <1>1 DEF SpecsOf, AttemptsOf, IsAttempt
<1>4. /\ CurrentVersion(t)' = n + 1
      /\ \A u \in Tasks : CurrentEpoch(u)' = CurrentEpoch(u)
  BY <1>1, NoSpecAssumption DEF CurrentVersion, CurrentEpoch, IsTask
<1>5. SpecAt(t, n + 1)' = id
  <2>1. id \in SpecsOf(t)' /\ specs'[id].version = n + 1
    BY <1>1
  <2>2. \A s1, s2 \in SpecsOf(t)' : specs'[s1].version = specs'[s2].version => s1 = s2
    BY DEF HistoryInv, CurrentIsLatest
  <2>3. (CHOOSE x \in SpecsOf(t)' : specs'[x].version = n + 1) = id
    BY <2>1, <2>2, TheVersion
  <2> QED
    BY <2>3 DEF SpecAt
<1>6. VersionHistory'[t] = Append(VersionHistory[t], c)
  <2>1. PICK f, g : f = VersionHistory[t] /\ g = VersionHistory'[t]
    OBVIOUS
  <2>2. f \in [1 .. n -> Contents]
    BY <1>2, <2>1, Histories
  <2>3. \A i \in 1 .. n : specs'[SpecAt(t, i)'].content = f[i]
    BY <1>2, <1>3, <2>1, VersionsKept
  <2>4. g = [i \in 1 .. n + 1 |-> specs'[SpecAt(t, i)'].content]
    BY <1>4, <2>1 DEF VersionHistory
  <2>5. \A i \in 1 .. n : g[i] = f[i]
    BY <1>2, <2>3, <2>4
  <2>6. g[n + 1] = c
    BY <1>1, <1>2, <1>5, <2>4
  <2>7. g \in [1 .. n + 1 -> Contents]
    <3>1. ASSUME NEW i \in 1 .. n + 1
          PROVE  g[i] \in Contents
      <4>1. i \in 1 .. n \/ i = n + 1
        BY <1>2
      <4> QED
        BY <2>2, <2>5, <2>6, <4>1
    <3> QED
      BY <2>4, <3>1
  <2> QED
    BY <1>2, <2>1, <2>2, <2>5, <2>6, <2>7, Extends
<1>7. ASSUME NEW u \in Tasks, u # t
      PROVE  VersionHistory'[u] = VersionHistory[u]
  <2>1. CurrentVersion(u)' = CurrentVersion(u)
    <3>1. IsTask(u) /\ tasks[u].current # NoSpec => tasks[u].current \in SpecsOf(u)
      BY DEF HistoryInv, Inv, SessionsSound, PointersSound
    <3> QED
      BY <1>1, <1>3, <1>7, <3>1 DEF CurrentVersion, IsTask
  <2> QED
    BY <1>3, <2>1, SameVersions
<1>8. ASSUME NEW u \in Tasks
      PROVE  StartHistory'[u] = StartHistory[u]
  <2>1. AttemptsOf(u) \subseteq AttemptsOf(u)' /\ \A a \in AttemptsOf(u) : attempts'[a] = attempts[a]
    BY <1>3 DEF AttemptsOf
  <2> QED
    BY <1>3, <1>4, <2>1, SameStarts
<1>9. VersionHistory' = [VersionHistory EXCEPT ![t] = Append(VersionHistory[t], c)]
  BY <1>6, <1>7 DEF VersionHistory
<1>10. UNCHANGED StartHistory
  BY <1>8 DEF StartHistory
<1>11. {u \in Tasks : IsTask(u)}' = {u \in Tasks : IsTask(u)}
  BY <1>1 DEF IsTask
<1> QED
  BY <1>1, <1>9, <1>10, <1>11 DEF Ledger!AppendVersion

\* The commit of an attempt, on whatever stale copy, appends a start on a
\* satisfied version (_start_attempt).
LEMMA CommitAttemptAppends ==
    ASSUME HistoryInv, HistoryInv', NEW r \in Requests, CommitAttempt(r)
    PROVE  \E t \in Tasks : \E n \in 1 .. CurrentVersion(t) : Ledger!AppendStart(t, n)
<1>1. PICK t \in Tasks, id \in AttemptIds, s \in SpecsOf(req[r].work) :
        /\ t = req[r].work /\ IsTask(t) /\ ~IsAttempt(id) /\ s = Input(req[r])
        /\ specs[s].content \in Satisfied
        /\ attempts'[id] # NoRow /\ attempts'[id].work = t /\ attempts'[id].spec = s
        /\ attempts'[id].epoch = tasks[t].epoch + 1
        /\ attempts'[id].config = ConfigOf(req[r])
        /\ \A a \in AttemptIds : a # id => attempts'[a] = attempts[a]
        /\ \A u \in Tasks : AttemptsOf(u)' = IF u = t THEN AttemptsOf(t) \cup {id}
                                                     ELSE AttemptsOf(u)
        /\ tasks'[t] # NoRow /\ tasks'[t].current = tasks[t].current
        /\ tasks'[t].epoch = tasks[t].epoch + 1
        /\ tasks'[t].status \in {tasks[t].status, "in_progress"}
        /\ \A u \in Tasks : u # t => tasks'[u] = tasks[u]
        /\ events' = events \cup {Event("attempt.started", t, id)}
        /\ specs' = specs /\ At(r, "start", "admitted") /\ req' = [req EXCEPT ![r] = NoRow]
  <2>1. TypeOK /\ SessionsSound /\ EpochFence
    BY DEF HistoryInv, Inv
  <2> QED
    BY <2>1, AttemptInserted, Zenon
<1>2. PICK k \in Nat : k = CurrentEpoch(t)
  BY Histories
<1>3. PICK m \in 1 .. CurrentVersion(t) : m = specs[s].version
  BY <1>1, CountVersions
<1>4. VersionHistory[t][m] = specs[s].content /\ m \in Nat
  <2>1. \A s1, s2 \in SpecsOf(t) : specs[s1].version = specs[s2].version => s1 = s2
    BY DEF HistoryInv, CurrentIsLatest
  <2>2. SpecAt(t, m) = s
    BY <1>1, <1>3, <2>1, TheVersion DEF SpecAt
  <2>3. CurrentVersion(t) \in Nat
    BY CountVersions
  <2> QED
    BY <2>2, <2>3 DEF VersionHistory
<1>5. ASSUME NEW u \in Tasks
      PROVE  /\ SpecsOf(u) \subseteq SpecsOf(u)'
             /\ AttemptsOf(u) \subseteq AttemptsOf(u)'
             /\ \A x \in SpecsOf(u) : specs'[x] = specs[x]
             /\ \A a \in AttemptsOf(u) : attempts'[a] = attempts[a]
  BY <1>1 DEF SpecsOf, IsSpec, AttemptsOf
<1>6. /\ CurrentEpoch(t)' = k + 1
      /\ \A u \in Tasks : u # t => CurrentEpoch(u)' = CurrentEpoch(u)
      /\ \A u \in Tasks : CurrentVersion(u)' = CurrentVersion(u)
  BY <1>1, <1>2 DEF CurrentVersion, CurrentEpoch, IsTask
<1>7. AttemptAt(t, k + 1)' = id
  <2>1. id \in AttemptsOf(t)' /\ attempts'[id].epoch = k + 1
    BY <1>1, <1>2 DEF CurrentEpoch
  <2>2. \A a1, a2 \in AttemptsOf(t)' : attempts'[a1].epoch = attempts'[a2].epoch => a1 = a2
    BY DEF HistoryInv, Inv, EpochFence
  <2>3. (CHOOSE x \in AttemptsOf(t)' : attempts'[x].epoch = k + 1) = id
    BY <2>1, <2>2, TheEpoch
  <2> QED
    BY <2>3 DEF AttemptAt
<1>8. StartHistory'[t] = Append(StartHistory[t], m)
  <2>1. PICK f, g : f = StartHistory[t] /\ g = StartHistory'[t]
    OBVIOUS
  <2>2. f \in [1 .. k -> Nat]
    BY <1>2, <2>1, Histories
  <2>3. \A i \in 1 .. k : specs'[attempts'[AttemptAt(t, i)'].spec].version = f[i]
    <3>1. /\ AttemptsOf(t) \subseteq AttemptsOf(t)' /\ \A a \in AttemptsOf(t) : attempts'[a] = attempts[a]
          /\ \A x \in SpecsOf(t) : specs'[x] = specs[x]
      BY <1>5
    <3> QED
      BY <1>2, <2>1, <3>1, StartsKept
  <2>4. g = [i \in 1 .. k + 1 |-> specs'[attempts'[AttemptAt(t, i)'].spec].version]
    BY <1>6, <2>1 DEF StartHistory
  <2>5. \A i \in 1 .. k : g[i] = f[i]
    BY <2>3, <2>4
  <2>6. g[k + 1] = m
    BY <1>1, <1>3, <1>7, <2>4
  <2>7. g \in [1 .. k + 1 -> Nat]
    <3>1. ASSUME NEW i \in 1 .. k + 1
          PROVE  g[i] \in Nat
      <4>1. i \in 1 .. k \/ i = k + 1
        OBVIOUS
      <4> QED
        BY <1>4, <2>2, <2>5, <2>6, <4>1
    <3> QED
      BY <2>4, <3>1
  <2> QED
    BY <1>4, <2>1, <2>2, <2>5, <2>6, <2>7, Extends
<1>9. ASSUME NEW u \in Tasks, u # t
      PROVE  StartHistory'[u] = StartHistory[u]
  <2>1. /\ AttemptsOf(u) \subseteq AttemptsOf(u)' /\ \A a \in AttemptsOf(u) : attempts'[a] = attempts[a]
        /\ \A x \in SpecsOf(u) : specs'[x] = specs[x]
        /\ CurrentEpoch(u)' = CurrentEpoch(u)
    BY <1>5, <1>6, <1>9
  <2> QED
    BY <2>1, SameStarts
<1>10. ASSUME NEW u \in Tasks
       PROVE  VersionHistory'[u] = VersionHistory[u]
  BY <1>5, <1>6, SameVersions
<1>11. StartHistory' = [StartHistory EXCEPT ![t] = Append(StartHistory[t], m)]
  BY <1>8, <1>9 DEF StartHistory
<1>12. UNCHANGED VersionHistory
  BY <1>10 DEF VersionHistory
<1>13. {u \in Tasks : IsTask(u)}' = {u \in Tasks : IsTask(u)}
  BY <1>1 DEF IsTask
<1>14. m \in 1 .. Len(VersionHistory[t])
  BY Histories
<1>15. Ledger!AppendStart(t, m)
  BY <1>1, <1>4, <1>11, <1>12, <1>13, <1>14 DEF Ledger!AppendStart
<1> QED
  BY <1>15

\* Statuses are no part of the ledger.
LEMMA StatusesUnseen ==
    ASSUME HistoryInv, HistoryInv', SameButStatus
    PROVE  UNCHANGED Ledger!ledger
<1>1. ASSUME NEW u \in Tasks
      PROVE  VersionHistory'[u] = VersionHistory[u] /\ StartHistory'[u] = StartHistory[u]
  <2>1. /\ AttemptsOf(u) \subseteq AttemptsOf(u)' /\ \A a \in AttemptsOf(u) : attempts'[a] = attempts[a]
        /\ \A x \in SpecsOf(u) : specs'[x] = specs[x]
        /\ SpecsOf(u) \subseteq SpecsOf(u)'
        /\ CurrentVersion(u)' = CurrentVersion(u) /\ CurrentEpoch(u)' = CurrentEpoch(u)
    BY DEF SameButStatus, SpecsOf, IsSpec, AttemptsOf, IsAttempt, CurrentVersion, CurrentEpoch,
           IsTask
  <2> QED
    BY <2>1, SameVersions, SameStarts
<1>2. UNCHANGED <<VersionHistory, StartHistory>>
  BY <1>1 DEF VersionHistory, StartHistory
<1>3. {u \in Tasks : IsTask(u)}' = {u \in Tasks : IsTask(u)}
  BY DEF SameButStatus, IsTask
<1> QED
  BY <1>2, <1>3 DEF Ledger!ledger

\* Every step of the service is a step of the ledger, or none.
LEMMA LedgerStep == HistoryInv /\ HistoryInv' /\ [Next]_vars => [Ledger!LedgerNext]_(Ledger!ledger)
<1> SUFFICES ASSUME HistoryInv, HistoryInv', [Next]_vars
             PROVE  [Ledger!LedgerNext]_(Ledger!ledger)
  OBVIOUS
<1>1. CASE Quiet
  BY <1>1, StatusesUnseen DEF Quiet, SameButStatus, IsTask
<1>2. ASSUME NEW t \in Tasks, CreateTask(t)
      PROVE  Ledger!LedgerNext
  BY <1>2, CreateTaskAppends DEF Ledger!LedgerNext
<1>3. ASSUME NEW r \in Requests, InFlight(r), PersistReadiness(r)
      PROVE  UNCHANGED Ledger!ledger
  BY <1>3, PersistReadinessRows, StatusesUnseen DEF HistoryInv, Inv
<1>4. ASSUME NEW r \in Requests, CommitSpecification(r)
      PROVE  Ledger!LedgerNext
  BY <1>4, CommitSpecificationAppends DEF Ledger!LedgerNext
<1>5. ASSUME NEW r \in Requests, CommitAttempt(r)
      PROVE  Ledger!LedgerNext
  <2>1. \A t \in Tasks : Len(VersionHistory[t]) = CurrentVersion(t)
    BY Histories
  <2> QED
    BY <1>5, <2>1, CommitAttemptAppends DEF Ledger!LedgerNext
<1> QED
  BY <1>1, <1>2, <1>3, <1>4, <1>5, StepKinds

\* An empty database is an empty ledger.
LEMMA LedgerStart == Init => Ledger!LedgerInit
<1> SUFFICES ASSUME Init
             PROVE  Ledger!LedgerInit
  OBVIOUS
<1>1. \A t \in Tasks : ~IsTask(t)
  BY DEF Init, IsTask
<1>2. \A t \in Tasks : CurrentVersion(t) = 0 /\ CurrentEpoch(t) = 0
  BY <1>1 DEF CurrentVersion, CurrentEpoch
<1>3. 1 .. 0 = {}
  OBVIOUS
<1>4. VersionHistory = [t \in Tasks |-> <<>>] /\ StartHistory = [t \in Tasks |-> <<>>]
  <2>1. \A t \in Tasks : VersionHistory[t] = <<>> /\ StartHistory[t] = <<>>
    <3>1. ASSUME NEW f, DOMAIN f = 1 .. 0, f = [i \in 1 .. 0 |-> f[i]]
          PROVE  f = <<>>
      <4>1. f \in [1 .. 0 -> {}] /\ 0 \in Nat
        BY <1>3, <3>1
      <4>2. f \in Seq({}) /\ Len(f) = 0
        BY <4>1, IsHistory
      <4> QED
        BY <4>2, EmptySeq
    <3> QED
      BY <1>2, <3>1 DEF VersionHistory, StartHistory
  <2> QED
    BY <2>1 DEF VersionHistory, StartHistory
<1> QED
  BY <1>1, <1>4 DEF Ledger!LedgerInit

\* Racing requests on stale copies produce a history that atomic appends
\* could have produced: the service implements TaskLedger, for any number of
\* tasks, rows and requests.
THEOREM LedgerImplemented == Spec => ImplementsLedger
BY LedgerStart, LedgerStep, HistoryInvHolds, PTL
   DEF Spec, ImplementsLedger, Ledger!LedgerSpec

-----------------------------------------------------------------------------
(* What the documentation promises and overlapping requests break.  The    *)
(* theorems name the overlap that has to be excluded: of two requests on   *)
(* one task, and of two starts of one configuration between their count    *)
(* and their insert.  A single request slot excludes both.                 *)

\* Of each task there is at most one request at a time.
OneRequestPerTask ==
    \A r, q \in Requests : InFlight(r) /\ InFlight(q) /\ req[r].work = req[q].work => r = q

\* Of each configuration there is at most one start between count and insert.
OneAdmittedStart ==
    \A c \in Configs : \A r, q \in Admitted(c) : r = q

\* No copy of a task is stale.
CopiesCurrent == \A r \in Requests : InFlight(r) => req[r].task = tasks[req[r].work]

\* The last statement of a request leaves the copies of other tasks alone.
LEMMA FinishCopies ==
    ASSUME Inv, CopiesCurrent, OneRequestPerTask, NEW r \in Requests, InFlight(r), Finish(r),
           \A u \in Tasks : u # req[r].work => tasks'[u] = tasks[u]
    PROVE  CopiesCurrent'
<1> SUFFICES ASSUME NEW x \in Requests, req'[x] # NoRow
             PROVE  req'[x].task = tasks'[req'[x].work]
  BY DEF CopiesCurrent, InFlight
<1>1. x # r /\ req'[x] = req[x]
  BY DEF Finish, Inv, TypeOK
<1>2. InFlight(x) /\ req[x].work # req[r].work
  BY <1>1 DEF OneRequestPerTask, InFlight
<1>3. req[x].work \in Tasks
  BY <1>2, RequestKinds DEF Inv
<1> QED
  BY <1>1, <1>2, <1>3 DEF CopiesCurrent

\* An evaluation of a current copy leaves the row as the evaluated copy.
LEMMA PersistReadinessCurrent ==
    ASSUME Inv, NEW r \in Requests, InFlight(r), PersistReadiness(r), NEW t \in Tasks,
           t = req[r].work, req[r].task = tasks[t]
    PROVE  /\ tasks'[t] = Evaluated(tasks[t])
           /\ \A u \in Tasks : u # t => tasks'[u] = tasks[u]
<1>1. tasks[t] \in TaskRow
  BY RequestKinds DEF Inv
<1>2. PICK status : status = AfterReadiness(tasks[t].status, tasks[t].current)
  OBVIOUS
<1>3. Evaluated(tasks[t]) = [tasks[t] EXCEPT !.status = status]
  BY <1>2 DEF Evaluated
<1>4. CASE status = tasks[t].status /\ tasks' = tasks
  BY <1>1, <1>3, <1>4 DEF TaskRow
<1>5. CASE tasks' = [tasks EXCEPT ![t].status = status]
  BY <1>3, <1>5 DEF Inv, TypeOK
<1> QED
  BY <1>2, <1>4, <1>5 DEF PersistReadiness

\* As long as requests on one task do not overlap, every step keeps the copies
\* current.
LEMMA CopiesStep == Inv /\ CopiesCurrent /\ OneRequestPerTask /\ [Next]_vars => CopiesCurrent'
<1> SUFFICES ASSUME Inv, CopiesCurrent, OneRequestPerTask, [Next]_vars
             PROVE  CopiesCurrent'
  OBVIOUS
<1>1. CASE UNCHANGED vars
  BY <1>1 DEF vars, CopiesCurrent, InFlight
<1>2. ASSUME NEW t \in Tasks, CreateTask(t)
      PROVE  CopiesCurrent'
  <2>1. ~IsTask(t) /\ req' = req /\ \A u \in Tasks : u # t => tasks'[u] = tasks[u]
    BY <1>2, TaskInserted DEF Inv, CreateTask
  <2>2. \A x \in Requests : InFlight(x) => req[x].work \in Tasks /\ IsTask(req[x].work)
    BY RequestKinds DEF Inv, SessionsSound, SessionSound
  <2>3. \A x \in Requests : InFlight(x) => req[x].work # t
    BY <2>1, <2>2
  <2> QED
    BY <2>1, <2>2, <2>3 DEF CopiesCurrent, InFlight
<1>3. ASSUME NEW r \in Requests, Begin(r)
      PROVE  CopiesCurrent'
  <2>1. \E q : req' = [req EXCEPT ![r] = q] /\ q.task = tasks[q.work] /\ tasks' = tasks
    BY <1>3 DEF Begin, BeginSpecification, BeginReadiness, BeginStart, Load
  <2>2. PICK q : req' = [req EXCEPT ![r] = q] /\ q.task = tasks[q.work] /\ tasks' = tasks
    BY <2>1
  <2>3. \A x \in Requests : req'[x] = IF x = r THEN q ELSE req[x]
    BY <2>2 DEF Inv, TypeOK
  <2> QED
    BY <2>2, <2>3 DEF CopiesCurrent, InFlight
<1>4. ASSUME NEW r \in Requests, InFlight(r), Finish(r), UNCHANGED tasks
      PROVE  CopiesCurrent'
  BY <1>4, FinishCopies
<1>5. ASSUME NEW r \in Requests, ReadLatestVersion(r) \/ AdmitStart(r)
      PROVE  CopiesCurrent'
  <2>1. PICK q : /\ req' = [req EXCEPT ![r] = q] /\ tasks' = tasks
                 /\ q.task = req[r].task /\ q.work = req[r].work /\ InFlight(r)
    <3>1. CASE ReadLatestVersion(r)
      <4>1. PICK n : req' = [req EXCEPT ![r].pc = "numbered", ![r].latest = n]
        BY <3>1 DEF ReadLatestVersion
      <4>2. PICK q : q = [req[r] EXCEPT !.pc = "numbered", !.latest = n]
        OBVIOUS
      <4>3. req[r] \in SpecificationRequest /\ InFlight(r)
        BY <3>1, RequestKinds DEF ReadLatestVersion, At, Inv
      <4>4. req' = [req EXCEPT ![r] = q]
        BY <4>1, <4>2 DEF Inv, TypeOK
      <4>5. q.task = req[r].task /\ q.work = req[r].work
        BY <4>2, <4>3 DEF SpecificationRequest
      <4> QED
        BY <3>1, <4>3, <4>4, <4>5 DEF ReadLatestVersion
    <3>2. CASE AdmitStart(r)
      <4>1. PICK q : q = [req[r] EXCEPT !.pc = "admitted"]
        OBVIOUS
      <4>2. req[r] \in StartRequest /\ InFlight(r)
        BY <3>2, RequestKinds DEF AdmitStart, At, Inv
      <4>3. req' = [req EXCEPT ![r] = q]
        BY <3>2, <4>1 DEF AdmitStart, Advance, Inv, TypeOK
      <4>4. q.task = req[r].task /\ q.work = req[r].work
        BY <4>1, <4>2 DEF StartRequest
      <4> QED
        BY <3>2, <4>2, <4>3, <4>4 DEF AdmitStart
    <3> QED
      BY <1>5, <3>1, <3>2
  <2>2. \A x \in Requests : req'[x] = IF x = r THEN q ELSE req[x]
    BY <2>1 DEF Inv, TypeOK
  <2> QED
    BY <2>1, <2>2 DEF CopiesCurrent, InFlight
<1>6. ASSUME NEW r \in Requests, InFlight(r), PersistReadiness(r), Finish(r)
      PROVE  CopiesCurrent'
  <2>1. PICK t \in Tasks : t = req[r].work /\ req[r].task = tasks[t]
    BY <1>6, RequestKinds DEF CopiesCurrent, Inv
  <2>2. \A u \in Tasks : u # req[r].work => tasks'[u] = tasks[u]
    BY <1>6, <2>1, PersistReadinessCurrent
  <2> QED
    BY <1>6, <2>2, FinishCopies
<1>7. ASSUME NEW r \in Requests, GateStart(r), ~Finish(r)
      PROVE  CopiesCurrent'
  <2>1. InFlight(r) /\ PersistReadiness(r)
    BY <1>7 DEF GateStart, At
  <2>2. PICK t \in Tasks : t = req[r].work /\ req[r].task = tasks[t]
    BY <2>1, RequestKinds DEF CopiesCurrent, Inv
  <2>3. /\ tasks'[t] = Evaluated(tasks[t])
        /\ \A u \in Tasks : u # t => tasks'[u] = tasks[u]
    BY <2>1, <2>2, PersistReadinessCurrent
  <2>4. PICK q : /\ req' = [req EXCEPT ![r] = q]
                 /\ q.work = t /\ q.task = Evaluated(tasks[t])
    BY <1>7, <2>2 DEF GateStart
  <2>5. \A x \in Requests : req'[x] = IF x = r THEN q ELSE req[x]
    BY <2>4 DEF Inv, TypeOK
  <2>6. \A x \in Requests : x # r /\ InFlight(x) => req[x].work \in Tasks /\ req[x].work # t
    BY <2>1, <2>2, RequestKinds DEF OneRequestPerTask, Inv
  <2> QED
    BY <2>3, <2>4, <2>5, <2>6 DEF CopiesCurrent, InFlight
<1>8. ASSUME NEW r \in Requests, CommitSpecification(r)
      PROVE  CopiesCurrent'
  <2>1. /\ \A u \in Tasks : u # req[r].work => tasks'[u] = tasks[u]
        /\ InFlight(r) /\ Finish(r)
    BY <1>8, SpecificationInserted DEF Inv, Finish
  <2> QED
    BY <2>1, FinishCopies
<1>9. ASSUME NEW r \in Requests, CommitAttempt(r)
      PROVE  CopiesCurrent'
  <2>1. /\ \A u \in Tasks : u # req[r].work => tasks'[u] = tasks[u]
        /\ InFlight(r) /\ Finish(r)
    BY <1>9, AttemptInserted DEF Inv, Finish, At
  <2> QED
    BY <2>1, FinishCopies
<1>10. ASSUME NEW r \in Requests, Proceed(r)
       PROVE  CopiesCurrent'
  BY <1>4, <1>5, <1>6, <1>7, <1>8, <1>9, <1>10
     DEF Proceed, Rollback, RejectReferences, ConflictSpecification, AnswerReadiness, RefuseStart,
         ConflictAttempt, GateStart, At
<1>11. ASSUME NEW r \in Requests, Abort(r)
       PROVE  CopiesCurrent'
  BY <1>4, <1>11 DEF Abort, Rollback
<1> QED
  BY <1>1, <1>2, <1>3, <1>10, <1>11 DEF Next

\* Where requests on one task do not overlap, no copy is ever stale.
LEMMA CopiesHold == Spec /\ []OneRequestPerTask => []CopiesCurrent
<1>1. Init => CopiesCurrent
  BY DEF Init, CopiesCurrent, InFlight
<1> QED
  BY <1>1, CopiesStep, InvHolds, PTL DEF Spec

\* What a commit on a current copy writes: the demotion of the status it finds.
LEMMA CommitSpecificationCurrent ==
    ASSUME Inv, NEW r \in Requests, CommitSpecification(r), NEW t \in Tasks,
           t = req[r].work, req[r].task = tasks[t]
    PROVE  /\ tasks'[t].status = AfterSpecification(tasks[t].status)
           /\ \A u \in Tasks : u # t => tasks'[u] = tasks[u]
<1>1. PICK status : status = AfterSpecification(tasks[t].status)
  OBVIOUS
<1>2. Saved(tasks[t].status, req[r].task.status, status) = status
  BY DEF Saved
<1>3. tasks' = [tasks EXCEPT ![t] = [status |-> status, epoch |-> tasks[t].epoch,
                                    current |-> req[r].id]]
  BY <1>1, <1>2 DEF CommitSpecification
<1> QED
  BY <1>1, <1>3 DEF Inv, TypeOK

\* And a start: in progress, on the pointer it finds.
LEMMA CommitAttemptCurrent ==
    ASSUME Inv, NEW r \in Requests, CommitAttempt(r), NEW t \in Tasks,
           t = req[r].work, req[r].task = tasks[t]
    PROVE  /\ tasks'[t].status = "in_progress" /\ tasks'[t].current = tasks[t].current
           /\ \A u \in Tasks : u # t => tasks'[u] = tasks[u]
<1>1. Saved(tasks[t].status, req[r].task.status, StartTransition.task) = "in_progress"
  BY DEF Saved, StartTransition
<1>2. tasks' = [tasks EXCEPT ![t] = [status |-> "in_progress", epoch |-> tasks[t].epoch + 1,
                                    current |-> tasks[t].current]]
  BY <1>1 DEF CommitAttempt
<1> QED
  BY <1>2 DEF Inv, TypeOK

\* The steps that write the row of a task, when the copy is current.
LEMMA WritesCurrent ==
    ASSUME Inv, CopiesCurrent, [Next]_vars, NEW u \in Tasks, IsTask(u)
    PROVE  \/ tasks'[u] = tasks[u]
           \/ tasks'[u] = Evaluated(tasks[u]) /\ specs' = specs
           \/ tasks'[u].status = AfterSpecification(tasks[u].status)
           \/ /\ tasks'[u].status = "in_progress" /\ tasks'[u].current = tasks[u].current
              /\ specs' = specs
<1>1. ASSUME NEW r \in Requests, InFlight(r)
      PROVE  req[r].work \in Tasks /\ req[r].task = tasks[req[r].work]
  BY <1>1, RequestKinds DEF CopiesCurrent, Inv
<1>2. ASSUME NEW t \in Tasks, CreateTask(t)
      PROVE  tasks'[u] = tasks[u]
  BY <1>2, TaskInserted DEF Inv
<1>3. ASSUME NEW r \in Requests, InFlight(r), PersistReadiness(r)
      PROVE  tasks'[u] = tasks[u] \/ (tasks'[u] = Evaluated(tasks[u]) /\ specs' = specs)
  BY <1>1, <1>3, PersistReadinessCurrent DEF PersistReadiness
<1>4. ASSUME NEW r \in Requests, CommitSpecification(r)
      PROVE  tasks'[u] = tasks[u] \/ tasks'[u].status = AfterSpecification(tasks[u].status)
  BY <1>1, <1>4, CommitSpecificationCurrent DEF CommitSpecification, At
<1>5. ASSUME NEW r \in Requests, CommitAttempt(r)
      PROVE  \/ tasks'[u] = tasks[u]
             \/ /\ tasks'[u].status = "in_progress" /\ tasks'[u].current = tasks[u].current
                /\ specs' = specs
  BY <1>1, <1>5, CommitAttemptCurrent DEF CommitAttempt, At
<1> QED
  BY <1>2, <1>3, <1>4, <1>5, StepKinds DEF Quiet

\* What an evaluation makes of the status and the pointer of a row.
LEMMA EvaluatedStatus ==
    ASSUME NEW task \in TaskRow
    PROVE  Evaluated(task).status = AfterReadiness(task.status, task.current)
<1>1. PICK status : status = AfterReadiness(task.status, task.current)
  OBVIOUS
<1>2. Evaluated(task) = [task EXCEPT !.status = status]
  BY <1>1 DEF Evaluated
<1> QED
  BY <1>1, <1>2 DEF TaskRow

\* A task in progress stays in progress when its requests do not overlap: only
\* the write of a stale copy could take it back (_create_task_specification,
\* readiness, _start_attempt).
THEOREM StartedStaysInOrder == Spec /\ []OneRequestPerTask => StartedStays
<1> DEFINE Stays ==
        \A t \in Tasks : IsTask(t) /\ tasks[t].status = "in_progress"
                            => tasks'[t].status = "in_progress"
<1>1. ASSUME Inv, CopiesCurrent, [Next]_vars
      PROVE  Stays
  <2> SUFFICES ASSUME NEW t \in Tasks, IsTask(t), tasks[t].status = "in_progress"
               PROVE  tasks'[t].status = "in_progress"
    OBVIOUS
  <2>1. Evaluated(tasks[t]).status = "in_progress"
    BY <1>1, EvaluatedStatus, RowTypes DEF Inv, AfterReadiness, Persistable
  <2>2. AfterSpecification("in_progress") = "in_progress"
    BY DEF AfterSpecification
  <2> QED
    BY <1>1, <2>1, <2>2, WritesCurrent
<1>2. Inv /\ CopiesCurrent /\ [Next]_vars => [Stays]_vars
  BY <1>1
<1> QED
  BY <1>2, InvHolds, CopiesHold, PTL DEF Spec, StartedStays

\* A start commits on the specification that is current then, when the requests
\* on its task do not overlap.
THEOREM StartsOnCurrentInOrder == Spec /\ []OneRequestPerTask => StartsOnCurrent
<1> DEFINE OnCurrent ==
        \A a \in AttemptIds : ~IsAttempt(a) /\ attempts'[a] # NoRow
            => attempts'[a].spec = tasks[attempts'[a].work].current
<1>1. ASSUME Inv, CopiesCurrent, [Next]_vars
      PROVE  OnCurrent
  <2> SUFFICES ASSUME NEW a \in AttemptIds, ~IsAttempt(a), attempts'[a] # NoRow
               PROVE  attempts'[a].spec = tasks[attempts'[a].work].current
    OBVIOUS
  <2>1. attempts' # attempts
    BY DEF IsAttempt
  <2>2. PICK r \in Requests : CommitAttempt(r)
    BY <1>1, <2>1, StepKinds, SpecificationInserted
       DEF Inv, Quiet, CreateTask, PersistReadiness
  <2>3. PICK t \in Tasks, id \in AttemptIds :
          /\ t = req[r].work /\ attempts'[id].work = t /\ attempts'[id].spec = Input(req[r])
          /\ \A b \in AttemptIds : b # id => attempts'[b] = attempts[b]
    BY <1>1, <2>2, AttemptInserted DEF Inv
  <2>4. a = id
    BY <2>3 DEF IsAttempt
  <2>5. req[r].task = tasks[t]
    BY <1>1, <2>2, <2>3 DEF CopiesCurrent, CommitAttempt, At
  <2> QED
    BY <2>3, <2>4, <2>5 DEF Input
<1>2. Inv /\ CopiesCurrent /\ [Next]_vars => [OnCurrent]_vars
  BY <1>1
<1> QED
  BY <1>2, InvHolds, CopiesHold, PTL DEF Spec, StartsOnCurrent

\* A ready task is ready on its current specification, when its requests do not
\* overlap (_create_task_specification returns a ready task to draft).
THEOREM ReadyMeansCurrentInOrder == Spec /\ []OneRequestPerTask => []ReadyMeansCurrentSatisfied
<1>1. Init => ReadyMeansCurrentSatisfied
  BY DEF Init, ReadyMeansCurrentSatisfied, IsTask
<1>2. ASSUME Inv, CopiesCurrent, ReadyMeansCurrentSatisfied, [Next]_vars
      PROVE  ReadyMeansCurrentSatisfied'
  <2> SUFFICES ASSUME NEW u \in Tasks, tasks'[u] # NoRow, tasks'[u].status = "ready"
               PROVE  IsReady(tasks[u].current)'
    BY DEF ReadyMeansCurrentSatisfied, IsTask
  <2>1. IsTask(u)
    <3>1. ~\E t \in Tasks : CreateTask(t) /\ t = u
      BY <1>2, TaskInserted DEF Inv
    <3>2. ASSUME ~IsTask(u)
          PROVE  FALSE
      <4>1. tasks'[u] # tasks[u]
        BY <3>2 DEF IsTask
      <4>2. ASSUME NEW r \in Requests, InFlight(r)
            PROVE  req[r].work \in Tasks /\ req[r].work # u
        BY <1>2, <3>2, <4>2, RequestKinds DEF Inv, SessionsSound, SessionSound
      <4>3. ~\E r \in Requests : InFlight(r) /\ PersistReadiness(r)
        BY <1>2, <4>1, <4>2, PersistReadinessStatus DEF Inv
      <4>4. ~\E r \in Requests : CommitSpecification(r)
        BY <1>2, <4>1, <4>2, SpecificationInserted DEF Inv
      <4>5. ~\E r \in Requests : CommitAttempt(r)
        BY <1>2, <4>1, <4>2, AttemptInserted DEF Inv, At
      <4>6. \A t \in Tasks : CreateTask(t) => t = u
        BY <1>2, <4>1, TaskInserted DEF Inv
      <4> QED
        BY <1>2, <3>1, <4>1, <4>3, <4>4, <4>5, <4>6, StepKinds DEF Quiet
    <3> QED
      BY <3>2
  <2>2. tasks[u] \in TaskRow /\ tasks[u].current \in SpecsOf(u) \cup {NoSpec}
    BY <1>2, <2>1, RowTypes DEF Inv, SessionsSound, PointersSound
  <2>3. IsReady(tasks[u].current) /\ tasks'[u].current = tasks[u].current
            => IsReady(tasks[u].current)'
    BY <1>2, <2>2, SpecsStay DEF IsReady, SpecsOf
  <2>4. CASE tasks'[u] = tasks[u]
    BY <1>2, <2>1, <2>3, <2>4 DEF ReadyMeansCurrentSatisfied
  <2>5. CASE tasks'[u] = Evaluated(tasks[u])
    <3>1. AfterReadiness(tasks[u].status, tasks[u].current) = "ready"
      BY <2>2, <2>5, EvaluatedStatus
    <3>2. tasks'[u].current = tasks[u].current
      BY <2>2, <2>5, EvaluatedType
    <3>3. IsReady(tasks[u].current)
      BY <3>1 DEF AfterReadiness, Persistable
    <3> QED
      BY <2>3, <3>2, <3>3
  <2>6. tasks'[u].status # AfterSpecification(tasks[u].status)
    BY DEF AfterSpecification
  <2> QED
    BY <1>2, <2>1, <2>4, <2>5, <2>6, WritesCurrent
<1> QED
  BY <1>1, <1>2, InvHolds, CopiesHold, PTL DEF Spec

\* A readiness evaluation keeps every status but draft and ready, when the
\* requests on a task do not overlap (readiness persists on the loaded status).
THEOREM ReadinessKeepsOtherStatusesInOrder ==
    Spec /\ []OneRequestPerTask => ReadinessKeepsOtherStatuses
<1> DEFINE Keeps ==
        ReadinessStep => \A t \in Tasks :
            IsTask(t) /\ tasks[t].status \notin {"draft", "ready"}
                => tasks'[t].status = tasks[t].status
<1>1. ASSUME Inv, CopiesCurrent
      PROVE  Keeps
  <2> SUFFICES ASSUME NEW r \in Requests, AnswerReadiness(r) \/ GateStart(r),
                      NEW t \in Tasks, IsTask(t), tasks[t].status \notin {"draft", "ready"}
               PROVE  tasks'[t].status = tasks[t].status
    BY DEF ReadinessStep
  <2>1. InFlight(r) /\ PersistReadiness(r)
    BY DEF AnswerReadiness, GateStart, At
  <2>2. PICK u \in Tasks : u = req[r].work /\ req[r].task = tasks[u]
    BY <1>1, <2>1, RequestKinds DEF CopiesCurrent, Inv
  <2>3. /\ tasks'[u] = Evaluated(tasks[u])
        /\ \A x \in Tasks : x # u => tasks'[x] = tasks[x]
    BY <1>1, <2>1, <2>2, PersistReadinessCurrent
  <2>4. Evaluated(tasks[t]).status = tasks[t].status
    BY <1>1, EvaluatedStatus, RowTypes DEF Inv, AfterReadiness, Persistable
  <2> QED
    BY <2>3, <2>4
<1>2. Inv /\ CopiesCurrent => [Keeps]_vars
  BY <1>1
<1> QED
  BY <1>2, InvHolds, CopiesHold, PTL DEF Spec, ReadinessKeepsOtherStatuses

\* No configuration has more active attempts than its max_concurrency, when no
\* two starts of it are between the count and the insert at once.
THEOREM ConcurrencyCapInOrder == Spec /\ []OneAdmittedStart => []ConcurrencyCap
<1> DEFINE Capped == \A c \in Configs :
            Cardinality(Active(c)) + Cardinality(Admitted(c)) <= MaxConcurrency[c]
<1>1. Init => Capped
  <2> SUFFICES ASSUME Init, NEW c \in Configs
               PROVE  Cardinality(Active(c)) + Cardinality(Admitted(c)) <= MaxConcurrency[c]
    OBVIOUS
  <2>1. Active(c) = {} /\ Admitted(c) = {}
    BY DEF Init, Active, Admitted, IsAttempt, At, InFlight
  <2> QED
    BY <2>1, FS_EmptySet, ConcurrencyAssumption
<1>2. ASSUME Inv, Capped, OneAdmittedStart', [Next]_vars
      PROVE  Capped'
  <2> SUFFICES ASSUME NEW c \in Configs
               PROVE  Cardinality(Active(c)') + Cardinality(Admitted(c)') <= MaxConcurrency[c]
    OBVIOUS
  <2>1. /\ Cardinality(Active(c)) + Cardinality(Admitted(c)) <= MaxConcurrency[c]
        /\ Cardinality(Active(c)) \in Nat /\ Cardinality(Admitted(c)) \in Nat
        /\ MaxConcurrency[c] \in Nat
    BY <1>2, Counted, ConcurrencyAssumption
  <2>2. ASSUME NEW r \in Requests, AdmitStart(r), ConfigOf(req[r]) = c
        PROVE  Cardinality(Active(c)') + Cardinality(Admitted(c)') <= MaxConcurrency[c]
    <3>1. Cardinality(Active(c)) < MaxConcurrency[c]
      BY <2>2 DEF AdmitStart, HasSlot
    <3>2. Active(c)' = Active(c)
      BY <2>2 DEF AdmitStart, Active, IsAttempt
    <3>3. \A x, y \in Admitted(c)' : x = y
      BY <1>2 DEF OneAdmittedStart
    <3>4. Cardinality(Admitted(c)') \in {0, 1}
      <4>1. Admitted(c)' = {} \/ \E x : Admitted(c)' = {x}
        BY <3>3
      <4> QED
        BY <4>1, FS_EmptySet, FS_Singleton
    <3> QED
      BY <2>1, <3>1, <3>2, <3>4
  <2>3. CASE \A r \in Requests : AdmitStart(r) => ConfigOf(req[r]) # c
    BY <1>2, <2>1, <2>3, SlotsHeld
  <2> QED
    BY <2>2, <2>3
<1>3. Capped => ConcurrencyCap
  <2> SUFFICES ASSUME Capped, NEW c \in Configs
               PROVE  Cardinality(Active(c)) <= MaxConcurrency[c]
    BY DEF ConcurrencyCap
  <2> QED
    BY Counted, ConcurrencyAssumption
<1> QED
  BY <1>1, <1>2, <1>3, InvHolds, PTL DEF Spec

\* A single request slot excludes both overlaps, and so keeps every promise.
THEOREM OneSlotKeepsPromises ==
    ASSUME \A r, q \in Requests : r = q
    PROVE  Spec => /\ StartedStays /\ StartsOnCurrent /\ ReadinessKeepsOtherStatuses
                   /\ []ReadyMeansCurrentSatisfied /\ []ConcurrencyCap
<1>1. OneRequestPerTask /\ OneAdmittedStart
  BY DEF OneRequestPerTask, OneAdmittedStart, Admitted
<1> QED
  BY <1>1, StartedStaysInOrder, StartsOnCurrentInOrder, ReadyMeansCurrentInOrder,
     ReadinessKeepsOtherStatusesInOrder, ConcurrencyCapInOrder, PTL

-----------------------------------------------------------------------------
(* The service under the guards of revision 0002.  The constraints follow  *)
(* from the invariant of the history; the triggers stay silent because the *)
(* service only inserts into the guarded tables.                           *)

\* The tables and their keys as the guards see them.
LEMMA GuardedTables ==
    /\ Guards!Tables = {"projects", "agents", "agent_configurations", "repositories", "tasks",
                        "task_specifications", "attempts"}
    /\ GuardedIds["projects"] = {Project} /\ GuardedIds["repositories"] = {Repository}
    /\ GuardedIds["agents"] = Configs
    /\ GuardedIds["agent_configurations"] = Configs
    /\ GuardedIds["task_specifications"] = SpecIds
    /\ GuardedIds["tasks"] = Tasks /\ GuardedIds["attempts"] = AttemptIds
BY DEF Guards!Tables, GuardedIds

\* None of the rows is the missing row.
LEMMA GuardedRowsPresent ==
    /\ \A T \in DOMAIN GuardedRows : \A x \in GuardedRows[T] : x # NoRow
    /\ DOMAIN GuardedRows = Guards!Tables
<1>1. DOMAIN GuardedRows = Guards!Tables
  BY DEF GuardedRows, Guards!Tables
<1> QED
  BY <1>1, GuardedRowsAssumption

\* Each cell of the database, and that it is empty exactly without a row.
LEMMA GuardedCells ==
    ASSUME TypeOK
    PROVE  /\ \A c \in Configs : /\ Database["agent_configurations"][c] = ConfigurationRow(c)
                                 /\ ConfigurationRow(c) # NoRow
           /\ \A s \in SpecIds :
                /\ Database["task_specifications"][s] = IF IsSpec(s) THEN SpecificationRow(s) ELSE NoRow
                /\ IsSpec(s) => SpecificationRow(s) # NoRow
           /\ \A t \in Tasks :
                /\ Database["tasks"][t] = IF IsTask(t) THEN WorkRow(t) ELSE NoRow
                /\ IsTask(t) => WorkRow(t) # NoRow
           /\ \A a \in AttemptIds :
                /\ Database["attempts"][a] = IF IsAttempt(a) THEN ExecutionRow(a) ELSE NoRow
                /\ IsAttempt(a) => ExecutionRow(a) # NoRow
<1> USE GuardedRowsPresent, GuardedTables
<1>1. \A c \in Configs : ConfigurationRow(c) # NoRow
  <2>1. \A c \in Configs : ConfigurationRow(c) \in GuardedRows["agent_configurations"]
    BY DEF ConfigurationRow, GuardedRows
  <2> QED
    BY <2>1
<1>2. \A s \in SpecIds : IsSpec(s) => SpecificationRow(s) # NoRow
  <2>1. \A s \in SpecIds :
          IsSpec(s) => SpecificationRow(s) \in GuardedRows["task_specifications"]
    BY RowTypes, PayloadAssumption, ReviewerAssumption DEF SpecificationRow, SpecRow, GuardedRows
  <2> QED
    BY <2>1
<1>3. \A t \in Tasks : IsTask(t) => WorkRow(t) # NoRow
  <2>1. \A t \in Tasks : IsTask(t) => WorkRow(t) \in GuardedRows["tasks"]
    BY RowTypes DEF WorkRow, TaskRow, GuardedRows
  <2> QED
    BY <2>1
<1>4. \A a \in AttemptIds : IsAttempt(a) => ExecutionRow(a) # NoRow
  <2>1. \A a \in AttemptIds : IsAttempt(a) => ExecutionRow(a) \in GuardedRows["attempts"]
    BY RowTypes DEF ExecutionRow, AttemptRow, GuardedRows
  <2> QED
    BY <2>1
<1> QED
  BY <1>1, <1>2, <1>3, <1>4 DEF Database

\* The cells of the tables that the service refers to and never changes here.
LEMMA ReferredCells ==
    /\ Database["projects"][Project] = [name |-> Project]
    /\ Database["projects"][Project] # NoRow
    /\ Database["repositories"][Repository] = [project |-> Project, name |-> Repository]
    /\ Database["repositories"][Repository] # NoRow
    /\ \A c \in Configs : /\ Database["agents"][c] = [name |-> c]
                          /\ Database["agents"][c] # NoRow
<1>1. /\ [name |-> Project] \in GuardedRows["projects"]
      /\ [project |-> Project, name |-> Repository] \in GuardedRows["repositories"]
      /\ \A c \in Configs : [name |-> c] \in GuardedRows["agents"]
  BY DEF GuardedRows
<1>2. /\ [name |-> Project] # NoRow
      /\ [project |-> Project, name |-> Repository] # NoRow
      /\ \A c \in Configs : [name |-> c] # NoRow
  BY <1>1, GuardedRowsPresent, GuardedTables
<1> QED
  BY <1>2 DEF Database

\* The keys with a row.
LEMMA GuardedKeys ==
    ASSUME TypeOK
    PROVE  /\ Guards!Keys(Database, "agent_configurations") = Configs
           /\ Guards!Keys(Database, "task_specifications") = {s \in SpecIds : IsSpec(s)}
           /\ Guards!Keys(Database, "tasks") = {t \in Tasks : IsTask(t)}
           /\ Guards!Keys(Database, "attempts") = {a \in AttemptIds : IsAttempt(a)}
BY GuardedTables, GuardedCells DEF Guards!Keys

\* Every key of the tables it refers to has one.
LEMMA ReferredKeys ==
    /\ Guards!Keys(Database, "projects") = {Project}
    /\ Guards!Keys(Database, "repositories") = {Repository}
    /\ Guards!Keys(Database, "agents") = Configs
<1>1. Guards!Keys(Database, "projects") = {Project}
  BY GuardedTables, ReferredCells DEF Guards!Keys
<1>2. Guards!Keys(Database, "repositories") = {Repository}
  BY GuardedTables, ReferredCells DEF Guards!Keys
<1>3. Guards!Keys(Database, "agents") = Configs
  BY GuardedTables, ReferredCells DEF Guards!Keys
<1> QED
  BY <1>1, <1>2, <1>3

\* The constraints of both revisions follow from the invariant of the history.
LEMMA HistoryMeetsConstraints == HistoryInv => ServiceMeetsConstraints
<1> SUFFICES ASSUME HistoryInv PROVE ServiceMeetsConstraints
  OBVIOUS
<1>0. TypeOK /\ EpochFence /\ PointersSound
  BY DEF HistoryInv, Inv, SessionsSound
<1> USE GuardedTables
<1>u. ASSUME NEW T \in Guards!Tables,
             T \in DOMAIN Guards!UniqueKey =>
                \A k, j \in Guards!Keys(Database, T) :
                    (\A f \in Guards!UniqueKey[T] : Database[T][j][f] = Database[T][k][f]) => j = k
      PROVE  Guards!Unique(Database, T)
  BY <1>u DEF Guards!Unique, Guards!SameKey
<1>k. /\ DOMAIN Guards!UniqueKey = Guards!Tables \ {"tasks"}
      /\ Guards!UniqueKey["agents"] = {"name"}
      /\ Guards!UniqueKey["agent_configurations"] = {"agent", "version"}
      /\ Guards!UniqueKey["task_specifications"] = {"task", "version"}
      /\ Guards!UniqueKey["attempts"] = {"work", "epoch"}
  BY DEF Guards!UniqueKey
<1>1. /\ Guards!Unique(Database, "agent_configurations") /\ Guards!Unique(Database, "agents")
      /\ Guards!Unique(Database, "projects") /\ Guards!Unique(Database, "repositories")
      /\ Guards!Unique(Database, "tasks")
  <2>0. ASSUME NEW T \in Guards!Tables, NEW f \in Guards!UniqueKey[T],
               \A k \in Guards!Keys(Database, T) : Database[T][k][f] = k
        PROVE  Guards!Unique(Database, T)
    <3>1. ASSUME NEW k \in Guards!Keys(Database, T), NEW j \in Guards!Keys(Database, T),
                 \A g \in Guards!UniqueKey[T] : Database[T][j][g] = Database[T][k][g]
          PROVE  j = k
      <4>1. Database[T][j][f] = Database[T][k][f]
        BY <3>1
      <4> QED
        BY <2>0, <4>1
    <3> QED
      BY <1>u, <3>1
  <2>1. Guards!Unique(Database, "agent_configurations")
    <3>1. \A c \in Configs : ConfigurationRow(c)["agent"] = c
      BY DEF ConfigurationRow
    <3>2. \A c \in Configs : Database["agent_configurations"][c]["agent"] = c
      BY <1>0, <3>1, GuardedCells
    <3>3. Guards!Keys(Database, "agent_configurations") = Configs
      BY <1>0, GuardedKeys
    <3>4. \A k \in Guards!Keys(Database, "agent_configurations") :
            Database["agent_configurations"][k]["agent"] = k
      BY <3>2, <3>3
    <3>5. "agent" \in Guards!UniqueKey["agent_configurations"]
      BY <1>k
    <3> QED
      BY <2>0, <3>4, <3>5
  <2>2. Guards!Unique(Database, "agents")
    <3>1. \A c \in Configs : Database["agents"][c]["name"] = c
      <4>1. \A c : [name |-> c]["name"] = c
        OBVIOUS
      <4>2. \A c \in Configs : Database["agents"][c] = [name |-> c]
        BY ReferredCells
      <4> QED
        BY <4>1, <4>2
    <3>2. \A k \in Guards!Keys(Database, "agents") : Database["agents"][k]["name"] = k
      BY <3>1, ReferredKeys
    <3>3. "name" \in Guards!UniqueKey["agents"]
      BY <1>k
    <3> QED
      BY <2>0, <3>2, <3>3
  <2>3. /\ Guards!Unique(Database, "projects") /\ Guards!Unique(Database, "repositories")
    <3>1. /\ \A k, j \in Guards!Keys(Database, "projects") : j = k
          /\ \A k, j \in Guards!Keys(Database, "repositories") : j = k
      BY ReferredKeys
    <3> QED
      BY <1>u, <3>1
  <2>4. Guards!Unique(Database, "tasks")
    BY <1>u, <1>k
  <2> QED
    BY <2>1, <2>2, <2>3, <2>4
<1>2. Guards!Unique(Database, "task_specifications")
  <2>1. ASSUME NEW s \in SpecIds, NEW j \in SpecIds, IsSpec(s), IsSpec(j),
               \A f \in {"task", "version"} : SpecificationRow(j)[f] = SpecificationRow(s)[f]
        PROVE  j = s
    <3>1. SpecificationRow(j).task = SpecificationRow(s).task
          /\ SpecificationRow(j).version = SpecificationRow(s).version
      BY <2>1
    <3>2. specs[s].work \in Tasks
      BY <1>0, <2>1, RowTypes DEF SpecRow
    <3> QED
      BY <2>1, <3>1, <3>2 DEF SpecificationRow, HistoryInv, CurrentIsLatest, SpecsOf
  <2>2. \A k, j \in Guards!Keys(Database, "task_specifications") :
          (\A f \in {"task", "version"} :
              Database["task_specifications"][j][f] = Database["task_specifications"][k][f])
            => j = k
    BY <1>0, <2>1, GuardedCells, GuardedKeys
  <2> QED
    BY <1>u, <1>k, <2>2
<1>3. Guards!Unique(Database, "attempts")
  <2>1. ASSUME NEW a \in AttemptIds, NEW j \in AttemptIds, IsAttempt(a), IsAttempt(j),
               \A f \in {"work", "epoch"} : ExecutionRow(j)[f] = ExecutionRow(a)[f]
        PROVE  j = a
    <3>1. ExecutionRow(j).work = ExecutionRow(a).work /\ ExecutionRow(j).epoch = ExecutionRow(a).epoch
      BY <2>1
    <3>2. attempts[a].work \in Tasks
      BY <1>0, <2>1, RowTypes DEF AttemptRow
    <3> QED
      BY <1>0, <2>1, <3>1, <3>2 DEF ExecutionRow, EpochFence, AttemptsOf
  <2>2. \A k, j \in Guards!Keys(Database, "attempts") :
          (\A f \in {"work", "epoch"} : Database["attempts"][j][f] = Database["attempts"][k][f])
            => j = k
    BY <1>0, <2>1, GuardedCells, GuardedKeys
  <2> QED
    BY <1>u, <1>k, <2>2
<1>4. ASSUME NEW s \in SpecIds, NEW t \in Tasks, IsSpec(s), specs[s].work = t
      PROVE  Guards!IsSpecificationOf(Database, s, t) /\ IsTask(t)
  <2>1. IsTask(t)
    BY <1>4 DEF HistoryInv, SpecsHaveTasks, SpecsOf
  <2>2. /\ Database["task_specifications"][s] = SpecificationRow(s)
        /\ SpecificationRow(s) # NoRow /\ SpecificationRow(s).task = t
    BY <1>0, <1>4, GuardedCells DEF SpecificationRow
  <2> QED
    BY <2>1, <2>2 DEF Guards!IsSpecificationOf, Guards!IsKey
<1>5. \A s \in Guards!Keys(Database, "task_specifications") :
        /\ Guards!IsKey(Database, "tasks", Database["task_specifications"][s].task)
        /\ Guards!IsKey(Database, "repositories", Database["task_specifications"][s].repository)
        /\ Guards!IsKey(Database, "agent_configurations", Database["task_specifications"][s].actor)
        /\ Guards!IsKey(Database, "agent_configurations", Database["task_specifications"][s].reviewer)
        /\ Database["task_specifications"][s].version > 0
  <2> SUFFICES ASSUME NEW s \in SpecIds, IsSpec(s)
               PROVE  /\ Guards!IsKey(Database, "tasks", SpecificationRow(s).task)
                      /\ Guards!IsKey(Database, "repositories", SpecificationRow(s).repository)
                      /\ Guards!IsKey(Database, "agent_configurations", SpecificationRow(s).actor)
                      /\ Guards!IsKey(Database, "agent_configurations", SpecificationRow(s).reviewer)
                      /\ SpecificationRow(s).version > 0
    BY <1>0, GuardedCells, GuardedKeys
  <2>1. /\ specs[s].work \in Tasks /\ specs[s].version \in Nat \ {0}
        /\ ActorOf[specs[s].content] \in Configs /\ ReviewerOf[specs[s].content] \in Configs
    BY <1>0, RowTypes, PayloadAssumption, ReviewerAssumption DEF SpecRow
  <2>2. IsTask(specs[s].work)
    BY <1>4, <2>1
  <2>3. Guards!IsKey(Database, "repositories", Repository)
    BY ReferredCells DEF Guards!IsKey
  <2> QED
    BY <1>0, <2>1, <2>2, <2>3, GuardedCells DEF Guards!IsKey, SpecificationRow
<1>6. \A t \in Guards!Keys(Database, "tasks") :
        /\ \/ Database["tasks"][t].current = NoSpec
           \/ /\ Guards!IsSpecificationOf(Database, Database["tasks"][t].current, t)
              /\ Guards!IsKey(Database, "task_specifications", Database["tasks"][t].current)
        /\ Database["tasks"][t].epoch >= 0
  <2> SUFFICES ASSUME NEW t \in Tasks, IsTask(t)
               PROVE  /\ \/ WorkRow(t).current = NoSpec
                         \/ Guards!IsSpecificationOf(Database, WorkRow(t).current, t)
                      /\ WorkRow(t).epoch >= 0
    BY <1>0, GuardedCells, GuardedKeys DEF Guards!IsSpecificationOf
  <2>1. tasks[t].current \in SpecsOf(t) \cup {NoSpec} /\ tasks[t].epoch \in Nat
    BY <1>0, RowTypes DEF PointersSound, TaskRow
  <2> QED
    BY <1>4, <2>1 DEF WorkRow, SpecsOf
<1>7. \A a \in Guards!Keys(Database, "attempts") :
        /\ Guards!IsKey(Database, "tasks", Database["attempts"][a].work)
        /\ Guards!IsKey(Database, "agent_configurations", Database["attempts"][a].config)
        /\ Guards!IsSpecificationOf(Database, Database["attempts"][a].spec,
                                    Database["attempts"][a].work)
        /\ Guards!InputIdentity(Database, a)
        /\ Database["attempts"][a].epoch > 0
        /\ a # Database["attempts"][a].work
  <2> SUFFICES ASSUME NEW a \in AttemptIds, IsAttempt(a)
               PROVE  /\ Guards!IsKey(Database, "tasks", Database["attempts"][a].work)
                      /\ Guards!IsKey(Database, "agent_configurations", Database["attempts"][a].config)
                      /\ Guards!InputIdentity(Database, a)
                      /\ Database["attempts"][a].epoch > 0
                      /\ a # Database["attempts"][a].work
    BY <1>0, GuardedKeys DEF Guards!InputIdentity
  <2>1. /\ attempts[a].work \in Tasks /\ attempts[a].spec \in SpecIds
        /\ attempts[a].config \in Configs /\ attempts[a].epoch \in Nat \ {0}
    BY <1>0, RowTypes DEF AttemptRow
  <2>2. /\ IsSpec(attempts[a].spec) /\ specs[attempts[a].spec].work = attempts[a].work
        /\ attempts[a].config = ActorOf[specs[attempts[a].spec].content]
        /\ attempts[a].input = specs[attempts[a].spec].content
    BY DEF HistoryInv, AttemptOnSatisfiedInput
  <2>3. /\ Guards!IsSpecificationOf(Database, attempts[a].spec, attempts[a].work)
        /\ IsTask(attempts[a].work)
    BY <1>4, <2>1, <2>2
  <2>4. Database["attempts"][a] = ExecutionRow(a)
    BY <1>0, GuardedCells
  <2>5. Database["task_specifications"][attempts[a].spec] = SpecificationRow(attempts[a].spec)
    BY <1>0, <2>1, <2>2, GuardedCells
  <2>6. Guards!InputIdentity(Database, a)
    BY <2>2, <2>3, <2>4, <2>5 DEF Guards!InputIdentity, ExecutionRow, SpecificationRow
  <2>7. /\ Guards!IsKey(Database, "tasks", attempts[a].work)
        /\ Guards!IsKey(Database, "agent_configurations", attempts[a].config)
    BY <1>0, <2>1, <2>3, GuardedCells DEF Guards!IsKey
  <2> QED
    BY <2>1, <2>4, <2>6, <2>7, IdentitiesAssumption DEF ExecutionRow
<1>o. Guards!Owned(Database)
  <2>1. \A t \in Guards!Keys(Database, "tasks") : Database["tasks"][t].project = Project
    <3>1. \A t \in Tasks : WorkRow(t).project = Project
      BY DEF WorkRow
    <3> QED
      BY <1>0, <3>1, GuardedCells, GuardedKeys
  <2>2. \A r \in Guards!Keys(Database, "repositories") :
          Database["repositories"][r].project = Project
    BY ReferredCells, ReferredKeys
  <2>3. \A c \in Guards!Keys(Database, "agent_configurations") :
          Database["agent_configurations"][c].agent \in Configs
    <3>1. \A c \in Configs : ConfigurationRow(c).agent = c
      BY DEF ConfigurationRow
    <3> QED
      BY <1>0, <3>1, GuardedCells, GuardedKeys
  <2>4. /\ Guards!IsKey(Database, "projects", Project)
        /\ \A c \in Configs : Guards!IsKey(Database, "agents", c)
    BY ReferredCells DEF Guards!IsKey
  <2> QED
    BY <1>5, <1>7, <2>1, <2>2, <2>3, <2>4 DEF Guards!Owned, Guards!Owner, Guards!OwnerColumn
<1>8. Guards!Constraints0001(Database)
  BY <1>1, <1>2, <1>5, <1>6, <1>7, <1>o DEF Guards!Constraints0001, Guards!ForeignKeys
<1>9. \A c \in Guards!Keys(Database, "agent_configurations") :
        Database["agent_configurations"][c].version > 0
  <2> SUFFICES ASSUME NEW c \in Configs
               PROVE  ConfigurationRow(c).version > 0
    BY <1>0, GuardedCells, GuardedKeys
  <2> QED
    BY DEF ConfigurationRow
<1> QED
  BY <1>3, <1>5, <1>6, <1>7, <1>8, <1>9
     DEF ServiceMeetsConstraints, Guards!Accepted, Guards!Constraints0002, Guards!EpochsUnique

\* Of two accepted databases, the later one with the earlier tasks is accepted
\* too, if the later specifications keep the earlier ones and are of earlier tasks.
LEMMA HalfwayAccepted ==
    ASSUME NEW d, NEW e, NEW h, Guards!Accepted(d), Guards!Accepted(e),
           h["tasks"] = d["tasks"],
           \A T \in Guards!Tables : T # "tasks" => h[T] = e[T],
           h["projects"] = d["projects"],
           \A s \in SpecIds : d["task_specifications"][s] # NoRow
                => e["task_specifications"][s] = d["task_specifications"][s],
           \A s \in SpecIds : e["task_specifications"][s] # NoRow
                => Guards!IsKey(d, "tasks", e["task_specifications"][s].task)
    PROVE  Guards!Accepted(h)
<1> USE GuardedTables
<1>1. /\ h["agent_configurations"] = e["agent_configurations"]
      /\ h["task_specifications"] = e["task_specifications"] /\ h["attempts"] = e["attempts"]
      /\ h["repositories"] = e["repositories"]
  OBVIOUS
<1>2. /\ \A T \in Guards!Tables : T # "tasks" => Guards!Keys(h, T) = Guards!Keys(e, T)
      /\ \A T \in Guards!Tables : \A k :
            T # "tasks" => Guards!IsKey(h, T, k) = Guards!IsKey(e, T, k)
      /\ Guards!Keys(h, "tasks") = Guards!Keys(d, "tasks")
      /\ \A k : Guards!IsKey(h, "tasks", k) = Guards!IsKey(d, "tasks", k)
  BY DEF Guards!Keys, Guards!IsKey
<1>3. \A T \in Guards!Tables : T # "tasks" => Guards!Unique(h, T) = Guards!Unique(e, T)
  BY <1>2 DEF Guards!Unique, Guards!SameKey
<1>4. \A s, t : Guards!IsSpecificationOf(h, s, t) = Guards!IsSpecificationOf(e, s, t)
  BY <1>1, <1>2 DEF Guards!IsSpecificationOf
<1>5. \A s, t : Guards!IsSpecificationOf(d, s, t) => Guards!IsSpecificationOf(h, s, t)
  BY <1>4 DEF Guards!IsSpecificationOf, Guards!IsKey
<1>6. \A a : Guards!InputIdentity(h, a) = Guards!InputIdentity(e, a)
  BY <1>1, <1>4 DEF Guards!InputIdentity
<1>7. /\ Guards!Constraints0001(d) /\ Guards!Constraints0002(d)
      /\ Guards!Constraints0001(e) /\ Guards!Constraints0002(e)
  BY DEF Guards!Accepted
<1>8. \A s \in Guards!Keys(h, "task_specifications") :
        Guards!IsKey(h, "tasks", h["task_specifications"][s].task)
  BY <1>1, <1>2 DEF Guards!Keys
<1>9. \A t \in Guards!Keys(h, "tasks") :
        h["tasks"][t].current = NoSpec \/ Guards!IsSpecificationOf(h, h["tasks"][t].current, t)
  BY <1>2, <1>5, <1>7 DEF Guards!Constraints0002
<1>10. \A a \in Guards!Keys(h, "attempts") :
        /\ Guards!IsSpecificationOf(h, h["attempts"][a].spec, h["attempts"][a].work)
        /\ Guards!IsKey(h, "tasks", h["attempts"][a].work)
  <2> SUFFICES ASSUME NEW a \in Guards!Keys(h, "attempts")
               PROVE  /\ Guards!IsSpecificationOf(h, h["attempts"][a].spec, h["attempts"][a].work)
                      /\ Guards!IsKey(h, "tasks", h["attempts"][a].work)
    OBVIOUS
  <2>1. Guards!IsSpecificationOf(h, h["attempts"][a].spec, h["attempts"][a].work)
    BY <1>1, <1>2, <1>4, <1>7 DEF Guards!Constraints0001, Guards!ForeignKeys
  <2> QED
    BY <1>8, <2>1 DEF Guards!IsSpecificationOf, Guards!IsKey, Guards!Keys
<1>13. Guards!Owned(h)
  <2>1. /\ \A c \in Guards!Keys(h, "agent_configurations") :
             Guards!IsKey(h, "agents", h["agent_configurations"][c].agent)
        /\ \A r \in Guards!Keys(h, "repositories") :
             Guards!IsKey(h, "projects", h["repositories"][r].project)
    BY <1>1, <1>2, <1>7
       DEF Guards!Constraints0001, Guards!ForeignKeys, Guards!Owned, Guards!Owner, Guards!OwnerColumn
  <2>2. \A t \in Guards!Keys(h, "tasks") : Guards!IsKey(h, "projects", h["tasks"][t].project)
    <3>1. \A t \in Guards!Keys(d, "tasks") : Guards!IsKey(d, "projects", d["tasks"][t].project)
      BY <1>7
         DEF Guards!Constraints0001, Guards!ForeignKeys, Guards!Owned, Guards!Owner, Guards!OwnerColumn
    <3>2. \A k : Guards!IsKey(h, "projects", k) = Guards!IsKey(d, "projects", k)
      BY DEF Guards!IsKey
    <3> QED
      BY <1>2, <3>1, <3>2
  <2> QED
    BY <1>8, <1>10, <2>1, <2>2 DEF Guards!Owned, Guards!Owner, Guards!OwnerColumn
<1>14. Guards!ForeignKeys(h)
  BY <1>1, <1>2, <1>7, <1>9, <1>10, <1>13
     DEF Guards!Constraints0001, Guards!ForeignKeys, Guards!IsSpecificationOf
<1>15. Guards!Unique(h, "tasks")
  BY DEF Guards!Unique, Guards!SameKey, Guards!UniqueKey
<1>11. Guards!Constraints0001(h)
  BY <1>3, <1>7, <1>14, <1>15 DEF Guards!Constraints0001
<1>12. Guards!Constraints0002(h)
  BY <1>1, <1>2, <1>3, <1>6, <1>7, <1>9 DEF Guards!Constraints0002, Guards!EpochsUnique
<1> QED
  BY <1>11, <1>12 DEF Guards!Accepted

\* An attempt that exists stays as it is; nothing in the service reports on one.
LEMMA AttemptsStay ==
    ASSUME Inv, [Next]_vars, NEW a \in AttemptIds, IsAttempt(a)
    PROVE  attempts'[a] = attempts[a]
<1>1. ASSUME NEW r \in Requests, CommitAttempt(r)
      PROVE  attempts'[a] = attempts[a]
  BY <1>1, AttemptInserted DEF Inv
<1>2. ASSUME NEW r \in Requests, CommitSpecification(r)
      PROVE  attempts'[a] = attempts[a]
  BY <1>2 DEF CommitSpecification
<1> QED
  BY <1>1, <1>2, StepKinds DEF Quiet, CreateTask, PersistReadiness

\* A specification is inserted for a task that is there before.
LEMMA SpecificationsOwned ==
    ASSUME HistoryInv, [Next]_vars, NEW s \in SpecIds, specs'[s] # NoRow
    PROVE  specs'[s].work \in Tasks /\ IsTask(specs'[s].work)
<1>1. CASE IsSpec(s)
  BY <1>1, SpecsStay, RowTypes DEF HistoryInv, Inv, SpecsHaveTasks, SpecsOf, SpecRow
<1>2. CASE ~IsSpec(s)
  <2>1. PICK r \in Requests : CommitSpecification(r)
    BY <1>2, StepKinds DEF HistoryInv, IsSpec, Quiet, CreateTask, PersistReadiness, CommitAttempt
  <2>0. TypeOK /\ SessionsSound
    BY DEF HistoryInv, Inv
  <2>2. PICK t \in Tasks, id \in SpecIds, n \in VersionsOf(req[r].work) \cup {0}, c \in Contents :
          /\ IsTask(t) /\ specs'[id] = [work |-> t, version |-> n + 1, content |-> c]
          /\ \A x \in SpecIds : x # id => specs'[x] = specs[x]
    BY <2>0, <2>1, SpecificationInserted
  <2> QED
    BY <1>2, <2>2 DEF IsSpec
<1> QED
  BY <1>1, <1>2

\* A step leaves the rows of the guarded tables that are there.
LEMMA GuardedRowsStay ==
    ASSUME HistoryInv, TypeOK', [Next]_vars
    PROVE  /\ Database'["projects"] = Database["projects"]
           /\ Database'["agent_configurations"] = Database["agent_configurations"]
           /\ \A s \in SpecIds : Database["task_specifications"][s] # NoRow
                => Database'["task_specifications"][s] = Database["task_specifications"][s]
           /\ \A a \in AttemptIds : Database["attempts"][a] # NoRow
                => Database'["attempts"][a] = Database["attempts"][a]
<1>1. \A s \in SpecIds : IsSpec(s) => specs'[s] = specs[s]
  BY SpecsStay DEF HistoryInv
<1>2. \A a \in AttemptIds : IsAttempt(a) => attempts'[a] = attempts[a]
  BY AttemptsStay DEF HistoryInv
<1>3. /\ Database'["projects"] = Database["projects"]
      /\ Database'["agent_configurations"] = Database["agent_configurations"]
  BY DEF Database, ConfigurationRow
<1>4. ASSUME NEW s \in SpecIds, IsSpec(s)
      PROVE  Database'["task_specifications"][s] = Database["task_specifications"][s]
  BY <1>1, <1>4 DEF Database, IsSpec, SpecificationRow
<1>5. ASSUME NEW a \in AttemptIds, IsAttempt(a)
      PROVE  Database'["attempts"][a] = Database["attempts"][a]
  BY <1>2, <1>5 DEF Database, IsAttempt, ExecutionRow
<1> QED
  BY <1>3, <1>4, <1>5, GuardedCells DEF HistoryInv, Inv

\* Every commit, as a whole and after its first statement, is accepted by the
\* constraints, and no statement meets a trigger: for any number of racing
\* requests, revision 0002 turns no request into an error but those that lose
\* a race for a version or an epoch, which the service answers.
THEOREM ServiceWithinGuards ==
    Spec => /\ []ServiceMeetsConstraints
            /\ ServiceMeetsConstraintsHalfway
            /\ ServiceFiresNoTrigger
<1> DEFINE Halfway == Guards!Accepted([Database' EXCEPT !["tasks"] = Database["tasks"]])
           Kept == \A T \in Guards!IMMUTABLE_TABLES \cup {"attempts"} :
                        \A k \in Guards!Keys(Database, T) : Database'[T][k] = Database[T][k]
<1>1. ASSUME HistoryInv, HistoryInv', ServiceMeetsConstraints, ServiceMeetsConstraints', [Next]_vars
      PROVE  Halfway /\ Kept /\ Guards!RecordsKept
  <2>0. TypeOK /\ TypeOK'
    BY <1>1 DEF HistoryInv, Inv
  <2>1. Kept
    BY <1>1, <2>0, GuardedRowsStay, GuardedTables DEF Guards!IMMUTABLE_TABLES, Guards!Keys
  <2>2. Halfway
    <3>1. PICK d : d = Database
      OBVIOUS
    <3>2. PICK e : e = Database'
      OBVIOUS
    <3>3. PICK h : h = [e EXCEPT !["tasks"] = d["tasks"]]
      OBVIOUS
    <3>4. Guards!Accepted(d) /\ Guards!Accepted(e)
      BY <1>1, <3>1, <3>2 DEF ServiceMeetsConstraints
    <3>5. DOMAIN e = Guards!Tables
      BY <3>2, GuardedTables DEF Database
    <3>6. h["tasks"] = d["tasks"] /\ \A T \in Guards!Tables : T # "tasks" => h[T] = e[T]
      BY <3>3, <3>5, GuardedTables
    <3>7. \A s \in SpecIds : d["task_specifications"][s] # NoRow
                => e["task_specifications"][s] = d["task_specifications"][s]
      BY <1>1, <2>0, <3>1, <3>2, GuardedRowsStay
    <3>8. ASSUME NEW s \in SpecIds, e["task_specifications"][s] # NoRow
          PROVE  Guards!IsKey(d, "tasks", e["task_specifications"][s].task)
      <4>1. e["task_specifications"][s] = IF specs'[s] # NoRow THEN SpecificationRow(s)' ELSE NoRow
        BY <3>2 DEF Database, IsSpec
      <4>2. specs'[s] # NoRow /\ e["task_specifications"][s].task = specs'[s].work
        BY <3>8, <4>1 DEF SpecificationRow
      <4>3. specs'[s].work \in Tasks /\ IsTask(specs'[s].work)
        BY <1>1, <4>2, SpecificationsOwned
      <4> QED
        BY <2>0, <3>1, <4>2, <4>3, GuardedCells, GuardedTables DEF Guards!IsKey
    <3>10. h["projects"] = d["projects"]
      BY <1>1, <2>0, <3>1, <3>2, <3>6, GuardedRowsStay, GuardedTables
    <3>9. Guards!Accepted(h)
      BY <3>4, <3>6, <3>7, <3>8, <3>10, HalfwayAccepted
    <3> QED
      BY <3>1, <3>2, <3>3, <3>9
  <2>3. Guards!RecordsKept
    <3> SUFFICES ASSUME NEW a \in Guards!Keys(Database, "attempts")
                 PROVE  /\ a \in Guards!Keys(Database', "attempts")
                        /\ Guards!ExecutionRecord(Database', a) = Guards!ExecutionRecord(Database, a)
      BY DEF Guards!RecordsKept
    <3>1. /\ a \in AttemptIds /\ Database["attempts"][a] # NoRow
          /\ Database'["attempts"][a] = Database["attempts"][a]
      BY <1>1, <2>0, GuardedRowsStay, GuardedTables DEF Guards!Keys
    <3>2. /\ Guards!IsKey(Database, "task_specifications", Database["attempts"][a].spec)
          /\ Guards!IsKey(Database, "agent_configurations", Database["attempts"][a].config)
      BY <1>1 DEF ServiceMeetsConstraints, Guards!Accepted, Guards!Constraints0001,
                  Guards!ForeignKeys, Guards!IsSpecificationOf
    <3>3. Database'["task_specifications"][Database["attempts"][a].spec]
            = Database["task_specifications"][Database["attempts"][a].spec]
      BY <1>1, <2>0, <3>2, GuardedRowsStay, GuardedTables DEF Guards!IsKey
    <3>4. a \in Guards!Keys(Database', "attempts")
      BY <3>1, GuardedTables DEF Guards!Keys
    <3> QED
      BY <1>1, <2>0, <3>1, <3>3, <3>4, GuardedRowsStay DEF Guards!ExecutionRecord
  <2> QED
    BY <2>1, <2>2, <2>3
<1>2. HistoryInv /\ HistoryInv' /\ ServiceMeetsConstraints /\ ServiceMeetsConstraints' /\ [Next]_vars
        => [Halfway]_vars /\ [Kept]_vars /\ [Guards!RecordsKept]_(Guards!vars)
  BY <1>1
<1>3. Spec => []HistoryInv /\ []ServiceMeetsConstraints
  BY HistoryMeetsConstraints, HistoryInvHolds, PTL
<1>4. Spec => ServiceMeetsConstraintsHalfway
  BY <1>2, <1>3, PTL DEF Spec, ServiceMeetsConstraintsHalfway
<1>5. Spec => [][Kept]_vars
  BY <1>2, <1>3, PTL DEF Spec
<1>6. Spec => Guards!ExecutionRecordStable
  BY <1>2, <1>3, PTL DEF Spec, Guards!ExecutionRecordStable
<1> QED
  BY <1>3, <1>4, <1>5, <1>6 DEF ServiceFiresNoTrigger

=============================================================================
