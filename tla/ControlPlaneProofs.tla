------------------------- MODULE ControlPlaneProofs -------------------------
(***************************************************************************)
(* Theorems about ControlPlane, for any sets of tasks, rows, payloads and  *)
(* requests: type correctness, the epoch fence and the soundness of the    *)
(* copies that sessions hold.  The three are proved together, as one       *)
(* inductive invariant Inv; each part has a lemma per action.  The inputs  *)
(* of attempts and the versions of tasks are proved on top of it.          *)
(***************************************************************************)
EXTENDS ControlPlane, TLAPS

\* The value of a busy slot is a request of the kind its op says.
LEMMA RequestKinds ==
    ASSUME TypeOK, NEW r \in Requests, InFlight(r)
    PROVE  /\ req[r] \in Request
           /\ req[r].op = "specification" => req[r] \in SpecificationRequest
           /\ req[r].op = "readiness" => req[r] \in ReadinessRequest
           /\ req[r].op = "start" => req[r] \in StartRequest
           /\ req[r].work \in Tasks
           /\ req[r].task \in TaskRow
<1>1. req[r] \in Request
  BY DEF TypeOK, InFlight
<1>2. QED
  BY <1>1 DEF Request, SpecificationRequest, ReadinessRequest, StartRequest

\* The rows of the tables have their types.
LEMMA RowTypes ==
    ASSUME TypeOK
    PROVE  /\ \A t \in Tasks : IsTask(t) => tasks[t] \in TaskRow
           /\ \A s \in SpecIds : IsSpec(s) => specs[s] \in SpecRow
           /\ \A a \in AttemptIds : IsAttempt(a) => attempts[a] \in AttemptRow
BY DEF TypeOK, IsTask, IsSpec, IsAttempt

\* None of the records the actions write is the missing row.
LEMMA NotNoRow ==
    \A x : x \in TaskRow \cup SpecRow \cup AttemptRow \cup Request => x # NoRow
BY NoRowAssumption

-----------------------------------------------------------------------------
(* Type correctness needs SessionsSound: the commits write into the row of *)
(* the request's task, which therefore has to exist, and an attempt copies *)
(* from the row of the specification its session pointed at.  EpochFence   *)
(* needs it too: a stale copy whose epoch is not taken must be up to date, *)
(* or the increment would set the counter back.                            *)

Inv == TypeOK /\ SessionsSound /\ EpochFence

\* No table has a row and no request is in flight at first.
LEMMA InitInv == Init => Inv
BY DEF Init, Inv, TypeOK, EpochFence, SessionsSound, PointersSound, SessionSound,
       IdentitiesDistinct, IsTask, InFlight, AttemptsOf, IsAttempt

\* A slot that becomes idle, the tables unchanged.
LEMMA RollbackType ==
    ASSUME TypeOK, NEW r \in Requests, Rollback(r)
    PROVE  TypeOK'
BY DEF Rollback, Finish, TypeOK

\* A new task row has its type.
LEMMA CreateTaskType ==
    ASSUME TypeOK, NEW t \in Tasks, CreateTask(t)
    PROVE  TypeOK'
<1>1. [status |-> "draft", epoch |-> 0, current |-> NoSpec] \in TaskRow
  BY DEF TaskRow, TaskStatus
<1>2. Event("task.created", t, t) \in
        [type : EventType, work : Tasks,
         subject : Tasks \cup SpecIds \cup AttemptIds
                    \cup {"readiness.satisfied", "readiness.unsatisfied"}]
  BY DEF Event, EventType
<1>3. QED
  BY <1>1, <1>2 DEF CreateTask, TypeOK

\* The session of a new request takes a copy of the type of a task row.
LEMMA BeginType ==
    ASSUME TypeOK, NEW r \in Requests, Begin(r)
    PROVE  TypeOK'
<1>1. ASSUME NEW t \in Tasks, NEW s \in SpecIds, NEW c \in Contents, BeginSpecification(r, t, s, c)
      PROVE  TypeOK'
  <2> DEFINE q == [op |-> "specification", pc |-> "loaded", work |-> t,
                   task |-> tasks[t], id |-> s, content |-> c, latest |-> 0]
  <2>1. IsTask(t) /\ Load(r, q)
    BY <1>1 DEF BeginSpecification, Load
  <2>2. tasks[t] \in TaskRow
    BY <2>1, RowTypes
  <2>3. q \in Request
    BY <2>2 DEF Request, SpecificationRequest
  <2>4. QED
    BY <2>1, <2>3 DEF Load, TypeOK
<1>2. ASSUME NEW t \in Tasks, BeginReadiness(r, t)
      PROVE  TypeOK'
  <2> DEFINE q == [op |-> "readiness", pc |-> "loaded", work |-> t, task |-> tasks[t]]
  <2>1. IsTask(t) /\ Load(r, q)
    BY <1>2 DEF BeginReadiness, Load
  <2>2. tasks[t] \in TaskRow
    BY <2>1, RowTypes
  <2>3. q \in Request
    BY <2>2 DEF Request, ReadinessRequest
  <2>4. QED
    BY <2>1, <2>3 DEF Load, TypeOK
<1>3. ASSUME NEW t \in Tasks, NEW a \in AttemptIds, BeginStart(r, t, a)
      PROVE  TypeOK'
  <2> DEFINE q == [op |-> "start", pc |-> "loaded", work |-> t, task |-> tasks[t], id |-> a]
  <2>1. IsTask(t) /\ Load(r, q)
    BY <1>3 DEF BeginStart, Load
  <2>2. tasks[t] \in TaskRow
    BY <2>1, RowTypes
  <2>3. q \in Request
    BY <2>2 DEF Request, StartRequest
  <2>4. QED
    BY <2>1, <2>3 DEF Load, TypeOK
<1>4. QED
  BY <1>1, <1>2, <1>3 DEF Begin

\* max(version) is a number.
LEMMA ReadLatestVersionType ==
    ASSUME TypeOK, NEW r \in Requests, ReadLatestVersion(r)
    PROVE  TypeOK'
<1>1. InFlight(r) /\ req[r].op = "specification"
  BY DEF ReadLatestVersion, At
<1>2. req[r] \in SpecificationRequest
  BY <1>1, RequestKinds
<1>3. PICK n \in VersionsOf(req[r].work) \cup {0} :
        req' = [req EXCEPT ![r].pc = "numbered", ![r].latest = n]
  BY DEF ReadLatestVersion
<1>4. n \in Nat
  BY RowTypes DEF VersionsOf, SpecsOf, SpecRow
<1>5. [req[r] EXCEPT !.pc = "numbered", !.latest = n] \in SpecificationRequest
  BY <1>2, <1>4 DEF SpecificationRequest
<1>6. req' = [req EXCEPT ![r] = [req[r] EXCEPT !.pc = "numbered", !.latest = n]]
  BY <1>3 DEF TypeOK
<1>7. QED
  BY <1>5, <1>6 DEF ReadLatestVersion, TypeOK, Request

\* The version inserted is at least 1 and the pointer a row's identity.
LEMMA CommitSpecificationType ==
    ASSUME TypeOK, SessionsSound, NEW r \in Requests, CommitSpecification(r)
    PROVE  TypeOK'
<1> DEFINE q == req[r]
           t == req[r].work
           row == [work |-> t, version |-> q.latest + 1, content |-> q.content]
           status == Saved(tasks[t].status, q.task.status, AfterSpecification(q.task.status))
<1>1. InFlight(r) /\ q.op = "specification"
  BY DEF CommitSpecification, At
<1>2. q \in SpecificationRequest /\ t \in Tasks /\ q.task \in TaskRow
  BY <1>1, RequestKinds
<1>3. q.id \in SpecIds /\ row \in SpecRow
  BY <1>2 DEF SpecificationRequest, SpecRow
<1>4. tasks[t] \in TaskRow
  BY <1>1, <1>2, RowTypes DEF SessionsSound, SessionSound
<1>5. status \in TaskStatus
  BY <1>2, <1>4 DEF Saved, AfterSpecification, TaskRow, TaskStatus
<1>6. /\ specs' = [specs EXCEPT ![q.id] = row]
      /\ tasks' = [tasks EXCEPT ![t] =
                    [status |-> status, epoch |-> tasks[t].epoch, current |-> q.id]]
      /\ events' = events \cup {Event("task.specification.created", t, q.id)}
      /\ req' = [req EXCEPT ![r] = NoRow]
      /\ attempts' = attempts
  BY DEF CommitSpecification, Finish
<1>7. tasks' \in [Tasks -> TaskRow \cup {NoRow}]
  <2>1. [status |-> status, epoch |-> tasks[t].epoch, current |-> q.id] \in TaskRow
    BY <1>3, <1>4, <1>5 DEF TaskRow
  <2>2. QED
    BY <1>6, <2>1 DEF TypeOK
<1>8. Event("task.specification.created", t, q.id) \in
        [type : EventType, work : Tasks,
         subject : Tasks \cup SpecIds \cup AttemptIds
                    \cup {"readiness.satisfied", "readiness.unsatisfied"}]
  BY <1>2, <1>3 DEF Event, EventType
<1>9. QED
  BY <1>3, <1>6, <1>7, <1>8 DEF TypeOK

\* The part of an evaluation that touches the tables.
LEMMA PersistReadinessType ==
    ASSUME TypeOK, SessionsSound, NEW r \in Requests, InFlight(r), PersistReadiness(r)
    PROVE  /\ tasks' \in [Tasks -> TaskRow \cup {NoRow}]
           /\ events' \subseteq
                [type : EventType, work : Tasks,
                 subject : Tasks \cup SpecIds \cup AttemptIds
                            \cup {"readiness.satisfied", "readiness.unsatisfied"}]
<1> DEFINE q == req[r]
           t == req[r].work
           status == AfterReadiness(q.task.status, q.task.current)
<1>1. t \in Tasks /\ q.task \in TaskRow
  BY RequestKinds
<1>2. CASE UNCHANGED <<tasks, events>>
  BY <1>2 DEF TypeOK
<1>3. CASE status # q.task.status
  <2> DEFINE reason == IF status = "ready" THEN "readiness.satisfied"
                                           ELSE "readiness.unsatisfied"
             new == [status |-> status, epoch |-> tasks[t].epoch, current |-> tasks[t].current]
  <2>1. tasks[t] \in TaskRow
    BY <1>1, RowTypes DEF SessionsSound, SessionSound
  <2>2. status \in TaskStatus
    BY <1>1 DEF AfterReadiness, TaskRow, TaskStatus
  <2>3. new \in TaskRow
    BY <2>1, <2>2 DEF TaskRow
  <2>4. tasks' = [tasks EXCEPT ![t].status = status]
    BY <1>3 DEF PersistReadiness
  <2>5. tasks' = [tasks EXCEPT ![t] = new]
    <3> HIDE DEF status
    <3>1. [tasks[t] EXCEPT !.status = status] = new
      BY <2>1 DEF TaskRow
    <3>2. tasks' = [tasks EXCEPT ![t] = [tasks[t] EXCEPT !.status = status]]
      BY <1>1, <2>4 DEF TypeOK
    <3>3. QED
      BY <3>1, <3>2
  <2>6. events' = events \cup {Event("task.readiness.changed", t, reason)}
    BY <1>3 DEF PersistReadiness
  <2>7. Event("task.readiness.changed", t, reason) \in
            [type : EventType, work : Tasks,
             subject : Tasks \cup SpecIds \cup AttemptIds
                        \cup {"readiness.satisfied", "readiness.unsatisfied"}]
    BY <1>1 DEF Event, EventType
  <2>8. QED
    BY <2>3, <2>5, <2>6, <2>7 DEF TypeOK
<1>4. QED
  BY <1>2, <1>3 DEF PersistReadiness

\* A readiness request ends after its write.
LEMMA AnswerReadinessType ==
    ASSUME TypeOK, SessionsSound, NEW r \in Requests, AnswerReadiness(r)
    PROVE  TypeOK'
<1>1. InFlight(r) /\ PersistReadiness(r)
  BY DEF AnswerReadiness, At
<1>2. QED
  BY <1>1, PersistReadinessType DEF AnswerReadiness, PersistReadiness, Finish, TypeOK

\* The session's copy after an evaluation is still of the type of a task row.
LEMMA EvaluatedType ==
    ASSUME NEW task \in TaskRow
    PROVE  /\ Evaluated(task) \in TaskRow
           /\ Evaluated(task).epoch = task.epoch
           /\ Evaluated(task).current = task.current
<1> DEFINE status == AfterReadiness(task.status, task.current)
<1>1. status \in TaskStatus
  BY DEF AfterReadiness, TaskRow, TaskStatus
<1>2. Evaluated(task) = [status |-> status, epoch |-> task.epoch, current |-> task.current]
  <2> HIDE DEF status
  <2>1. Evaluated(task) = [task EXCEPT !.status = status]
    BY DEF Evaluated, status
  <2>2. QED
    BY <2>1 DEF TaskRow
<1>3. QED
  BY <1>1, <1>2 DEF TaskRow

\* A start that passes the gate goes on with its evaluated copy.
LEMMA GateStartType ==
    ASSUME TypeOK, SessionsSound, NEW r \in Requests, GateStart(r)
    PROVE  TypeOK'
<1>1. InFlight(r) /\ PersistReadiness(r) /\ req[r].op = "start"
  BY DEF GateStart, At
<1>2. req[r] \in StartRequest
  BY <1>1, RequestKinds
<1>3. req' \in [Requests -> Request \cup {NoRow}]
  <2>1. CASE Finish(r)
    BY <2>1 DEF Finish, TypeOK
  <2>2. CASE ~Finish(r)
    <3> DEFINE new == [op |-> "start", pc |-> "gated", work |-> req[r].work,
                       task |-> Evaluated(req[r].task), id |-> req[r].id]
    <3>1. Evaluated(req[r].task) \in TaskRow
      BY <1>1, RequestKinds, EvaluatedType
    <3>2. new \in StartRequest
      BY <1>2, <3>1 DEF StartRequest
    <3>3. req' = [req EXCEPT ![r] = new]
      BY <2>2 DEF GateStart
    <3>4. QED
      BY <3>2, <3>3 DEF TypeOK, Request
  <2>3. QED
    BY <2>1, <2>2 DEF GateStart
<1>4. QED
  BY <1>1, <1>3, PersistReadinessType DEF PersistReadiness, TypeOK

\* Admission changes nothing but the request's pc.
LEMMA AdmitStartType ==
    ASSUME TypeOK, NEW r \in Requests, AdmitStart(r)
    PROVE  TypeOK'
<1>1. InFlight(r) /\ req[r].op = "start"
  BY DEF AdmitStart, At
<1>2. req[r] \in StartRequest
  BY <1>1, RequestKinds
<1>3. [req[r] EXCEPT !.pc = "admitted"] \in Request
  BY <1>2 DEF StartRequest, Request
<1>4. QED
  BY <1>3 DEF AdmitStart, Advance, TypeOK

\* The specification an attempt copies from, once the gate has passed.
LEMMA InputRow ==
    ASSUME TypeOK, SessionsSound, NEW r \in Requests, InFlight(r),
           req[r].op = "start", req[r].pc # "loaded"
    PROVE  /\ Input(req[r]) \in SpecsOf(req[r].work)
           /\ specs[Input(req[r])] \in SpecRow
           /\ specs[Input(req[r])].content \in Satisfied
           /\ specs[Input(req[r])].content \in Contents
           /\ ConfigOf(req[r]) \in Configs
<1>1. IsReady(req[r].task.current) /\ req[r].task.current \in SpecsOf(req[r].work) \cup {NoSpec}
  BY DEF SessionsSound, SessionSound
<1>2. Input(req[r]) \in SpecsOf(req[r].work) /\ specs[Input(req[r])].content \in Satisfied
  BY <1>1 DEF IsReady, Input
<1>3. specs[Input(req[r])] \in SpecRow
  BY <1>2, RowTypes DEF SpecsOf
<1>4. QED
  BY <1>2, <1>3, PayloadAssumption DEF ConfigOf, SpecRow

\* The attempt inserted copies from a specification row that exists.
LEMMA CommitAttemptType ==
    ASSUME TypeOK, SessionsSound, NEW r \in Requests, CommitAttempt(r)
    PROVE  TypeOK'
<1> DEFINE q == req[r]
           t == req[r].work
           epoch == q.task.epoch + 1
           row == [work |-> t, spec |-> Input(q), config |-> ConfigOf(q),
                   input |-> specs[Input(q)].content, epoch |-> epoch,
                   status |-> StartTransition.attempt]
           status == Saved(tasks[t].status, q.task.status, StartTransition.task)
<1>1. InFlight(r) /\ q.op = "start" /\ q.pc = "admitted"
  BY DEF CommitAttempt, At
<1>2. q \in StartRequest /\ t \in Tasks /\ q.task \in TaskRow
  BY <1>1, RequestKinds
<1>3. q.id \in AttemptIds /\ epoch \in Nat \ {0}
  BY <1>2 DEF StartRequest, TaskRow
<1>4. row \in AttemptRow
  <2>1. StartTransition.attempt \in AttemptStatus
    BY DEF StartTransition, AttemptStatus
  <2>2. Input(q) \in SpecIds /\ ConfigOf(q) \in Configs /\ specs[Input(q)].content \in Contents
    BY <1>1, InputRow DEF SpecsOf
  <2>3. QED
    BY <1>2, <1>3, <2>1, <2>2 DEF AttemptRow
<1>5. [status |-> status, epoch |-> epoch, current |-> tasks[t].current] \in TaskRow
  <2>1. tasks[t] \in TaskRow
    BY <1>1, <1>2, RowTypes DEF SessionsSound, SessionSound
  <2>2. status \in TaskStatus
    BY <2>1 DEF Saved, StartTransition, TaskRow, TaskStatus
  <2>3. QED
    BY <1>3, <2>1, <2>2 DEF TaskRow
<1>6. Event("attempt.started", t, q.id) \in
        [type : EventType, work : Tasks,
         subject : Tasks \cup SpecIds \cup AttemptIds
                    \cup {"readiness.satisfied", "readiness.unsatisfied"}]
  BY <1>2, <1>3 DEF Event, EventType
<1>7. /\ attempts' = [attempts EXCEPT ![q.id] = row]
      /\ tasks' = [tasks EXCEPT ![t] =
                    [status |-> status, epoch |-> epoch, current |-> tasks[t].current]]
      /\ events' = events \cup {Event("attempt.started", t, q.id)}
      /\ req' = [req EXCEPT ![r] = NoRow]
      /\ specs' = specs
  BY DEF CommitAttempt, Finish
<1> HIDE DEF row, status, epoch
<1>8. QED
  BY <1>4, <1>5, <1>6, <1>7 DEF TypeOK

\* Every step keeps the types.
LEMMA TypeStep == Inv /\ [Next]_vars => TypeOK'
<1> SUFFICES ASSUME TypeOK, SessionsSound, [Next]_vars
             PROVE  TypeOK'
  BY DEF Inv
<1>1. CASE UNCHANGED vars
  BY <1>1 DEF vars, TypeOK
<1>2. ASSUME NEW t \in Tasks, CreateTask(t)
      PROVE  TypeOK'
  BY <1>2, CreateTaskType
<1>3. ASSUME NEW r \in Requests, Begin(r) \/ Proceed(r) \/ Abort(r)
      PROVE  TypeOK'
  <2>1. CASE Begin(r)
    BY <2>1, BeginType
  <2>2. CASE Rollback(r)
    BY <2>2, RollbackType
  <2>3. CASE ReadLatestVersion(r)
    BY <2>3, ReadLatestVersionType
  <2>4. CASE CommitSpecification(r)
    BY <2>4, CommitSpecificationType
  <2>5. CASE AnswerReadiness(r)
    BY <2>5, AnswerReadinessType
  <2>6. CASE GateStart(r)
    BY <2>6, GateStartType
  <2>7. CASE AdmitStart(r)
    BY <2>7, AdmitStartType
  <2>8. CASE CommitAttempt(r)
    BY <2>8, CommitAttemptType
  <2>9. QED
    BY <1>3, <2>1, <2>2, <2>3, <2>4, <2>5, <2>6, <2>7, <2>8
       DEF Proceed, Abort, RejectReferences, ConflictSpecification, RefuseStart, ConflictAttempt
<1>4. QED
  BY <1>1, <1>2, <1>3 DEF Next

-----------------------------------------------------------------------------
(* Epoch fencing.  A start may write only when its epoch is free; with the *)
(* epochs of the task's attempts being 1 .. ownership_epoch this makes its *)
(* copy of the epoch the committed one, so the UPDATE never takes the      *)
(* counter back.                                                           *)

\* A start whose epoch is free works on the committed epoch.
LEMMA FreshCopy ==
    ASSUME TypeOK, SessionsSound, EpochFence, NEW r \in Requests, CommitAttempt(r)
    PROVE  req[r].task.epoch = tasks[req[r].work].epoch
<1> DEFINE t == req[r].work
           e == req[r].task.epoch
<1>1. InFlight(r) /\ req[r].op = "start" /\ ~EpochTaken(t, e + 1)
  BY DEF CommitAttempt, At
<1>2. t \in Tasks /\ req[r].task \in TaskRow
  BY <1>1, RequestKinds
<1>3. IsTask(t) /\ e <= tasks[t].epoch
  BY <1>1 DEF SessionsSound, SessionSound
<1>4. tasks[t].epoch \in Nat /\ e \in Nat
  BY <1>2, <1>3, RowTypes DEF TaskRow
<1>5. {attempts[a].epoch : a \in AttemptsOf(t)} = 1 .. tasks[t].epoch
  BY <1>2, <1>3 DEF EpochFence
<1>6. e + 1 \notin 1 .. tasks[t].epoch
  BY <1>1, <1>5 DEF EpochTaken
<1>7. QED
  BY <1>3, <1>4, <1>6

\* What a committed start writes into the row of its task.
LEMMA CommitAttemptTask ==
    ASSUME TypeOK, SessionsSound, EpochFence, NEW r \in Requests, CommitAttempt(r),
           NEW t \in Tasks, t = req[r].work
    PROVE  /\ \A u \in Tasks : u # t => tasks'[u] = tasks[u]
           /\ tasks'[t].epoch = tasks[t].epoch + 1
           /\ tasks'[t].current = tasks[t].current
           /\ tasks'[t] # NoRow
<1>1. InFlight(r)
  BY DEF CommitAttempt, At
<1>2. IsTask(t) /\ tasks[t] \in TaskRow /\ req[r].task.epoch = tasks[t].epoch
  BY <1>1, FreshCopy, RowTypes DEF SessionsSound, SessionSound
<1>3. PICK status : tasks' = [tasks EXCEPT ![t] =
        [status |-> status, epoch |-> tasks[t].epoch + 1, current |-> tasks[t].current]]
  BY <1>2 DEF CommitAttempt
<1>4. /\ \A u \in Tasks : u # t => tasks'[u] = tasks[u]
      /\ tasks'[t].epoch = tasks[t].epoch + 1 /\ tasks'[t].current = tasks[t].current
      /\ tasks'[t].status = status
      /\ tasks'[t] = [status |-> status, epoch |-> tasks[t].epoch + 1,
                      current |-> tasks[t].current]
  BY <1>3 DEF TypeOK
<1>5. tasks'[t] # NoRow
  <2>1. status \in TaskStatus
    <3> DEFINE written == Saved(tasks[t].status, req[r].task.status, StartTransition.task)
    <3>1. status = written
      <4>1. tasks' = [tasks EXCEPT ![t] = [status |-> written, epoch |-> req[r].task.epoch + 1,
                                           current |-> tasks[t].current]]
        BY DEF CommitAttempt
      <4> HIDE DEF written
      <4>2. tasks'[t].status = written
        BY <4>1 DEF TypeOK
      <4>3. QED
        BY <1>4, <4>2
    <3>2. QED
      BY <1>2, <3>1 DEF Saved, StartTransition, TaskRow, TaskStatus
  <2>2. tasks'[t] \in TaskRow
    BY <1>2, <1>4, <2>1 DEF TaskRow
  <2>3. QED
    BY <2>2, NotNoRow
<1>6. QED
  BY <1>4, <1>5

\* A committed start adds exactly the next epoch.
LEMMA CommitAttemptFence ==
    ASSUME TypeOK, SessionsSound, EpochFence, NEW r \in Requests, CommitAttempt(r)
    PROVE  EpochFence'
<1> DEFINE q == req[r]
           t == req[r].work
           epoch == q.task.epoch + 1
<1>1. InFlight(r) /\ q.op = "start" /\ ~EpochTaken(t, epoch)
  BY DEF CommitAttempt, At
<1>2. q \in StartRequest /\ t \in Tasks /\ q.task \in TaskRow /\ q.id \in AttemptIds
  BY <1>1, RequestKinds DEF StartRequest
<1>3. IsTask(t) /\ ~IsAttempt(q.id)
  BY <1>1 DEF SessionsSound, SessionSound
<1>4. tasks[t].epoch \in Nat /\ epoch = tasks[t].epoch + 1
  BY <1>2, <1>3, FreshCopy, RowTypes DEF TaskRow
<1>5. PICK row \in AttemptRow :
        /\ attempts' = [attempts EXCEPT ![q.id] = row]
        /\ row.work = t
        /\ row.epoch = epoch
  <2> DEFINE row == [work |-> t, spec |-> Input(q), config |-> ConfigOf(q),
                     input |-> specs[Input(q)].content, epoch |-> epoch,
                     status |-> StartTransition.attempt]
  <2>1. attempts' = [attempts EXCEPT ![q.id] = row]
    BY DEF CommitAttempt
  <2>2. attempts' \in [AttemptIds -> AttemptRow \cup {NoRow}] /\ attempts'[q.id] = row
    BY <1>2, <2>1, CommitAttemptType DEF TypeOK
  <2>3. row # NoRow
    <3>1. row \in AttemptRow
      <4>1. Input(q) \in SpecIds /\ ConfigOf(q) \in Configs /\ specs[Input(q)].content \in Contents
        BY <1>1, InputRow DEF SpecsOf, CommitAttempt, At
      <4>2. QED
        BY <1>2, <1>4, <4>1 DEF AttemptRow, StartTransition, AttemptStatus
    <3>2. QED
      BY <3>1, NotNoRow
  <2>4. QED
    BY <1>2, <2>1, <2>2, <2>3
<1>6. row # NoRow
  BY <1>5, NotNoRow
<1>7. \A u \in Tasks : AttemptsOf(u)' = IF u = t THEN AttemptsOf(t) \cup {q.id} ELSE AttemptsOf(u)
  BY <1>2, <1>3, <1>5, <1>6 DEF AttemptsOf, IsAttempt, TypeOK
<1>8. \A a \in AttemptIds : attempts'[a] = IF a = q.id THEN row ELSE attempts[a]
  BY <1>2, <1>5 DEF TypeOK
<1>9. /\ \A u \in Tasks : u # t => tasks'[u] = tasks[u]
      /\ tasks'[t].epoch = epoch /\ tasks'[t] # NoRow
  BY <1>2, <1>4, CommitAttemptTask
<1>10. ASSUME NEW u \in Tasks
       PROVE  /\ IF tasks'[u] # NoRow
                 THEN {attempts'[a].epoch : a \in AttemptsOf(u)'} = 1 .. tasks'[u].epoch
                 ELSE AttemptsOf(u)' = {}
              /\ \A a, b \in AttemptsOf(u)' : attempts'[a].epoch = attempts'[b].epoch => a = b
  <2>1. CASE u # t
    <3>1. AttemptsOf(u)' = AttemptsOf(u)
      BY <1>7, <2>1
    <3>2. tasks'[u] = tasks[u]
      BY <1>9, <2>1
    <3>3. \A a \in AttemptsOf(u) : attempts'[a] = attempts[a]
      BY <1>3, <1>8 DEF AttemptsOf
    <3>4. {attempts'[a].epoch : a \in AttemptsOf(u)'} = {attempts[a].epoch : a \in AttemptsOf(u)}
      BY <3>1, <3>3
    <3>5. QED
      BY <3>1, <3>2, <3>3, <3>4 DEF EpochFence, IsTask
  <2>2. CASE u = t
    <3>1. AttemptsOf(u)' = AttemptsOf(u) \cup {q.id} /\ q.id \notin AttemptsOf(u)
      <4>1. AttemptsOf(u)' = AttemptsOf(u) \cup {q.id}
        BY <1>7, <2>2
      <4>2. q.id \notin AttemptsOf(u)
        BY <1>3, <2>2 DEF AttemptsOf
      <4>3. QED
        BY <4>1, <4>2
    <3>2. \A a \in AttemptsOf(u) : attempts'[a] = attempts[a]
      BY <1>3, <1>8 DEF AttemptsOf
    <3>3. attempts'[q.id].epoch = epoch
      BY <1>2, <1>5, <1>8
    <3>4. {attempts[a].epoch : a \in AttemptsOf(u)} = 1 .. tasks[t].epoch
      BY <1>2, <1>3, <2>2 DEF EpochFence
    <3>5. {attempts'[a].epoch : a \in AttemptsOf(u)'} =
            {attempts[a].epoch : a \in AttemptsOf(u)} \cup {epoch}
      <4>1. \A e \in {attempts[a].epoch : a \in AttemptsOf(u)} :
                \E a \in AttemptsOf(u)' : e = attempts'[a].epoch
        BY <3>1, <3>2
      <4>2. \E a \in AttemptsOf(u)' : epoch = attempts'[a].epoch
        BY <3>1, <3>3
      <4>3. \A a \in AttemptsOf(u)' :
                attempts'[a].epoch \in {attempts[b].epoch : b \in AttemptsOf(u)} \cup {epoch}
        BY <3>1, <3>2, <3>3
      <4>4. QED
        BY <4>1, <4>2, <4>3
    <3>6. 1 .. epoch = (1 .. tasks[t].epoch) \cup {epoch}
      BY <1>4
    <3>7. \A a \in AttemptsOf(u) : attempts[a].epoch # epoch
      BY <1>4, <3>4
    <3>8. \A a, b \in AttemptsOf(u)' : attempts'[a].epoch = attempts'[b].epoch => a = b
      BY <1>2, <1>3, <2>2, <3>1, <3>2, <3>3, <3>7 DEF EpochFence
    <3>9. QED
      BY <1>9, <2>2, <3>4, <3>5, <3>6, <3>8
  <2>3. QED
    BY <2>1, <2>2
<1>11. QED
  BY <1>10 DEF EpochFence, IsTask

-----------------------------------------------------------------------------
(* Sessions.  Committed rows only accumulate and epochs only grow, so what *)
(* a session holds stays true while others commit.                         *)

TablesGrow ==
    /\ \A t \in Tasks : IsTask(t) => tasks'[t] # NoRow /\ tasks[t].epoch <= tasks'[t].epoch
    /\ \A s \in SpecIds : IsSpec(s) => specs'[s] = specs[s]

\* A request that the step leaves alone and whose identity it does not use.
LEMMA KeepSession ==
    ASSUME TypeOK, NEW r \in Requests, SessionSound(r), TablesGrow,
           req'[r] = req[r],
           InFlight(r) /\ req[r].op = "specification" => specs'[req[r].id] = NoRow,
           InFlight(r) /\ req[r].op = "start" => attempts'[req[r].id] = NoRow,
           TypeOK'
    PROVE  SessionSound(r)'
<1> SUFFICES ASSUME InFlight(r)
             PROVE  SessionSound(r)'
  BY DEF SessionSound, InFlight
<1>1. req[r].work \in Tasks /\ req[r].task \in TaskRow
  BY RequestKinds
<1>2. tasks'[req[r].work] # NoRow /\ req[r].task.epoch <= tasks'[req[r].work].epoch
  <2>1. IsTask(req[r].work) /\ req[r].task.epoch <= tasks[req[r].work].epoch
    BY DEF SessionSound
  <2>2. tasks'[req[r].work] # NoRow /\ tasks[req[r].work].epoch <= tasks'[req[r].work].epoch
    BY <1>1, <2>1 DEF TablesGrow
  <2>3. req[r].task.epoch \in Nat /\ tasks[req[r].work].epoch \in Nat
    BY <1>1, <2>1, RowTypes DEF TaskRow
  <2>4. tasks'[req[r].work].epoch \in Nat
    BY <1>1, <2>2 DEF TypeOK, TaskRow
  <2>5. QED
    BY <2>1, <2>2, <2>3, <2>4
<1>3. \A s \in SpecIds : specs[s] # NoRow => specs'[s] # NoRow /\ specs'[s] = specs[s]
  BY DEF TablesGrow, IsSpec
<1>4. \A s \in SpecsOf(req[r].work) :
        s \in {x \in SpecIds : specs'[x] # NoRow /\ specs'[x].work = req[r].work}
  BY <1>3 DEF SpecsOf, IsSpec
<1>5. req[r].task.current \in
        {x \in SpecIds : specs'[x] # NoRow /\ specs'[x].work = req[r].work} \cup {NoSpec}
  BY <1>4 DEF SessionSound
<1>6. req[r].op = "specification" =>
        req[r].latest \in {specs'[s].version :
            s \in {x \in SpecIds : specs'[x] # NoRow /\ specs'[x].work = req[r].work}} \cup {0}
  <2> SUFFICES ASSUME req[r].op = "specification", req[r].latest # 0
               PROVE  \E s \in {x \in SpecIds : specs'[x] # NoRow /\ specs'[x].work = req[r].work} :
                            req[r].latest = specs'[s].version
    OBVIOUS
  <2>1. PICK s \in SpecsOf(req[r].work) : req[r].latest = specs[s].version
    BY DEF SessionSound, VersionsOf
  <2>2. specs'[s] = specs[s]
    BY <2>1, <1>3 DEF SpecsOf, IsSpec
  <2>3. QED
    BY <2>1, <2>2, <1>4
<1>7. req[r].op = "start" /\ req[r].pc # "loaded" =>
        /\ req[r].task.current # NoSpec
        /\ specs'[req[r].task.current].content \in Satisfied
  <2> SUFFICES ASSUME req[r].op = "start", req[r].pc # "loaded"
               PROVE  /\ req[r].task.current # NoSpec
                      /\ specs'[req[r].task.current].content \in Satisfied
    OBVIOUS
  <2>1. IsReady(req[r].task.current)
    BY DEF SessionSound
  <2>2. req[r].task.current \in SpecsOf(req[r].work)
    BY <2>1 DEF SessionSound, IsReady
  <2>3. specs'[req[r].task.current] = specs[req[r].task.current]
    BY <1>3, <2>2 DEF SpecsOf, IsSpec
  <2>4. QED
    BY <2>1, <2>3 DEF IsReady
<1>8. QED
  BY <1>2, <1>5, <1>6, <1>7
     DEF SessionSound, InFlight, IsTask, SpecsOf, VersionsOf, IsSpec, IsAttempt, IsReady

\* Pointers stay sound where neither the pointer nor the rows change.
LEMMA KeepPointers ==
    ASSUME TypeOK, PointersSound, specs' = specs,
           \A t \in Tasks : tasks'[t] # NoRow /\ tasks'[t].current # NoSpec
                => IsTask(t) /\ tasks'[t].current = tasks[t].current
    PROVE  PointersSound'
BY DEF PointersSound, IsTask, SpecsOf, IsSpec

\* No step but the start of a request adds an identity.
LEMMA KeepIdentities ==
    ASSUME IdentitiesDistinct,
           \A r \in Requests : req'[r] # NoRow
                => /\ InFlight(r)
                   /\ req'[r].op = req[r].op
                   /\ req[r].op # "readiness" => req'[r].id = req[r].id
    PROVE  IdentitiesDistinct'
BY DEF IdentitiesDistinct, InFlight

\* A request that ends with nothing written disturbs no other.
LEMMA RollbackSessions ==
    ASSUME TypeOK, SessionsSound, NEW r \in Requests, Rollback(r)
    PROVE  SessionsSound'
<1>1. /\ UNCHANGED <<tasks, specs, attempts>>
      /\ \A x \in Requests : req'[x] = IF x = r THEN NoRow ELSE req[x]
      /\ TypeOK'
  BY RollbackType DEF Rollback, Finish, TypeOK
<1>2. TablesGrow
  BY <1>1, RowTypes DEF TablesGrow, IsTask, TaskRow
<1>3. ASSUME NEW x \in Requests
      PROVE  SessionSound(x)'
  <2>1. CASE x = r
    BY <1>1, <2>1 DEF SessionSound, InFlight
  <2>2. CASE x # r
    <3>1. req'[x] = req[x] /\ SessionSound(x)
      BY <1>1, <2>2 DEF SessionsSound
    <3>2. /\ InFlight(x) /\ req[x].op = "specification" => specs'[req[x].id] = NoRow
          /\ InFlight(x) /\ req[x].op = "start" => attempts'[req[x].id] = NoRow
      BY <1>1, <3>1 DEF SessionSound, IsSpec, IsAttempt
    <3>3. QED
      BY <1>1, <1>2, <3>1, <3>2, KeepSession
  <2>3. QED
    BY <2>1, <2>2
<1>4. PointersSound'
  BY <1>1, KeepPointers DEF SessionsSound, IsTask
<1>5. IdentitiesDistinct'
  BY <1>1, KeepIdentities DEF SessionsSound, InFlight
<1>6. QED
  BY <1>3, <1>4, <1>5 DEF SessionsSound

\* No session and no row refers to a task before it is created.
LEMMA CreateTaskSessions ==
    ASSUME TypeOK, SessionsSound, NEW t \in Tasks, CreateTask(t)
    PROVE  SessionsSound'
<1>1. /\ UNCHANGED <<specs, attempts, req>>
      /\ tasks[t] = NoRow
      /\ tasks'[t] = [status |-> "draft", epoch |-> 0, current |-> NoSpec]
      /\ \A u \in Tasks : u # t => tasks'[u] = tasks[u]
      /\ TypeOK'
  BY CreateTaskType DEF CreateTask, IsTask, TypeOK
<1>2. TablesGrow
  BY <1>1, RowTypes DEF TablesGrow, IsTask, TaskRow
<1>3. ASSUME NEW x \in Requests
      PROVE  SessionSound(x)'
  <2>1. req'[x] = req[x] /\ SessionSound(x)
    BY <1>1 DEF SessionsSound
  <2>2. /\ InFlight(x) /\ req[x].op = "specification" => specs'[req[x].id] = NoRow
        /\ InFlight(x) /\ req[x].op = "start" => attempts'[req[x].id] = NoRow
    BY <1>1, <2>1 DEF SessionSound, IsSpec, IsAttempt
  <2>3. QED
    BY <1>1, <1>2, <2>1, <2>2, KeepSession
<1>4. PointersSound'
  <2>1. \A u \in Tasks : tasks'[u] # NoRow /\ tasks'[u].current # NoSpec
            => IsTask(u) /\ tasks'[u].current = tasks[u].current
    BY <1>1 DEF IsTask
  <2>2. QED
    BY <1>1, <2>1, KeepPointers DEF SessionsSound
<1>5. IdentitiesDistinct'
  BY <1>1, KeepIdentities DEF SessionsSound, InFlight
<1>6. QED
  BY <1>3, <1>4, <1>5 DEF SessionsSound

\* The new request's copy is the committed row and its identity is fresh.
LEMMA BeginSessions ==
    ASSUME TypeOK, SessionsSound, NEW r \in Requests, Begin(r)
    PROVE  SessionsSound'
<1>1. PICK t \in Tasks, q \in Request :
        /\ Load(r, q)
        /\ q.work = t
        /\ q.task = tasks[t]
        /\ q.op = "specification" => FreshSpec(q.id) /\ q.latest = 0
        /\ q.op = "start" => FreshAttempt(q.id) /\ q.pc = "loaded"
  <2>1. ASSUME NEW t \in Tasks, NEW s \in SpecIds, NEW c \in Contents,
               BeginSpecification(r, t, s, c)
        PROVE  \E q \in Request :
                /\ Load(r, q)
                /\ q.work = t
                /\ q.task = tasks[t]
                /\ q.op = "specification" => FreshSpec(q.id) /\ q.latest = 0
                /\ q.op = "start" => FreshAttempt(q.id) /\ q.pc = "loaded"
    <3> DEFINE q == [op |-> "specification", pc |-> "loaded", work |-> t,
                     task |-> tasks[t], id |-> s, content |-> c, latest |-> 0]
    <3>1. Load(r, q) /\ FreshSpec(s) /\ IsTask(t)
      BY <2>1 DEF BeginSpecification, Load
    <3>2. q \in Request
      BY <3>1, RowTypes DEF Request, SpecificationRequest
    <3>3. QED
      BY <3>1, <3>2
  <2>2. ASSUME NEW t \in Tasks, BeginReadiness(r, t)
        PROVE  \E q \in Request :
                /\ Load(r, q)
                /\ q.work = t
                /\ q.task = tasks[t]
                /\ q.op = "specification" => FreshSpec(q.id) /\ q.latest = 0
                /\ q.op = "start" => FreshAttempt(q.id) /\ q.pc = "loaded"
    <3> DEFINE q == [op |-> "readiness", pc |-> "loaded", work |-> t, task |-> tasks[t]]
    <3>1. Load(r, q) /\ IsTask(t)
      BY <2>2 DEF BeginReadiness, Load
    <3>2. q \in Request
      BY <3>1, RowTypes DEF Request, ReadinessRequest
    <3>3. QED
      BY <3>1, <3>2
  <2>3. ASSUME NEW t \in Tasks, NEW a \in AttemptIds, BeginStart(r, t, a)
        PROVE  \E q \in Request :
                /\ Load(r, q)
                /\ q.work = t
                /\ q.task = tasks[t]
                /\ q.op = "specification" => FreshSpec(q.id) /\ q.latest = 0
                /\ q.op = "start" => FreshAttempt(q.id) /\ q.pc = "loaded"
    <3> DEFINE q == [op |-> "start", pc |-> "loaded", work |-> t, task |-> tasks[t], id |-> a]
    <3>1. Load(r, q) /\ FreshAttempt(a) /\ IsTask(t)
      BY <2>3 DEF BeginStart, Load
    <3>2. q \in Request
      BY <3>1, RowTypes DEF Request, StartRequest
    <3>3. QED
      BY <3>1, <3>2
  <2>4. QED
    BY <2>1, <2>2, <2>3 DEF Begin
<1>2. /\ UNCHANGED <<tasks, specs, attempts>>
      /\ \A x \in Requests : req'[x] = IF x = r THEN q ELSE req[x]
      /\ TypeOK'
      /\ IsTask(t)
      /\ q # NoRow
  BY <1>1, BeginType, NotNoRow DEF Load, TypeOK
<1>3. TablesGrow
  BY <1>2, RowTypes DEF TablesGrow, IsTask, TaskRow
<1>4. ASSUME NEW x \in Requests
      PROVE  SessionSound(x)'
  <2>1. CASE x = r
    <3>1. tasks[t].current \in SpecsOf(t) \cup {NoSpec}
      BY <1>2 DEF SessionsSound, PointersSound
    <3>2. tasks[t].epoch \in Nat
      BY <1>2, RowTypes DEF TaskRow
    <3>3. tasks' = tasks /\ specs' = specs /\ attempts' = attempts /\ req'[x] = q
      BY <1>2, <2>1
    <3>4. QED
      BY <1>1, <1>2, <3>1, <3>2, <3>3
         DEF SessionSound, InFlight, IsTask, SpecsOf, VersionsOf, IsSpec, IsAttempt,
             FreshSpec, FreshAttempt
  <2>2. CASE x # r
    <3>1. req'[x] = req[x] /\ SessionSound(x)
      BY <1>2, <2>2 DEF SessionsSound
    <3>2. /\ InFlight(x) /\ req[x].op = "specification" => specs'[req[x].id] = NoRow
          /\ InFlight(x) /\ req[x].op = "start" => attempts'[req[x].id] = NoRow
      BY <1>2, <3>1 DEF SessionSound, IsSpec, IsAttempt
    <3>3. QED
      BY <1>2, <1>3, <3>1, <3>2, KeepSession
  <2>3. QED
    BY <2>1, <2>2
<1>5. PointersSound'
  BY <1>2, KeepPointers DEF SessionsSound, IsTask
<1>6. IdentitiesDistinct'
  <2>1. \A x \in Requests : x # r /\ InFlight(x) /\ req[x].op = q.op
            => q.op = "readiness" \/ req[x].id # q.id
    <3>1. q.op \in {"specification", "readiness", "start"}
      BY DEF Request, SpecificationRequest, ReadinessRequest, StartRequest
    <3>2. QED
      BY <1>1, <3>1 DEF FreshSpec, FreshAttempt
  <2>2. QED
    BY <1>2, <2>1 DEF SessionsSound, IdentitiesDistinct, InFlight
<1>7. QED
  BY <1>4, <1>5, <1>6 DEF SessionsSound

\* At most the status of a task changes.
SameButStatus ==
    /\ UNCHANGED <<specs, attempts>>
    /\ \A t \in Tasks : /\ IsTask(t) <=> tasks'[t] # NoRow
                        /\ IsTask(t) => /\ tasks'[t].epoch = tasks[t].epoch
                                        /\ tasks'[t].current = tasks[t].current

\* One request moves on; of the tables, at most a status changes.
LEMMA MoveSessions ==
    ASSUME TypeOK, SessionsSound, TypeOK', NEW r \in Requests, InFlight(r),
           SameButStatus,
           NEW q \in Request, req' = [req EXCEPT ![r] = q],
           q.work = req[r].work, q.op = req[r].op,
           q.task.epoch = req[r].task.epoch, q.task.current = req[r].task.current,
           q.op # "readiness" => q.id = req[r].id,
           q.op = "specification" => q.latest \in VersionsOf(q.work) \cup {0},
           q.op = "start" /\ q.pc # "loaded" => IsReady(q.task.current)
    PROVE  SessionsSound'
<1>1. /\ \A x \in Requests : req'[x] = IF x = r THEN q ELSE req[x]
      /\ q # NoRow
  BY NotNoRow DEF TypeOK
<1>2. TablesGrow
  BY RowTypes DEF TablesGrow, SameButStatus, IsTask, TaskRow
<1>3. ASSUME NEW x \in Requests
      PROVE  SessionSound(x)'
  <2>1. CASE x = r
    <3>1. /\ SessionSound(r) /\ req'[x] = q /\ q.work \in Tasks
          /\ specs' = specs /\ attempts' = attempts
          /\ IsTask(q.work) => /\ tasks'[q.work] # NoRow
                               /\ tasks'[q.work].epoch = tasks[q.work].epoch
      BY <1>1, <2>1, RequestKinds DEF SessionsSound, SameButStatus
    <3>2. q.op # "readiness" => q.id = req[r].id
      OBVIOUS
    <3>3. QED
      BY <3>1, <3>2 DEF SessionSound, InFlight, IsTask, SpecsOf, VersionsOf, IsSpec, IsAttempt,
                        IsReady
  <2>2. CASE x # r
    <3>1. req'[x] = req[x] /\ SessionSound(x)
      BY <1>1, <2>2 DEF SessionsSound
    <3>2. /\ InFlight(x) /\ req[x].op = "specification" => specs'[req[x].id] = NoRow
          /\ InFlight(x) /\ req[x].op = "start" => attempts'[req[x].id] = NoRow
      BY <3>1 DEF SessionSound, SameButStatus, IsSpec, IsAttempt
    <3>3. QED
      BY <1>2, <3>1, <3>2, KeepSession
  <2>3. QED
    BY <2>1, <2>2
<1>4. PointersSound'
  BY KeepPointers DEF SessionsSound, SameButStatus, IsTask
<1>5. IdentitiesDistinct'
  BY <1>1, KeepIdentities DEF SessionsSound, InFlight
<1>6. QED
  BY <1>3, <1>4, <1>5 DEF SessionsSound

\* The version number read is one of the task's, or 0.
LEMMA ReadLatestVersionSessions ==
    ASSUME TypeOK, SessionsSound, NEW r \in Requests, ReadLatestVersion(r)
    PROVE  SessionsSound'
<1>1. InFlight(r) /\ req[r].op = "specification" /\ SameButStatus
  BY DEF ReadLatestVersion, At, SameButStatus, IsTask
<1>2. req[r] \in SpecificationRequest
  BY <1>1, RequestKinds
<1>3. PICK n \in VersionsOf(req[r].work) \cup {0} :
        req' = [req EXCEPT ![r].pc = "numbered", ![r].latest = n]
  BY DEF ReadLatestVersion
<1>4. n \in Nat
  BY RowTypes DEF VersionsOf, SpecsOf, SpecRow
<1> DEFINE q == [req[r] EXCEPT !.pc = "numbered", !.latest = n]
<1>5. q \in SpecificationRequest
  BY <1>2, <1>4 DEF SpecificationRequest
<1>6. req' = [req EXCEPT ![r] = q]
  BY <1>3 DEF TypeOK
<1>7. /\ q.work = req[r].work /\ q.op = "specification" /\ q.task = req[r].task
      /\ q.id = req[r].id /\ q.latest = n
  BY <1>1, <1>2 DEF SpecificationRequest
<1>8. q \in Request
  BY <1>5 DEF Request
<1>9. TypeOK'
  BY ReadLatestVersionType
<1> HIDE DEF q
<1>10. QED
  BY <1>1, <1>3, <1>6, <1>7, <1>8, <1>9, MoveSessions

\* An admitted start keeps what its gate established.
LEMMA AdmitStartSessions ==
    ASSUME TypeOK, SessionsSound, NEW r \in Requests, AdmitStart(r)
    PROVE  SessionsSound'
<1>1. /\ InFlight(r) /\ req[r].op = "start" /\ req[r].pc = "gated"
      /\ SameButStatus
      /\ req' = [req EXCEPT ![r].pc = "admitted"]
  BY DEF AdmitStart, At, Advance, SameButStatus, IsTask
<1>2. req[r] \in StartRequest
  BY <1>1, RequestKinds
<1> DEFINE q == [req[r] EXCEPT !.pc = "admitted"]
<1>3. /\ q \in Request /\ q.work = req[r].work /\ q.op = "start" /\ q.task = req[r].task
      /\ q.id = req[r].id
  BY <1>1, <1>2 DEF StartRequest, Request
<1>4. req' = [req EXCEPT ![r] = q]
  BY <1>1
<1>5. TypeOK'
  BY AdmitStartType
<1>6. IsReady(req[r].task.current)
  BY <1>1 DEF SessionsSound, SessionSound
<1> HIDE DEF q
<1>7. QED
  BY <1>1, <1>3, <1>4, <1>5, <1>6, MoveSessions

\* One request ends; the rows it adds carry none of the others' identities.
LEMMA FinishSessions ==
    ASSUME TypeOK, SessionsSound, TypeOK', NEW r \in Requests,
           req' = [req EXCEPT ![r] = NoRow],
           TablesGrow, PointersSound',
           \A x \in Requests : x # r /\ InFlight(x) =>
                /\ req[x].op = "specification" => specs'[req[x].id] = specs[req[x].id]
                /\ req[x].op = "start" => attempts'[req[x].id] = attempts[req[x].id]
    PROVE  SessionsSound'
<1>1. \A x \in Requests : req'[x] = IF x = r THEN NoRow ELSE req[x]
  BY DEF TypeOK
<1>2. ASSUME NEW x \in Requests
      PROVE  SessionSound(x)'
  <2>1. CASE x = r
    BY <1>1, <2>1 DEF SessionSound, InFlight
  <2>2. CASE x # r
    <3>1. req'[x] = req[x] /\ SessionSound(x)
      BY <1>1, <2>2 DEF SessionsSound
    <3>2. /\ InFlight(x) /\ req[x].op = "specification" => specs'[req[x].id] = NoRow
          /\ InFlight(x) /\ req[x].op = "start" => attempts'[req[x].id] = NoRow
      BY <2>2, <3>1 DEF SessionSound, IsSpec, IsAttempt
    <3>3. QED
      BY <3>1, <3>2, KeepSession
  <2>3. QED
    BY <2>1, <2>2
<1>3. IdentitiesDistinct'
  BY <1>1, KeepIdentities DEF SessionsSound, InFlight
<1>4. QED
  BY <1>2, <1>3 DEF SessionsSound

\* An evaluation changes at most statuses.
LEMMA PersistReadinessRows ==
    ASSUME TypeOK, SessionsSound, NEW r \in Requests, InFlight(r), PersistReadiness(r)
    PROVE  SameButStatus
<1> DEFINE status == AfterReadiness(req[r].task.status, req[r].task.current)
<1>1. req[r].work \in Tasks /\ IsTask(req[r].work)
  BY RequestKinds DEF SessionsSound, SessionSound
<1>2. CASE UNCHANGED tasks
  BY <1>2 DEF PersistReadiness, SameButStatus, IsTask
<1>3. CASE tasks' = [tasks EXCEPT ![req[r].work].status = status]
  <2> HIDE DEF status
  <2>1. PICK t \in Tasks : t = req[r].work
    BY <1>1
  <2>2. tasks[t] \in TaskRow
    BY <1>1, <2>1, RowTypes
  <2> DEFINE row == [tasks[t] EXCEPT !.status = status]
  <2>3. row.epoch = tasks[t].epoch /\ row.current = tasks[t].current /\ tasks'[t] = row
    BY <1>3, <2>1, <2>2 DEF TaskRow, TypeOK
  <2>4. tasks'[t] # NoRow
    <3>1. tasks'[t] \in TaskRow \cup {NoRow}
      BY <2>1, PersistReadinessType
    <3>2. status \in TaskStatus
      BY RequestKinds DEF AfterReadiness, TaskRow, TaskStatus, status
    <3>3. row \in TaskRow
      BY <2>2, <3>2 DEF TaskRow
    <3>4. QED
      BY <2>3, <3>3, NotNoRow
  <2>5. \A u \in Tasks : u # t => tasks'[u] = tasks[u]
    BY <1>3, <2>1 DEF TypeOK
  <2>6. QED
    BY <1>1, <2>1, <2>3, <2>4, <2>5 DEF SameButStatus, PersistReadiness, IsTask
<1>4. QED
  BY <1>2, <1>3 DEF PersistReadiness

\* The end of a readiness request leaves the other sessions sound.
LEMMA AnswerReadinessSessions ==
    ASSUME TypeOK, SessionsSound, NEW r \in Requests, AnswerReadiness(r)
    PROVE  SessionsSound'
<1>1. InFlight(r) /\ PersistReadiness(r) /\ req' = [req EXCEPT ![r] = NoRow]
  BY DEF AnswerReadiness, At, Finish
<1>2. SameButStatus
  BY <1>1, PersistReadinessRows
<1>3. TablesGrow
  BY <1>2, RowTypes DEF TablesGrow, SameButStatus, IsTask, TaskRow
<1>4. PointersSound'
  BY <1>2, KeepPointers DEF SessionsSound, SameButStatus, IsTask
<1>5. TypeOK'
  BY AnswerReadinessType
<1>6. QED
  BY <1>1, <1>2, <1>3, <1>4, <1>5, FinishSessions DEF SameButStatus

\* A gate that passes establishes the verdict on the copy's pointer.
LEMMA GateStartSessions ==
    ASSUME TypeOK, SessionsSound, NEW r \in Requests, GateStart(r)
    PROVE  SessionsSound'
<1>1. InFlight(r) /\ PersistReadiness(r) /\ req[r].op = "start"
  BY DEF GateStart, At
<1>2. SameButStatus /\ TypeOK'
  BY <1>1, PersistReadinessRows, GateStartType
<1>3. CASE Finish(r)
  <2>1. TablesGrow
    BY <1>2, RowTypes DEF TablesGrow, SameButStatus, IsTask, TaskRow
  <2>2. PointersSound'
    BY <1>2, KeepPointers DEF SessionsSound, SameButStatus, IsTask
  <2>3. QED
    BY <1>2, <1>3, <2>1, <2>2, FinishSessions DEF SameButStatus, Finish
<1>4. CASE ~Finish(r)
  <2> DEFINE q == [op |-> "start", pc |-> "gated", work |-> req[r].work,
                   task |-> Evaluated(req[r].task), id |-> req[r].id]
  <2>1. req' = [req EXCEPT ![r] = q] /\ IsReady(req[r].task.current)
    BY <1>4 DEF GateStart
  <2>2. req[r] \in StartRequest /\ req[r].task \in TaskRow
    BY <1>1, RequestKinds
  <2>3. /\ Evaluated(req[r].task) \in TaskRow
        /\ Evaluated(req[r].task).epoch = req[r].task.epoch
        /\ Evaluated(req[r].task).current = req[r].task.current
    BY <2>2, EvaluatedType
  <2>4. q \in Request
    BY <2>2, <2>3 DEF StartRequest, Request
  <2>5. /\ q.work = req[r].work /\ q.op = "start" /\ q.id = req[r].id
        /\ q.task.epoch = req[r].task.epoch /\ q.task.current = req[r].task.current
    BY <2>3
  <2> HIDE DEF q
  <2>6. QED
    BY <1>1, <1>2, <2>1, <2>4, <2>5, MoveSessions
<1>5. QED
  BY <1>3, <1>4

\* A committed version adds one specification row and keeps the others.
LEMMA CommitSpecificationGrows ==
    ASSUME TypeOK, SessionsSound, NEW r \in Requests, CommitSpecification(r)
    PROVE  TablesGrow
<1>1. InFlight(r) /\ req[r].op = "specification"
  BY DEF CommitSpecification, At
<1>2. req[r] \in SpecificationRequest /\ req[r].task \in TaskRow
  BY <1>1, RequestKinds
<1>3. PICK t \in Tasks, id \in SpecIds, row \in SpecRow :
        /\ t = req[r].work /\ id = req[r].id
        /\ row.work = t
        /\ specs' = [specs EXCEPT ![id] = row]
  <2> DEFINE row == [work |-> req[r].work, version |-> req[r].latest + 1,
                     content |-> req[r].content]
  <2>1. row \in SpecRow /\ req[r].work \in Tasks /\ req[r].id \in SpecIds
    BY <1>2 DEF SpecificationRequest, SpecRow
  <2>2. specs' = [specs EXCEPT ![req[r].id] = row]
    BY DEF CommitSpecification
  <2>3. QED
    BY <2>1, <2>2
<1>4. IsTask(t) /\ ~IsSpec(id)
  BY <1>1, <1>3 DEF SessionsSound, SessionSound
<1>5. PICK status : tasks' = [tasks EXCEPT ![t] =
                        [status |-> status, epoch |-> tasks[t].epoch, current |-> id]]
  BY <1>3 DEF CommitSpecification
<1>6. /\ \A s \in SpecIds : specs'[s] = IF s = id THEN row ELSE specs[s]
      /\ \A u \in Tasks : u # t => tasks'[u] = tasks[u]
      /\ tasks'[t].epoch = tasks[t].epoch /\ tasks'[t].current = id /\ tasks'[t] # NoRow
      /\ row # NoRow
  <2>1. tasks'[t] \in TaskRow
    <3>1. tasks'[t] = [status |-> status, epoch |-> tasks[t].epoch, current |-> id]
      BY <1>5 DEF TypeOK
    <3>2. status \in TaskStatus
      <4>1. tasks'[t].status = Saved(tasks[t].status, req[r].task.status,
                                     AfterSpecification(req[r].task.status))
        BY <1>3 DEF CommitSpecification, TypeOK
      <4>2. tasks[t] \in TaskRow
        BY <1>4, RowTypes
      <4>3. QED
        BY <1>2, <3>1, <4>1, <4>2 DEF Saved, AfterSpecification, TaskRow, TaskStatus
    <3>3. tasks[t].epoch \in Nat
      BY <1>4, RowTypes DEF TaskRow
    <3>4. QED
      BY <3>1, <3>2, <3>3 DEF TaskRow
  <2>2. \A s \in SpecIds : specs'[s] = IF s = id THEN row ELSE specs[s]
    BY <1>3 DEF TypeOK
  <2>3. \A u \in Tasks : u # t => tasks'[u] = tasks[u]
    BY <1>5 DEF TypeOK
  <2>4. tasks'[t].epoch = tasks[t].epoch /\ tasks'[t].current = id
    BY <1>5 DEF TypeOK
  <2>5. QED
    BY <2>1, <2>2, <2>3, <2>4, NotNoRow
<1>7. QED
  BY <1>4, <1>6, RowTypes DEF TablesGrow, IsTask, IsSpec, TaskRow

\* A committed version leaves the other sessions sound.
LEMMA CommitSpecificationSessions ==
    ASSUME TypeOK, SessionsSound, NEW r \in Requests, CommitSpecification(r)
    PROVE  SessionsSound'
<1>1. InFlight(r) /\ req[r].op = "specification"
  BY DEF CommitSpecification, At
<1>2. req[r] \in SpecificationRequest /\ req[r].task \in TaskRow
  BY <1>1, RequestKinds
<1>3. PICK t \in Tasks, id \in SpecIds, row \in SpecRow :
        /\ t = req[r].work /\ id = req[r].id
        /\ row.work = t
        /\ specs' = [specs EXCEPT ![id] = row]
  <2> DEFINE row == [work |-> req[r].work, version |-> req[r].latest + 1,
                     content |-> req[r].content]
  <2>1. row \in SpecRow /\ req[r].work \in Tasks /\ req[r].id \in SpecIds
    BY <1>2 DEF SpecificationRequest, SpecRow
  <2>2. specs' = [specs EXCEPT ![req[r].id] = row]
    BY DEF CommitSpecification
  <2>3. QED
    BY <2>1, <2>2
<1>4. IsTask(t) /\ ~IsSpec(id)
  BY <1>1, <1>3 DEF SessionsSound, SessionSound
<1>5. PICK status : tasks' = [tasks EXCEPT ![t] =
                        [status |-> status, epoch |-> tasks[t].epoch, current |-> id]]
  BY <1>3 DEF CommitSpecification
<1>6. /\ \A s \in SpecIds : specs'[s] = IF s = id THEN row ELSE specs[s]
      /\ \A u \in Tasks : u # t => tasks'[u] = tasks[u]
      /\ tasks'[t].current = id
      /\ row # NoRow
  BY <1>3, <1>5, NotNoRow DEF TypeOK
<1>7. TablesGrow
  BY CommitSpecificationGrows
<1>8. PointersSound'
  <2> SUFFICES ASSUME NEW u \in Tasks, tasks'[u] # NoRow, tasks'[u].current # NoSpec
               PROVE  /\ tasks'[u].current \in SpecIds
                      /\ specs'[tasks'[u].current] # NoRow
                      /\ specs'[tasks'[u].current].work = u
    BY DEF PointersSound, IsTask, SpecsOf, IsSpec
  <2>1. CASE u = t
    BY <1>3, <1>6, <2>1
  <2>2. CASE u # t
    <3>1. tasks[u].current \in SpecsOf(u)
      BY <1>6, <2>2 DEF SessionsSound, PointersSound, IsTask
    <3>2. QED
      BY <1>4, <1>6, <2>2, <3>1 DEF SpecsOf, IsSpec
  <2>3. QED
    BY <2>1, <2>2
<1>9. TypeOK' /\ req' = [req EXCEPT ![r] = NoRow] /\ attempts' = attempts
  BY CommitSpecificationType DEF CommitSpecification, Finish
<1>10. ASSUME NEW x \in Requests, x # r, InFlight(x)
       PROVE  /\ req[x].op = "specification" => specs'[req[x].id] = specs[req[x].id]
              /\ req[x].op = "start" => attempts'[req[x].id] = attempts[req[x].id]
  <2>1. req[x].op = "specification" => req[x].id \in SpecIds /\ req[x].id # id
    BY <1>1, <1>3, <1>10, RequestKinds DEF SessionsSound, IdentitiesDistinct, SpecificationRequest
  <2>2. QED
    BY <1>6, <1>9, <2>1
<1>11. QED
  BY <1>7, <1>8, <1>9, <1>10, FinishSessions

\* A committed start leaves the other sessions sound.
LEMMA CommitAttemptSessions ==
    ASSUME TypeOK, SessionsSound, EpochFence, NEW r \in Requests, CommitAttempt(r)
    PROVE  SessionsSound'
<1>1. InFlight(r) /\ req[r].op = "start"
  BY DEF CommitAttempt, At
<1>2. req[r] \in StartRequest /\ req[r].task \in TaskRow
  BY <1>1, RequestKinds
<1>3. PICK t \in Tasks, id \in AttemptIds : t = req[r].work /\ id = req[r].id
  BY <1>2 DEF StartRequest
<1>4. IsTask(t) /\ tasks[t] \in TaskRow /\ req[r].task.epoch = tasks[t].epoch
  BY <1>1, <1>3, FreshCopy, RowTypes DEF SessionsSound, SessionSound
<1>5. /\ \A u \in Tasks : u # t => tasks'[u] = tasks[u]
      /\ tasks'[t].epoch = tasks[t].epoch + 1 /\ tasks'[t].current = tasks[t].current
      /\ tasks'[t] # NoRow
  BY <1>3, CommitAttemptTask
<1>8. TypeOK' /\ req' = [req EXCEPT ![r] = NoRow] /\ specs' = specs
  BY CommitAttemptType DEF CommitAttempt, Finish
<1>9. TablesGrow
  BY <1>4, <1>5, <1>8, RowTypes DEF TablesGrow, IsTask, TaskRow
<1>10. PointersSound'
  <2>1. \A u \in Tasks : tasks'[u] # NoRow /\ tasks'[u].current # NoSpec
            => IsTask(u) /\ tasks'[u].current = tasks[u].current
    BY <1>4, <1>5 DEF IsTask
  <2>2. QED
    BY <1>8, <2>1, KeepPointers DEF SessionsSound
<1>11. ASSUME NEW x \in Requests, x # r, InFlight(x)
       PROVE  /\ req[x].op = "specification" => specs'[req[x].id] = specs[req[x].id]
              /\ req[x].op = "start" => attempts'[req[x].id] = attempts[req[x].id]
  <2>1. req[x].op = "start" => req[x].id \in AttemptIds /\ req[x].id # id
    BY <1>1, <1>3, <1>11, RequestKinds DEF SessionsSound, IdentitiesDistinct, StartRequest
  <2>2. \A a \in AttemptIds : a # id => attempts'[a] = attempts[a]
    BY <1>3 DEF CommitAttempt, TypeOK
  <2>3. QED
    BY <1>8, <2>1, <2>2
<1>12. QED
  BY <1>8, <1>9, <1>10, <1>11, FinishSessions

\* Every step keeps the sessions sound.
LEMMA SessionsStep == Inv /\ [Next]_vars => SessionsSound'
<1> SUFFICES ASSUME TypeOK, SessionsSound, EpochFence, [Next]_vars
             PROVE  SessionsSound'
  BY DEF Inv
<1>1. CASE UNCHANGED vars
  BY <1>1 DEF vars, SessionsSound, PointersSound, SessionSound, IdentitiesDistinct, IsTask,
              InFlight, SpecsOf, VersionsOf, IsSpec, IsAttempt, IsReady
<1>2. ASSUME NEW t \in Tasks, CreateTask(t)
      PROVE  SessionsSound'
  BY <1>2, CreateTaskSessions
<1>3. ASSUME NEW r \in Requests, Begin(r) \/ Proceed(r) \/ Abort(r)
      PROVE  SessionsSound'
  <2>1. CASE Begin(r)
    BY <2>1, BeginSessions
  <2>2. CASE Rollback(r)
    BY <2>2, RollbackSessions
  <2>3. CASE ReadLatestVersion(r)
    BY <2>3, ReadLatestVersionSessions
  <2>4. CASE CommitSpecification(r)
    BY <2>4, CommitSpecificationSessions
  <2>5. CASE AnswerReadiness(r)
    BY <2>5, AnswerReadinessSessions
  <2>6. CASE GateStart(r)
    BY <2>6, GateStartSessions
  <2>7. CASE AdmitStart(r)
    BY <2>7, AdmitStartSessions
  <2>8. CASE CommitAttempt(r)
    BY <2>8, CommitAttemptSessions
  <2>9. QED
    BY <1>3, <2>1, <2>2, <2>3, <2>4, <2>5, <2>6, <2>7, <2>8
       DEF Proceed, Abort, RejectReferences, ConflictSpecification, RefuseStart, ConflictAttempt
<1>4. QED
  BY <1>1, <1>2, <1>3 DEF Next

-----------------------------------------------------------------------------
(* The invariant, and what follows from it.                                *)

\* A step that inserts no attempt and keeps the epochs.
LEMMA KeepFence ==
    ASSUME EpochFence, attempts' = attempts,
           \A t \in Tasks : /\ IsTask(t) <=> tasks'[t] # NoRow
                            /\ IsTask(t) => tasks'[t].epoch = tasks[t].epoch
    PROVE  EpochFence'
BY DEF EpochFence, IsTask, AttemptsOf, IsAttempt

\* A new task has no attempt and epoch 0.
LEMMA CreateTaskFence ==
    ASSUME TypeOK, EpochFence, NEW t \in Tasks, CreateTask(t)
    PROVE  EpochFence'
<1>1. /\ attempts' = attempts /\ ~IsTask(t)
      /\ tasks'[t] = [status |-> "draft", epoch |-> 0, current |-> NoSpec]
      /\ \A u \in Tasks : u # t => tasks'[u] = tasks[u]
  BY DEF CreateTask, TypeOK
<1>2. AttemptsOf(t) = {} /\ \A u \in Tasks : AttemptsOf(u)' = AttemptsOf(u)
  BY <1>1 DEF EpochFence, AttemptsOf, IsAttempt
<1>3. ASSUME NEW u \in Tasks
      PROVE  /\ IF tasks'[u] # NoRow
                THEN {attempts'[a].epoch : a \in AttemptsOf(u)'} = 1 .. tasks'[u].epoch
                ELSE AttemptsOf(u)' = {}
             /\ \A a, b \in AttemptsOf(u)' : attempts'[a].epoch = attempts'[b].epoch => a = b
  <2>1. CASE u = t
    <3>1. AttemptsOf(u)' = {} /\ tasks'[u].epoch = 0
      BY <1>1, <1>2, <2>1
    <3>2. 1 .. tasks'[u].epoch = {}
      BY <3>1
    <3>3. {attempts'[a].epoch : a \in AttemptsOf(u)'} = {}
      BY <3>1
    <3>4. QED
      BY <3>1, <3>2, <3>3
  <2>2. CASE u # t
    BY <1>1, <1>2, <2>2 DEF EpochFence, IsTask
  <2>3. QED
    BY <2>1, <2>2
<1>4. QED
  BY <1>3 DEF EpochFence, IsTask

\* A committed version keeps every epoch.
LEMMA CommitSpecificationFence ==
    ASSUME TypeOK, SessionsSound, EpochFence, NEW r \in Requests, CommitSpecification(r)
    PROVE  EpochFence'
<1>1. InFlight(r) /\ req[r].op = "specification" /\ attempts' = attempts
  BY DEF CommitSpecification, At
<1>2. PICK t \in Tasks : t = req[r].work /\ IsTask(t)
  BY <1>1, RequestKinds DEF SessionsSound, SessionSound
<1>3. PICK status, id : tasks' = [tasks EXCEPT ![t] =
                        [status |-> status, epoch |-> tasks[t].epoch, current |-> id]]
  BY <1>2 DEF CommitSpecification
<1>4. tasks'[t].epoch = tasks[t].epoch /\ \A u \in Tasks : u # t => tasks'[u] = tasks[u]
  BY <1>3 DEF TypeOK
<1>5. tasks'[t] # NoRow
  BY <1>2, CommitSpecificationGrows DEF TablesGrow
<1>6. QED
  BY <1>1, <1>2, <1>4, <1>5, KeepFence DEF IsTask

\* Every step keeps the epoch fence.
LEMMA FenceStep == Inv /\ [Next]_vars => EpochFence'
<1> SUFFICES ASSUME TypeOK, SessionsSound, EpochFence, [Next]_vars
             PROVE  EpochFence'
  BY DEF Inv
<1>1. CASE UNCHANGED vars
  BY <1>1, KeepFence DEF vars, IsTask
<1>2. ASSUME NEW t \in Tasks, CreateTask(t)
      PROVE  EpochFence'
  BY <1>2, CreateTaskFence
<1>3. ASSUME NEW r \in Requests, Begin(r) \/ Proceed(r) \/ Abort(r)
      PROVE  EpochFence'
  <2>1. CASE tasks' = tasks /\ attempts' = attempts
    BY <2>1, KeepFence DEF IsTask
  <2>2. CASE InFlight(r) /\ PersistReadiness(r)
    BY <2>2, PersistReadinessRows, KeepFence DEF SameButStatus
  <2>3. CASE CommitSpecification(r)
    BY <2>3, CommitSpecificationFence
  <2>4. CASE CommitAttempt(r)
    BY <2>4, CommitAttemptFence
  <2>5. QED
    BY <1>3, <2>1, <2>2, <2>3, <2>4
       DEF Begin, BeginSpecification, BeginReadiness, BeginStart, Load, Proceed, Abort, Rollback,
           RejectReferences, ReadLatestVersion, ConflictSpecification, AnswerReadiness, GateStart,
           AdmitStart, RefuseStart, ConflictAttempt, At
<1>4. QED
  BY <1>1, <1>2, <1>3 DEF Next

\* The invariant is inductive.
LEMMA InvStep == Inv /\ [Next]_vars => Inv'
BY TypeStep, SessionsStep, FenceStep DEF Inv

\* The invariant holds in every reachable state.
LEMMA InvHolds == Spec => []Inv
BY InitInv, InvStep, PTL DEF Spec

\* In every reachable state the tables and the requests in flight have their
\* types, for any number of tasks, rows and concurrent requests.
THEOREM TypeCorrect == Spec => []TypeOK
<1>1. Inv => TypeOK
  BY DEF Inv
<1>2. QED
  BY <1>1, InvHolds, PTL

\* The epochs of a task's attempts are always exactly 1 .. ownership_epoch,
\* each of one attempt (UNIQUE (work_id, ownership_epoch) and the increment of
\* _start_attempt), for any number of concurrent starts.
THEOREM EpochFenceHolds == Spec => []EpochFence
<1>1. Inv => EpochFence
  BY DEF Inv
<1>2. QED
  BY <1>1, InvHolds, PTL

\* The stale copy of a task that a request works on is never ahead of the
\* tables, and its gate's verdict stays true until it inserts.
THEOREM SessionsSoundHolds == Spec => []SessionsSound
<1>1. Inv => SessionsSound
  BY DEF Inv
<1>2. QED
  BY <1>1, InvHolds, PTL

-----------------------------------------------------------------------------
(* Fail-closed starts.  A gate's verdict is about immutable rows, so it    *)
(* still holds when the attempt is inserted, and ever after.               *)

\* What AttemptOnSatisfiedInput says of the row of one attempt.
InputSatisfied(row) ==
    /\ IsSpec(row.spec)
    /\ specs[row.spec].work = row.work
    /\ specs[row.spec].content \in Satisfied
    /\ row.config = ActorOf[specs[row.spec].content]
    /\ row.input = specs[row.spec].content

\* A step that keeps the attempts and the specifications there are.
LEMMA KeepInputs ==
    ASSUME TypeOK, AttemptOnSatisfiedInput, attempts' = attempts,
           \A s \in SpecIds : IsSpec(s) => specs'[s] = specs[s]
    PROVE  AttemptOnSatisfiedInput'
<1>1. ASSUME NEW a \in AttemptIds, IsAttempt(a)
      PROVE  /\ specs'[attempts[a].spec] = specs[attempts[a].spec]
             /\ IsSpec(attempts[a].spec)
  <2>1. attempts[a].spec \in SpecIds
    BY <1>1, RowTypes DEF AttemptRow
  <2>2. QED
    BY <1>1, <2>1 DEF AttemptOnSatisfiedInput
<1>2. QED
  BY <1>1 DEF AttemptOnSatisfiedInput, IsAttempt, IsSpec

\* An attempt is inserted with the input, and the actor configuration, of the
\* specification its gate judged.
LEMMA CommitAttemptInput ==
    ASSUME TypeOK, SessionsSound, AttemptOnSatisfiedInput, NEW r \in Requests, CommitAttempt(r)
    PROVE  AttemptOnSatisfiedInput'
<1> DEFINE q == req[r]
           row == [work |-> q.work, spec |-> Input(q), config |-> ConfigOf(q),
                   input |-> specs[Input(q)].content, epoch |-> q.task.epoch + 1,
                   status |-> StartTransition.attempt]
<1>1. InFlight(r) /\ q.op = "start" /\ q.pc # "loaded"
  BY DEF CommitAttempt, At
<1>2. q.id \in AttemptIds
  BY <1>1, RequestKinds DEF StartRequest
<1>3. specs' = specs /\ \A a \in AttemptIds : attempts'[a] = IF a = q.id THEN row ELSE attempts[a]
  BY <1>2 DEF CommitAttempt, TypeOK
<1>4. InputSatisfied(row)
  <2>1. IsSpec(Input(q)) /\ specs[Input(q)].work = q.work /\ specs[Input(q)].content \in Satisfied
    BY <1>1, InputRow DEF SpecsOf
  <2>2. QED
    BY <2>1 DEF InputSatisfied, ConfigOf
<1> HIDE DEF row
<1>5. ASSUME NEW a \in AttemptIds, attempts'[a] # NoRow
      PROVE  InputSatisfied(attempts'[a])
  <2>1. CASE a = q.id
    BY <1>3, <1>4, <2>1
  <2>2. CASE a # q.id
    BY <1>3, <1>5, <2>2 DEF AttemptOnSatisfiedInput, IsAttempt, InputSatisfied
  <2>3. QED
    BY <2>1, <2>2
<1>6. QED
  BY <1>3, <1>5 DEF AttemptOnSatisfiedInput, IsAttempt, InputSatisfied, IsSpec

\* Every step keeps the attempts on satisfied inputs.
LEMMA InputStep == Inv /\ AttemptOnSatisfiedInput /\ [Next]_vars => AttemptOnSatisfiedInput'
<1> SUFFICES ASSUME TypeOK, SessionsSound, AttemptOnSatisfiedInput, [Next]_vars
             PROVE  AttemptOnSatisfiedInput'
  BY DEF Inv
<1>1. CASE attempts' = attempts /\ specs' = specs
  BY <1>1, KeepInputs
<1>2. ASSUME NEW r \in Requests, CommitSpecification(r)
      PROVE  AttemptOnSatisfiedInput'
  BY <1>2, CommitSpecificationGrows, KeepInputs DEF TablesGrow, CommitSpecification
<1>3. ASSUME NEW r \in Requests, CommitAttempt(r)
      PROVE  AttemptOnSatisfiedInput'
  BY <1>3, CommitAttemptInput
<1>4. QED
  BY <1>1, <1>2, <1>3
     DEF Next, vars, CreateTask, Begin, BeginSpecification, BeginReadiness, BeginStart, Load,
         Proceed, Abort, Rollback, RejectReferences, ReadLatestVersion, ConflictSpecification,
         AnswerReadiness, PersistReadiness, GateStart, AdmitStart, RefuseStart, ConflictAttempt

\* Every attempt is bound to a specification of its own task that met every
\* readiness policy, and carries that specification's actor configuration and
\* content hash (the gate and the insert of _start_attempt), whatever other
\* requests commit in between.
THEOREM StartsAreFailClosed == Spec => []AttemptOnSatisfiedInput
<1>1. Init => AttemptOnSatisfiedInput
  BY DEF Init, AttemptOnSatisfiedInput, IsAttempt
<1>2. QED
  BY <1>1, InputStep, InvHolds, PTL DEF Spec

-----------------------------------------------------------------------------
(* Versions.  A commit succeeds only when its version is free; the         *)
(* versions being 1 .. n, the max(version) it read is then still n, so its *)
(* blind write of the pointer points at the new latest version.            *)

\* No specification row outlives or precedes its task.
SpecsHaveTasks == \A t \in Tasks : SpecsOf(t) # {} => IsTask(t)

\* The version whose successor is free is the latest one.
LEMMA FreeVersion ==
    ASSUME TypeOK, CurrentIsLatest, NEW t \in Tasks,
           NEW n \in VersionsOf(t) \cup {0}, ~VersionTaken(t, n + 1)
    PROVE  /\ n \in Nat
           /\ \A s \in SpecsOf(t) : specs[s].version <= n
           /\ 1 .. n \subseteq VersionsOf(t)
<1>1. \A s \in SpecsOf(t) : specs[s].version \in Nat \ {0}
  BY RowTypes DEF SpecsOf, SpecRow
<1>2. n \in Nat
  BY <1>1 DEF VersionsOf
<1>3. ASSUME NEW s \in SpecsOf(t)
      PROVE  specs[s].version <= n
  <2>1. 1 .. specs[s].version \subseteq VersionsOf(t) /\ n + 1 \notin VersionsOf(t)
    BY DEF CurrentIsLatest, VersionTaken
  <2>2. n + 1 \notin 1 .. specs[s].version
    BY <2>1
  <2>3. QED
    BY <1>1, <1>2, <2>2
<1>4. 1 .. n \subseteq VersionsOf(t)
  <2>1. CASE n = 0
    BY <2>1
  <2>2. CASE n # 0
    <3>1. PICK s \in SpecsOf(t) : n = specs[s].version
      BY <2>2 DEF VersionsOf
    <3>2. QED
      BY <3>1 DEF CurrentIsLatest
  <2>3. QED
    BY <2>1, <2>2
<1>5. QED
  BY <1>2, <1>3, <1>4

\* A step that keeps the specifications and the pointers.
LEMMA KeepVersions ==
    ASSUME CurrentIsLatest, SpecsHaveTasks, specs' = specs,
           \A t \in Tasks : IsTask(t) => /\ tasks'[t] # NoRow
                                         /\ tasks'[t].current = tasks[t].current
    PROVE  CurrentIsLatest' /\ SpecsHaveTasks'
<1>1. \A t \in Tasks : SpecsOf(t)' = SpecsOf(t) /\ VersionsOf(t)' = VersionsOf(t)
  BY DEF SpecsOf, VersionsOf, IsSpec
<1>2. SpecsHaveTasks'
  BY <1>1 DEF SpecsHaveTasks, IsTask
<1>3. \A t \in Tasks : SpecsOf(t) # {} => tasks'[t].current = tasks[t].current
  BY DEF SpecsHaveTasks
<1>4. QED
  BY <1>1, <1>2, <1>3 DEF CurrentIsLatest

\* A committed version extends 1 .. n to n + 1 and becomes the current one.
LEMMA CommitSpecificationVersions ==
    ASSUME TypeOK, SessionsSound, CurrentIsLatest, SpecsHaveTasks,
           NEW r \in Requests, CommitSpecification(r)
    PROVE  CurrentIsLatest' /\ SpecsHaveTasks'
<1>1. InFlight(r) /\ req[r].op = "specification"
  BY DEF CommitSpecification, At
<1>2. PICK t \in Tasks, id \in SpecIds, n \in VersionsOf(req[r].work) \cup {0} :
        t = req[r].work /\ id = req[r].id /\ n = req[r].latest
  BY <1>1, RequestKinds DEF SpecificationRequest, SessionsSound, SessionSound
<1>3. IsTask(t) /\ ~IsSpec(id) /\ ~VersionTaken(t, n + 1)
  BY <1>1, <1>2 DEF SessionsSound, SessionSound, CommitSpecification
<1>4. /\ n \in Nat
      /\ \A s \in SpecsOf(t) : specs[s].version \in Nat /\ specs[s].version <= n
      /\ 1 .. n \subseteq VersionsOf(t)
  <2>1. n \in VersionsOf(t) \cup {0}
    BY <1>2
  <2>2. \A s \in SpecsOf(t) : specs[s].version \in Nat
    BY RowTypes DEF SpecsOf, SpecRow
  <2>3. QED
    BY <1>3, <2>1, <2>2, FreeVersion
<1>5. PICK row \in SpecRow :
        /\ row.work = t /\ row.version = n + 1
        /\ specs' = [specs EXCEPT ![id] = row]
  <2>1. req[r].content \in Contents
    BY <1>1, RequestKinds DEF SpecificationRequest
  <2>2. [work |-> t, version |-> n + 1, content |-> req[r].content] \in SpecRow
    BY <1>4, <2>1 DEF SpecRow
  <2>3. QED
    BY <1>2, <2>2 DEF CommitSpecification
<1>6. /\ \A s \in SpecIds : specs'[s] = IF s = id THEN row ELSE specs[s]
      /\ row # NoRow
  BY <1>5, NotNoRow DEF TypeOK
<1>7. /\ tasks'[t].current = id
      /\ \A u \in Tasks : u # t => tasks'[u] = tasks[u]
  BY <1>2 DEF CommitSpecification, TypeOK
<1>8. \A u \in Tasks : SpecsOf(u)' = IF u = t THEN SpecsOf(t) \cup {id} ELSE SpecsOf(u)
  BY <1>3, <1>5, <1>6 DEF SpecsOf, IsSpec
<1>9. id \notin SpecsOf(t) /\ \A u \in Tasks : \A s \in SpecsOf(u) : specs'[s] = specs[s]
  BY <1>3, <1>6 DEF SpecsOf
<1>10. VersionsOf(t)' = VersionsOf(t) \cup {n + 1}
  BY <1>5, <1>6, <1>8, <1>9 DEF VersionsOf
<1>11. \A u \in Tasks : u # t => VersionsOf(u)' = VersionsOf(u)
  BY <1>8, <1>9 DEF VersionsOf
<1>12. SpecsHaveTasks'
  BY <1>2, <1>3, <1>7, <1>8, CommitSpecificationGrows DEF SpecsHaveTasks, IsTask, TablesGrow
<1>13. ASSUME NEW u \in Tasks
       PROVE  /\ \A s1, s2 \in SpecsOf(u)' : specs'[s1].version = specs'[s2].version => s1 = s2
              /\ \A s \in SpecsOf(u)' : 1 .. specs'[s].version \subseteq VersionsOf(u)'
              /\ SpecsOf(u)' # {} => /\ tasks'[u].current \in SpecsOf(u)'
                                     /\ \A s \in SpecsOf(u)' :
                                          specs'[s].version <= specs'[tasks'[u].current].version
  <2>1. CASE u # t
    <3>1. SpecsOf(u)' = SpecsOf(u) /\ VersionsOf(u)' = VersionsOf(u) /\ tasks'[u] = tasks[u]
      BY <1>7, <1>8, <1>11, <2>1
    <3>2. \A s \in SpecsOf(u) : specs'[s] = specs[s]
      BY <1>9
    <3>3. QED
      BY <3>1, <3>2 DEF CurrentIsLatest
  <2>2. CASE u = t
    <3>1. SpecsOf(u)' = SpecsOf(t) \cup {id} /\ specs'[id].version = n + 1
      BY <1>5, <1>6, <1>8, <2>2
    <3>2. \A s \in SpecsOf(t) : specs'[s].version = specs[s].version /\ specs[s].version <= n
      BY <1>4, <1>9
    <3>3. \A s1, s2 \in SpecsOf(u)' : specs'[s1].version = specs'[s2].version => s1 = s2
      BY <1>4, <3>1, <3>2 DEF CurrentIsLatest
    <3>4. \A s \in SpecsOf(u)' : 1 .. specs'[s].version \subseteq VersionsOf(u)'
      <4>1. 1 .. n + 1 \subseteq VersionsOf(u)'
        BY <1>4, <1>10, <2>2
      <4>2. QED
        BY <1>4, <1>10, <2>2, <3>1, <3>2, <4>1 DEF CurrentIsLatest
    <3>5. \A s \in SpecsOf(u)' : specs'[s].version <= specs'[id].version
      BY <1>4, <3>1, <3>2
    <3>6. QED
      BY <1>7, <2>2, <3>1, <3>3, <3>4, <3>5
  <2>3. QED
    BY <2>1, <2>2
<1>14. QED
  BY <1>12, <1>13 DEF CurrentIsLatest

\* Every step keeps the versions gapless and the pointer on the latest.
LEMMA VersionsStep ==
    Inv /\ CurrentIsLatest /\ SpecsHaveTasks /\ [Next]_vars => CurrentIsLatest' /\ SpecsHaveTasks'
<1> SUFFICES ASSUME TypeOK, SessionsSound, EpochFence, CurrentIsLatest, SpecsHaveTasks, [Next]_vars
             PROVE  CurrentIsLatest' /\ SpecsHaveTasks'
  BY DEF Inv
<1>1. CASE UNCHANGED vars
  BY <1>1, KeepVersions DEF vars, IsTask
<1>2. ASSUME NEW t \in Tasks, CreateTask(t)
      PROVE  CurrentIsLatest' /\ SpecsHaveTasks'
  BY <1>2, KeepVersions DEF CreateTask, TypeOK, IsTask
<1>3. ASSUME NEW r \in Requests, Begin(r) \/ Proceed(r) \/ Abort(r)
      PROVE  CurrentIsLatest' /\ SpecsHaveTasks'
  <2>1. CASE tasks' = tasks /\ specs' = specs
    BY <2>1, KeepVersions DEF IsTask
  <2>2. CASE InFlight(r) /\ PersistReadiness(r)
    BY <2>2, PersistReadinessRows, KeepVersions DEF SameButStatus, PersistReadiness
  <2>3. CASE CommitSpecification(r)
    BY <2>3, CommitSpecificationVersions
  <2>4. CASE CommitAttempt(r)
    <3>1. PICK t \in Tasks : t = req[r].work
      BY <2>4, RequestKinds DEF CommitAttempt, At
    <3>2. QED
      BY <2>4, <3>1, CommitAttemptTask, KeepVersions DEF CommitAttempt, IsTask
  <2>5. QED
    BY <1>3, <2>1, <2>2, <2>3, <2>4
       DEF Begin, BeginSpecification, BeginReadiness, BeginStart, Load, Proceed, Abort, Rollback,
           RejectReferences, ReadLatestVersion, ConflictSpecification, AnswerReadiness, GateStart,
           AdmitStart, RefuseStart, ConflictAttempt, At
<1>4. QED
  BY <1>1, <1>2, <1>3 DEF Next

\* The versions of a task are always 1 .. n, each of one row, and
\* current_specification_id points at version n (max(version) + 1 under
\* UNIQUE (task_id, version) in _create_task_specification), for any number
\* of concurrent writers that read the maximum in an earlier statement.
THEOREM CurrentIsLatestHolds == Spec => []CurrentIsLatest
<1>1. Init => CurrentIsLatest /\ SpecsHaveTasks
  BY DEF Init, CurrentIsLatest, SpecsHaveTasks, SpecsOf, IsSpec
<1>2. QED
  BY <1>1, VersionsStep, InvHolds, PTL DEF Spec

=============================================================================
