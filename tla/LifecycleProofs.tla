--------------------------- MODULE LifecycleProofs ---------------------------
(***************************************************************************)
(* Theorems about Lifecycle, for any number of tasks, agents, versions,    *)
(* attempts and reports.  LifeInv conjoins the invariants that the runs    *)
(* check with two facts they rest on: the registry's own invariant and     *)
(* that every report is of an attempt that exists and says what the model  *)
(* claimed.  What lets the parts keep one another is that nothing is ever  *)
(* taken back: rows of configurations never change, versions are appended, *)
(* a completed task stays completed, hence what was satisfied stays so.    *)
(***************************************************************************)
EXTENDS Lifecycle, RegistryProofs, FiniteSetTheorems, SequenceTheorems

ReportsSound ==
    \A r \in reports : r.epoch \in Epochs(r.work) /\ r.status = r.outcome

Sound == TypeOK /\ RegistryInv /\ ReportsSound

LifeInv ==
    /\ Sound
    /\ StatusMatchesAttempts
    /\ OutcomesAreClaimed
    /\ AttemptsStayJustified
    /\ ReadyStaysEarned
    /\ StartedDependenciesAcyclic
    /\ SlotsRespected

\* A step of the registry, or of nothing.
QuietStep == [RegistryNext]_registry /\ UNCHANGED work

-----------------------------------------------------------------------------
(* What the steps do to the attempts.                                      *)

\* A new attempt is the last of its task; the others stay as they are.
LEMMA StartEffect ==
  ASSUME TypeOK, NEW t \in Tasks, NEW a \in Attempt,
         attempts' = [attempts EXCEPT ![t] = Append(@, a)]
  PROVE  /\ attempts' \in [Tasks -> Seq(Attempt)]
         /\ \A u \in Tasks : u # t => attempts'[u] = attempts[u]
         /\ \A e : e \in Epochs(t)' <=> e \in Epochs(t) \/ e = Len(attempts[t]) + 1
         /\ \A e \in Epochs(t) : attempts'[t][e] = attempts[t][e]
         /\ attempts'[t][Len(attempts[t]) + 1] = a
<1>1. attempts[t] \in Seq(Attempt)
  BY DEF TypeOK
<1>2. /\ attempts'[t] = Append(attempts[t], a)
      /\ \A u \in Tasks : u # t => attempts'[u] = attempts[u]
  BY DEF TypeOK
<1>3. /\ attempts'[t] \in Seq(Attempt)
      /\ Len(attempts'[t]) = Len(attempts[t]) + 1
      /\ \A e \in Epochs(t) : attempts'[t][e] = attempts[t][e]
      /\ attempts'[t][Len(attempts[t]) + 1] = a
  BY <1>1, <1>2, AppendProperties DEF Epochs
<1>4. Len(attempts[t]) \in Nat
  BY <1>1, LenProperties
<1>5. \A e : e \in Epochs(t)' <=> e \in Epochs(t) \/ e = Len(attempts[t]) + 1
  BY <1>3, <1>4 DEF Epochs
<1>6. attempts' \in [Tasks -> Seq(Attempt)]
  BY <1>2, <1>3 DEF TypeOK
<1> QED
  BY <1>2, <1>3, <1>5, <1>6

\* A report or a review changes the status of one attempt.
Moves(t, e, s) == attempts' = [attempts EXCEPT ![t][e].status = s]

\* It leaves every other attempt and the rest of that one as they are.
LEMMA MoveEffect ==
  ASSUME TypeOK, NEW t \in Tasks, NEW e \in Epochs(t), NEW s \in AttemptStatus,
         Moves(t, e, s)
  PROVE  /\ attempts' \in [Tasks -> Seq(Attempt)]
         /\ \A u \in Tasks : u # t => attempts'[u] = attempts[u]
         /\ \A u \in Tasks : Epochs(u)' = Epochs(u)
         /\ \A f \in Epochs(t) : f # e => attempts'[t][f] = attempts[t][f]
         /\ attempts'[t][e].version = attempts[t][e].version
         /\ attempts'[t][e].config = attempts[t][e].config
         /\ attempts'[t][e].status = s
<1> DEFINE moved == [attempts[t][e] EXCEPT !.status = s]
<1>1. attempts[t] \in Seq(Attempt)
  BY DEF TypeOK
<1>2. e \in 1 .. Len(attempts[t])
  BY DEF Epochs
<1>3. attempts[t][e] \in Attempt
  BY <1>1, <1>2, ElementOfSeq
<1>4. /\ moved \in Attempt
      /\ moved.version = attempts[t][e].version
      /\ moved.config = attempts[t][e].config
      /\ moved.status = s
  BY <1>3 DEF Attempt
<1>5. /\ attempts'[t] = [attempts[t] EXCEPT ![e] = moved]
      /\ \A u \in Tasks : u # t => attempts'[u] = attempts[u]
      /\ attempts' = [attempts EXCEPT ![t] = [attempts[t] EXCEPT ![e] = moved]]
  BY DEF TypeOK, Moves
<1> HIDE DEF moved
<1>6. /\ attempts'[t] \in Seq(Attempt)
      /\ Len(attempts'[t]) = Len(attempts[t])
      /\ \A f \in 1 .. Len(attempts[t]) :
            attempts'[t][f] = IF f = e THEN moved ELSE attempts[t][f]
  BY <1>1, <1>2, <1>4, <1>5, ExceptSeq
<1>7. attempts' \in [Tasks -> Seq(Attempt)]
  BY <1>5, <1>6 DEF TypeOK
<1>8. \A u \in Tasks : Epochs(u)' = Epochs(u)
  BY <1>5, <1>6 DEF Epochs
<1>9. \A f \in Epochs(t) : f # e => attempts'[t][f] = attempts[t][f]
  BY <1>6 DEF Epochs
<1>10. attempts'[t][e] = moved
  BY <1>2, <1>6
<1> QED
  BY <1>4, <1>5, <1>7, <1>8, <1>9, <1>10

\* The attempt of a start is on the last version.
LEMMA StartedAttempt ==
  ASSUME TypeOK, NEW t \in Tasks, Start(t)
  PROVE  LET a == [version |-> Len(versions[t]), config |-> ConfigOf(Current(t)),
                   status |-> "running"]
         IN  /\ a \in Attempt
             /\ attempts' = [attempts EXCEPT ![t] = Append(@, a)]
             /\ Len(versions[t]) \in 1 .. Len(versions[t])
             /\ Current(t) \in Version
<1>1. versions[t] \in Seq(Version) /\ versions[t] # <<>>
  BY DEF TypeOK, Start, IsReady
<1>2. Len(versions[t]) \in Nat \ {0}
  BY <1>1, EmptySeq, LenProperties
<1>3. Current(t) \in Version
  BY <1>1, <1>2, ElementOfSeq DEF Current
<1>4. Current(t).actor \in ConfigIds
  BY <1>3 DEF Version
<1> QED
  BY <1>2, <1>3, <1>4 DEF Start, Attempt, AttemptStatus, ConfigOf

\* What a report that can be applied does.
LEMMA ReportedMove ==
  ASSUME Sound, NEW r \in reports, ApplyReport(r)
  PROVE  /\ r.work \in Tasks /\ r.epoch \in Epochs(r.work)
         /\ \/ /\ r.outcome = "candidate_ready"
               /\ status' = [status EXCEPT ![r.work] = "awaiting_review"]
               /\ Moves(r.work, r.epoch, "candidate")
            \/ /\ r.outcome = "blocked"
               /\ status' = [status EXCEPT ![r.work] = "in_progress"]
               /\ Moves(r.work, r.epoch, "blocked")
<1>1. r \in Report /\ r.status = r.outcome /\ r.epoch \in Epochs(r.work)
  BY DEF Sound, TypeOK, ReportsSound
<1>2. r.work \in Tasks /\ r.status \in {"candidate_ready", "blocked"}
  BY <1>1 DEF Report, ActorResultStatus
<1> QED
  BY <1>1, <1>2 DEF ApplyReport, ReportTransition, Moves

-----------------------------------------------------------------------------
(* Types, and the reports.                                                 *)

\* Every operation on tasks keeps the types and writes reports that are sound.
LEMMA WorkSound ==
  ASSUME Sound, WorkNext
  PROVE  Sound'
<1> USE DEF Sound
<1>1. UNCHANGED registry
  BY DEF WorkNext, CreateTask, CreateSpecification, Evaluate, Start, Accept, Execute, ApplyReport
<1>2. RegistryInv'
  BY <1>1, RegistryStepInv
<1>3. RegistryTypeOK'
  BY <1>2 DEF RegistryInv
<1>4. ASSUME UNCHANGED <<attempts, reports>>
      PROVE  ReportsSound' /\ (attempts \in [Tasks -> Seq(Attempt)])' /\ (reports \subseteq Report)'
  BY <1>4 DEF ReportsSound, Epochs, TypeOK
<1>5. ASSUME NEW t \in Tasks, CreateTask(t) \/ Evaluate(t)
      PROVE  Sound'
  BY <1>5, <1>2, <1>3, <1>4 DEF CreateTask, Evaluate, AfterReadiness, TypeOK, TaskStatus
<1>6. ASSUME NEW t \in Tasks, NEW v \in Commands, CreateSpecification(t, v)
      PROVE  Sound'
  <2>1. versions[t] \in Seq(Version) /\ v \in Version
    BY CommandsAssumption DEF TypeOK
  <2>2. Append(versions[t], v) \in Seq(Version)
    BY <2>1, AppendProperties
  <2> QED
    BY <1>6, <2>2, <1>2, <1>3, <1>4 DEF CreateSpecification, AfterSpecification, TypeOK, TaskStatus
<1>7. ASSUME NEW t \in Tasks, Start(t)
      PROVE  Sound'
  <2> DEFINE a == [version |-> Len(versions[t]), config |-> ConfigOf(Current(t)),
                   status |-> "running"]
  <2>1. a \in Attempt /\ attempts' = [attempts EXCEPT ![t] = Append(@, a)]
    BY <1>7, StartedAttempt
  <2> HIDE DEF a
  <2>2. /\ attempts' \in [Tasks -> Seq(Attempt)]
        /\ \A u \in Tasks : u # t => attempts'[u] = attempts[u]
        /\ \A e : e \in Epochs(t)' <=> e \in Epochs(t) \/ e = Len(attempts[t]) + 1
    BY <2>1, StartEffect
  <2>3. ReportsSound'
    BY <1>7, <2>2 DEF Start, ReportsSound, Epochs, TypeOK, Report
  <2> QED
    BY <1>7, <1>2, <1>3, <2>2, <2>3 DEF Start, TypeOK, TaskStatus
<1>8. ASSUME NEW t \in Tasks, NEW e \in Epochs(t), Accept(t, e)
      PROVE  Sound'
  <2> DEFINE s == "accepted"
  <2>0. s \in AttemptStatus /\ Moves(t, e, s)
    BY <1>8 DEF Accept, AttemptStatus, Moves
  <2> HIDE DEF s
  <2>1. /\ attempts' \in [Tasks -> Seq(Attempt)]
        /\ \A u \in Tasks : Epochs(u)' = Epochs(u)
    BY <2>0, MoveEffect
  <2>2. ReportsSound'
    BY <1>8, <2>1 DEF Accept, ReportsSound, TypeOK, Report
  <2> QED
    BY <1>8, <1>2, <1>3, <2>1, <2>2 DEF Accept, TypeOK, TaskStatus
<1>9. ASSUME NEW t \in Tasks, NEW e \in Epochs(t), NEW o \in Outcome, Execute(t, e, o)
      PROVE  Sound'
  <2> DEFINE r == [work |-> t, epoch |-> e, outcome |-> o, status |-> AdapterReturns(o)]
  <2>1. AdapterReturns(o) = o /\ o \in ActorResultStatus
    BY <1>9 DEF Execute, AdapterReturns
  <2>2. Len(attempts[t]) \in Nat
    BY LenProperties DEF TypeOK
  <2>3. r \in Report /\ r.epoch \in Epochs(r.work) /\ r.status = r.outcome
    BY <2>1, <2>2 DEF Report, Epochs
  <2>4. reports' = reports \cup {r} /\ UNCHANGED <<status, versions, attempts>>
    BY <1>9 DEF Execute
  <2> HIDE DEF r
  <2>5. ReportsSound'
    BY <2>3, <2>4 DEF ReportsSound, Epochs
  <2> QED
    BY <1>2, <1>3, <2>3, <2>4, <2>5 DEF TypeOK
<1>10. ASSUME NEW r \in reports, ApplyReport(r)
       PROVE  Sound'
  <2>1. /\ r.work \in Tasks /\ r.epoch \in Epochs(r.work)
        /\ \E s \in AttemptStatus : Moves(r.work, r.epoch, s)
        /\ \E s \in TaskStatus : status' = [status EXCEPT ![r.work] = s]
    BY <1>10, ReportedMove DEF AttemptStatus, TaskStatus
  <2>2. /\ attempts' \in [Tasks -> Seq(Attempt)]
        /\ \A u \in Tasks : Epochs(u)' = Epochs(u)
    BY <2>1, MoveEffect
  <2>3. ReportsSound'
    BY <1>10, <2>2 DEF ApplyReport, ReportsSound, TypeOK, Report
  <2>4. status' \in [Tasks -> TaskStatus]
    BY <2>1 DEF TypeOK
  <2> QED
    BY <1>10, <1>2, <1>3, <2>2, <2>3, <2>4 DEF ApplyReport, TypeOK
<1> QED
  BY <1>5, <1>6, <1>7, <1>8, <1>9, <1>10 DEF WorkNext

\* A quiet step keeps them too.
LEMMA QuietSound ==
  ASSUME Sound, QuietStep
  PROVE  Sound'
<1>1. RegistryInv'
  BY RegistryStepInv DEF Sound, QuietStep
<1> QED
  BY <1>1 DEF Sound, QuietStep, work, TypeOK, RegistryInv, ReportsSound, Epochs

-----------------------------------------------------------------------------
(* What is never taken back.                                               *)

\* The row of a configuration never changes.
LEMMA ConfigurationsStay ==
  ASSUME Sound, [RegistryNext]_registry, NEW c \in ConfigIds, IsConfig(c)
  PROVE  configurations'[c] = configurations[c]
<1>1. CASE \E r \in Calls : CommitConfiguration(r)
  BY <1>1, CommitExtends DEF Sound
<1>2. CASE ~ \E r \in Calls : CommitConfiguration(r)
  BY <1>2 DEF RegistryNext, registry, CreateProject, CreateAgent, CreateRepository,
              BeginConfiguration, AbandonConfiguration
<1> QED
  BY <1>1, <1>2

\* A completed task stays completed.
LEMMA CompletedStays ==
  ASSUME TypeOK, NEW t \in Tasks, status[t] = "completed",
         ReportsSound, QuietStep \/ WorkNext
  PROVE  status'[t] = "completed" /\ attempts'[t] = attempts[t]
<1>1. CASE QuietStep
  BY <1>1 DEF QuietStep, work
<1>2. ASSUME NEW u \in Tasks, CreateTask(u) \/ (\E v \in Commands : CreateSpecification(u, v)) \/ Evaluate(u)
      PROVE  status'[t] = "completed" /\ attempts'[t] = attempts[t]
  BY <1>2 DEF CreateTask, CreateSpecification, Evaluate, IsTask, AfterSpecification,
              AfterReadiness, TypeOK
<1>3. ASSUME NEW u \in Tasks, Start(u)
      PROVE  status'[t] = "completed" /\ attempts'[t] = attempts[t]
  BY <1>3 DEF Start, Startable, AfterReadiness, TypeOK
<1>4. ASSUME NEW u \in Tasks, NEW e \in Epochs(u), Accept(u, e)
      PROVE  status'[t] = "completed" /\ attempts'[t] = attempts[t]
  BY <1>4 DEF Accept, Acceptable, TypeOK
<1>5. ASSUME NEW u \in Tasks, NEW e \in Epochs(u), NEW o \in Outcome, Execute(u, e, o)
      PROVE  status'[t] = "completed" /\ attempts'[t] = attempts[t]
  BY <1>5 DEF Execute
<1>6. ASSUME NEW r \in reports, ApplyReport(r)
      PROVE  status'[t] = "completed" /\ attempts'[t] = attempts[t]
  BY <1>6 DEF ApplyReport, Reportable, TypeOK
<1> QED
  BY <1>1, <1>2, <1>3, <1>4, <1>5, <1>6 DEF WorkNext

\* A specification that meets its policies meets them for ever.
LEMMA SatisfiedStays ==
  ASSUME Sound, QuietStep \/ WorkNext, NEW v \in Version, Satisfied(v)
  PROVE  Satisfied(v)'
<1>1. [RegistryNext]_registry
  BY DEF QuietStep, WorkNext, CreateTask, CreateSpecification, Evaluate, Start, Accept,
         Execute, ApplyReport
<1>2. \A c \in ConfigIds, role \in Role : Eligible(c, role) => Eligible(c, role)'
  BY <1>1, ConfigurationsStay DEF Eligible, IsConfig
<1>3. \A d \in Tasks : DependencyDone(d) => DependencyDone(d)'
  BY CompletedStays DEF DependencyDone, Sound
<1>4. v.actor \in ConfigIds /\ v.reviewer \in ConfigIds /\ v.dependencies \subseteq Tasks
  BY DEF Version
<1> QED
  BY <1>2, <1>3, <1>4 DEF Satisfied, Role

\* Versions are appended.
LEMMA VersionsStay ==
  ASSUME Sound, QuietStep \/ WorkNext, NEW t \in Tasks, NEW n \in 1 .. Len(versions[t])
  PROVE  /\ n \in 1 .. Len(versions'[t])
         /\ versions'[t][n] = versions[t][n]
         /\ versions[t][n] \in Version
<1>1. versions[t] \in Seq(Version) /\ Len(versions[t]) \in Nat
  BY LenProperties DEF Sound, TypeOK
<1>2. versions[t][n] \in Version
  BY <1>1, ElementOfSeq
<1>3. CASE \E u \in Tasks, v \in Commands : CreateSpecification(u, v)
  <2>1. PICK u \in Tasks, v \in Commands : CreateSpecification(u, v)
    BY <1>3
  <2>2. CASE u = t
    <3>1. versions'[t] = Append(versions[t], v) /\ v \in Version
      BY <2>1, <2>2, CommandsAssumption DEF CreateSpecification, Sound, TypeOK
    <3>2. Len(versions'[t]) = Len(versions[t]) + 1 /\ versions'[t][n] = versions[t][n]
      BY <1>1, <3>1, AppendProperties
    <3> QED
      BY <1>1, <1>2, <3>2
  <2>3. CASE u # t
    BY <2>1, <2>3, <1>2 DEF CreateSpecification, Sound, TypeOK
  <2> QED
    BY <2>2, <2>3
<1>4. CASE ~ \E u \in Tasks, v \in Commands : CreateSpecification(u, v)
  <2>1. UNCHANGED versions
    BY <1>4 DEF QuietStep, work, WorkNext, CreateTask, Evaluate, Start, Accept, Execute, ApplyReport
  <2> QED
    BY <2>1, <1>2
<1> QED
  BY <1>3, <1>4

-----------------------------------------------------------------------------
(* The statuses of a task and of its attempts.                             *)

\* A task without a candidate or an accepted attempt gets none by a start.
LEMMA StatusAfterStart ==
  ASSUME Sound, StatusMatchesAttempts, NEW t \in Tasks, Start(t)
  PROVE  StatusMatchesAttempts'
<1> DEFINE a == [version |-> Len(versions[t]), config |-> ConfigOf(Current(t)), status |-> "running"]
<1>1. a \in Attempt /\ a.status = "running" /\ attempts' = [attempts EXCEPT ![t] = Append(@, a)]
  BY StartedAttempt DEF Sound
<1> HIDE DEF a
<1>2. /\ \A u \in Tasks : u # t => attempts'[u] = attempts[u]
      /\ \A e : e \in Epochs(t)' <=> e \in Epochs(t) \/ e = Len(attempts[t]) + 1
      /\ \A e \in Epochs(t) : attempts'[t][e] = attempts[t][e]
      /\ attempts'[t][Len(attempts[t]) + 1] = a
  BY <1>1, StartEffect DEF Sound
<1>3. /\ status' = [status EXCEPT ![t] = "in_progress"]
      /\ status[t] \in {"draft", "ready", "in_progress"}
  BY DEF Start, Startable, AfterReadiness
<1>4. ASSUME NEW s \in {"candidate", "accepted"}
      PROVE  EpochsIn(t, s) = {} /\ EpochsIn(t, s)' = {}
  <2>1. EpochsIn(t, s) = {}
    BY <1>3 DEF StatusMatchesAttempts
  <2> QED
    BY <2>1, <1>1, <1>2 DEF EpochsIn
<1>5. ASSUME NEW u \in Tasks, u # t
      PROVE  /\ attempts'[u] = attempts[u] /\ status'[u] = status[u]
             /\ \A s : EpochsIn(u, s)' = EpochsIn(u, s)
  BY <1>2, <1>3, <1>5 DEF EpochsIn, Epochs, Sound, TypeOK
<1> QED
  BY <1>3, <1>4, <1>5 DEF StatusMatchesAttempts, Sound, TypeOK

\* A report that can be applied finds no candidate and leaves at most one.
LEMMA StatusAfterReport ==
  ASSUME Sound, StatusMatchesAttempts, NEW r \in reports, ApplyReport(r)
  PROVE  StatusMatchesAttempts'
<1> DEFINE t == r.work  e == r.epoch
<1>1. t \in Tasks /\ e \in Epochs(t)
  BY ReportedMove
<1>2. status[t] = "in_progress"
  BY DEF ApplyReport, Reportable
<1>3. PICK s \in {"candidate", "blocked"} :
        /\ Moves(t, e, s)
        /\ status' = [status EXCEPT ![t] = IF s = "candidate" THEN "awaiting_review" ELSE "in_progress"]
  BY ReportedMove
<1>4. s \in AttemptStatus
  BY DEF AttemptStatus
<1>5. /\ \A u \in Tasks : u # t => attempts'[u] = attempts[u]
      /\ \A u \in Tasks : Epochs(u)' = Epochs(u)
      /\ \A f \in Epochs(t) : f # e => attempts'[t][f] = attempts[t][f]
      /\ attempts'[t][e].status = s
  BY <1>1, <1>3, <1>4, MoveEffect DEF Sound
<1>6. EpochsIn(t, "candidate") = {} /\ EpochsIn(t, "accepted") = {}
  BY <1>1, <1>2 DEF StatusMatchesAttempts
<1>7. /\ EpochsIn(t, "candidate")' = IF s = "candidate" THEN {e} ELSE {}
      /\ EpochsIn(t, "accepted")' = {}
  BY <1>1, <1>5, <1>6 DEF EpochsIn
<1>8. ASSUME NEW u \in Tasks, u # t
      PROVE  /\ attempts'[u] = attempts[u] /\ status'[u] = status[u]
             /\ \A k : EpochsIn(u, k)' = EpochsIn(u, k)
  BY <1>3, <1>5, <1>8 DEF EpochsIn, Epochs, Sound, TypeOK
<1>9. status'[t] = IF s = "candidate" THEN "awaiting_review" ELSE "in_progress"
  BY <1>1, <1>3 DEF Sound, TypeOK
<1>10. ASSUME NEW u \in Tasks
       PROVE  /\ status'[u] \in {"none", "draft", "ready"} => attempts'[u] = <<>>
              /\ status'[u] = "awaiting_review" <=> EpochsIn(u, "candidate")' # {}
              /\ status'[u] = "completed" <=> EpochsIn(u, "accepted")' # {}
              /\ \A k \in {"candidate", "accepted"} : \A f, g \in EpochsIn(u, k)' : f = g
  <2>1. CASE u = t
    BY <2>1, <1>7, <1>9
  <2>2. CASE u # t
    BY <2>2, <1>8 DEF StatusMatchesAttempts
  <2> QED
    BY <2>1, <2>2
<1> QED
  BY <1>10 DEF StatusMatchesAttempts

\* A review turns the one candidate into the one accepted attempt.
LEMMA StatusAfterReview ==
  ASSUME Sound, StatusMatchesAttempts, NEW t \in Tasks, NEW e \in Epochs(t), Accept(t, e)
  PROVE  StatusMatchesAttempts'
<1> DEFINE s == "accepted"
<1>1. /\ s \in AttemptStatus /\ Moves(t, e, s)
      /\ status' = [status EXCEPT ![t] = "completed"]
      /\ status[t] = "awaiting_review" /\ e \in EpochsIn(t, "candidate")
  BY DEF Accept, Acceptable, AttemptStatus, EpochsIn, Moves
<1>2. s # "candidate"
  OBVIOUS
<1>3. /\ \A u \in Tasks : u # t => attempts'[u] = attempts[u]
      /\ \A u \in Tasks : Epochs(u)' = Epochs(u)
      /\ \A f \in Epochs(t) : f # e => attempts'[t][f] = attempts[t][f]
      /\ attempts'[t][e].status = s
  <2> HIDE DEF s
  <2> QED
    BY <1>1, MoveEffect DEF Sound
<1>4. EpochsIn(t, "candidate") = {e} /\ EpochsIn(t, "accepted") = {}
  BY <1>1 DEF StatusMatchesAttempts
<1>5. EpochsIn(t, "candidate")' = {} /\ EpochsIn(t, "accepted")' = {e}
  BY <1>3, <1>4 DEF EpochsIn
<1>6. ASSUME NEW u \in Tasks, u # t
      PROVE  /\ attempts'[u] = attempts[u] /\ status'[u] = status[u]
             /\ \A k : EpochsIn(u, k)' = EpochsIn(u, k)
  BY <1>1, <1>3, <1>6 DEF EpochsIn, Epochs, Sound, TypeOK
<1>7. status'[t] = "completed"
  BY <1>1 DEF Sound, TypeOK
<1>8. ASSUME NEW u \in Tasks
      PROVE  /\ status'[u] \in {"none", "draft", "ready"} => attempts'[u] = <<>>
             /\ status'[u] = "awaiting_review" <=> EpochsIn(u, "candidate")' # {}
             /\ status'[u] = "completed" <=> EpochsIn(u, "accepted")' # {}
             /\ \A k \in {"candidate", "accepted"} : \A f, g \in EpochsIn(u, k)' : f = g
  <2>1. CASE u = t
    BY <2>1, <1>5, <1>7
  <2>2. CASE u # t
    BY <2>2, <1>6 DEF StatusMatchesAttempts
  <2> QED
    BY <2>1, <2>2
<1> QED
  BY <1>8 DEF StatusMatchesAttempts

\* The status of a task stays what its attempts say.
LEMMA StatusStep ==
  ASSUME Sound, StatusMatchesAttempts, QuietStep \/ WorkNext
  PROVE  StatusMatchesAttempts'
<1>1. CASE QuietStep
  BY <1>1 DEF QuietStep, work, StatusMatchesAttempts, EpochsIn, Epochs
<1>2. ASSUME NEW t \in Tasks, CreateTask(t) \/ (\E v \in Commands : CreateSpecification(t, v)) \/ Evaluate(t)
      PROVE  StatusMatchesAttempts'
  <2>1. UNCHANGED attempts
    BY <1>2 DEF CreateTask, CreateSpecification, Evaluate
  <2>2. /\ \A u \in Tasks : u # t => status'[u] = status[u]
        /\ \/ status'[t] = status[t]
           \/ status[t] \in {"none", "draft", "ready"} /\ status'[t] \in {"draft", "ready"}
    BY <1>2 DEF CreateTask, CreateSpecification, Evaluate, IsTask, AfterSpecification,
                AfterReadiness, Sound, TypeOK
  <2>3. \A u \in Tasks : \A s : EpochsIn(u, s)' = EpochsIn(u, s)
    BY <2>1 DEF EpochsIn, Epochs
  <2> QED
    BY <2>1, <2>2, <2>3 DEF StatusMatchesAttempts
<1>3. ASSUME NEW t \in Tasks, Start(t)
      PROVE  StatusMatchesAttempts'
  BY <1>3, StatusAfterStart
<1>4. ASSUME NEW t \in Tasks, NEW e \in Epochs(t), Accept(t, e)
      PROVE  StatusMatchesAttempts'
  BY <1>4, StatusAfterReview
<1>5. ASSUME NEW t \in Tasks, NEW e \in Epochs(t), NEW o \in Outcome, Execute(t, e, o)
      PROVE  StatusMatchesAttempts'
  BY <1>5 DEF Execute, StatusMatchesAttempts, EpochsIn, Epochs
<1>6. ASSUME NEW r \in reports, ApplyReport(r)
      PROVE  StatusMatchesAttempts'
  BY <1>6, StatusAfterReport
<1> QED
  BY <1>1, <1>2, <1>3, <1>4, <1>5, <1>6 DEF WorkNext

-----------------------------------------------------------------------------
(* The attempts and what they were started on.                             *)

\* What any step does to the attempts of a task: it keeps their versions and
\* configurations, and only a start adds one.
LEMMA AttemptsKept ==
  ASSUME Sound, QuietStep \/ WorkNext, NEW t \in Tasks
  PROVE  /\ \A e \in Epochs(t) : /\ e \in Epochs(t)'
                                 /\ attempts'[t][e].version = attempts[t][e].version
                                 /\ attempts'[t][e].config = attempts[t][e].config
         /\ \A e \in Epochs(t)' : \/ e \in Epochs(t)
                                  \/ /\ Start(t)
                                     /\ attempts'[t][e].version = Len(versions[t])
                                     /\ attempts'[t][e].config = ConfigOf(Current(t))
                                     /\ attempts'[t][e].status = "running"
<1> DEFINE Kept == /\ \A e \in Epochs(t) : /\ e \in Epochs(t)'
                                 /\ attempts'[t][e].version = attempts[t][e].version
                                 /\ attempts'[t][e].config = attempts[t][e].config
                   /\ \A e \in Epochs(t)' : \/ e \in Epochs(t)
                                  \/ /\ Start(t)
                                     /\ attempts'[t][e].version = Len(versions[t])
                                     /\ attempts'[t][e].config = ConfigOf(Current(t))
                                     /\ attempts'[t][e].status = "running"
<1>1. CASE UNCHANGED attempts
  BY <1>1 DEF Epochs
<1>2. ASSUME NEW u \in Tasks, Start(u)
      PROVE  Kept
  <2> DEFINE a == [version |-> Len(versions[u]), config |-> ConfigOf(Current(u)),
                   status |-> "running"]
  <2>1. /\ a \in Attempt /\ attempts' = [attempts EXCEPT ![u] = Append(@, a)]
        /\ a.version = Len(versions[u]) /\ a.config = ConfigOf(Current(u)) /\ a.status = "running"
    BY <1>2, StartedAttempt DEF Sound
  <2> HIDE DEF a
  <2>2. /\ \A v \in Tasks : v # u => attempts'[v] = attempts[v]
        /\ \A e : e \in Epochs(u)' <=> e \in Epochs(u) \/ e = Len(attempts[u]) + 1
        /\ \A e \in Epochs(u) : attempts'[u][e] = attempts[u][e]
        /\ attempts'[u][Len(attempts[u]) + 1] = a
    BY <2>1, StartEffect DEF Sound
  <2>3. CASE u = t
    BY <2>1, <2>2, <2>3, <1>2
  <2>4. CASE u # t
    BY <2>2, <2>4 DEF Epochs
  <2> QED
    BY <2>3, <2>4
<1>3. ASSUME NEW u \in Tasks, NEW e \in Epochs(u), NEW s \in AttemptStatus, Moves(u, e, s)
      PROVE  Kept
  <2>1. /\ \A v \in Tasks : v # u => attempts'[v] = attempts[v]
        /\ \A v \in Tasks : Epochs(v)' = Epochs(v)
        /\ \A f \in Epochs(u) : f # e => attempts'[u][f] = attempts[u][f]
        /\ attempts'[u][e].version = attempts[u][e].version
        /\ attempts'[u][e].config = attempts[u][e].config
    BY <1>3, MoveEffect DEF Sound
  <2> QED
    BY <2>1
<1>4. ASSUME NEW u \in Tasks, NEW e \in Epochs(u), Accept(u, e)
      PROVE  Kept
  <2>1. "accepted" \in AttemptStatus /\ Moves(u, e, "accepted")
    BY <1>4 DEF Accept, Moves, AttemptStatus
  <2> QED
    BY <2>1, <1>3
<1>5. ASSUME NEW r \in reports, ApplyReport(r)
      PROVE  Kept
  <2>1. /\ r.work \in Tasks /\ r.epoch \in Epochs(r.work)
        /\ \E s \in AttemptStatus : Moves(r.work, r.epoch, s)
    BY <1>5, ReportedMove DEF AttemptStatus
  <2> QED
    BY <2>1, <1>3
<1>6. CASE QuietStep
  BY <1>6, <1>1 DEF QuietStep, work
<1>7. CASE WorkNext
  BY <1>7, <1>1, <1>2, <1>4, <1>5 DEF WorkNext, CreateTask, CreateSpecification, Evaluate, Execute
<1> QED
  BY <1>6, <1>7

\* What an attempt was started on stays satisfied, and a start is on a
\* version that is satisfied at that moment.
LEMMA JustifiedStep ==
  ASSUME Sound, AttemptsStayJustified, QuietStep \/ WorkNext
  PROVE  AttemptsStayJustified'
<1> SUFFICES ASSUME NEW t \in Tasks, NEW e \in Epochs(t)'
             PROVE  /\ attempts'[t][e].version \in 1 .. Len(versions'[t])
                    /\ Satisfied(InputOf(t, e))'
                    /\ attempts'[t][e].config = InputOf(t, e)'.actor
  BY DEF AttemptsStayJustified
<1> DEFINE n == attempts'[t][e].version
           input == versions[t][n]
<1>1. n \in 1 .. Len(versions[t]) /\ Satisfied(input) /\ attempts'[t][e].config = input.actor
  <2>1. CASE e \in Epochs(t)
    BY <2>1, AttemptsKept DEF AttemptsStayJustified, InputOf
  <2>2. CASE e \notin Epochs(t)
    <3>1. Start(t) /\ n = Len(versions[t]) /\ attempts'[t][e].config = ConfigOf(Current(t))
      BY <2>2, AttemptsKept
    <3>2. n \in 1 .. Len(versions[t])
      BY <3>1, StartedAttempt DEF Sound
    <3>3. Satisfied(Current(t)) /\ input = Current(t)
      BY <3>1 DEF Start, IsReady, Current
    <3> QED
      BY <3>1, <3>2, <3>3 DEF ConfigOf
  <2> QED
    BY <2>1, <2>2
<1>2. n \in 1 .. Len(versions'[t]) /\ versions'[t][n] = input /\ input \in Version
  BY <1>1, VersionsStay
<1>3. PICK v \in Version : v = input
  BY <1>2
<1>4. Satisfied(v)' /\ InputOf(t, e)' = v
  BY <1>1, <1>2, <1>3, SatisfiedStays DEF InputOf
<1>5. Satisfied(InputOf(t, e))'
  BY <1>4 DEF Satisfied
<1> QED
  BY <1>1, <1>2, <1>3, <1>4, <1>5

\* An outcome is of an attempt that the model answered for.
LEMMA OutcomesStep ==
  ASSUME Sound, OutcomesAreClaimed, QuietStep \/ WorkNext
  PROVE  OutcomesAreClaimed'
<1>1. \A t \in Tasks : \A e, o : Answered(t, e, o) => Answered(t, e, o)'
  <2>1. reports \subseteq reports'
    BY DEF QuietStep, work, WorkNext, CreateTask, CreateSpecification, Evaluate, Start, Accept,
           Execute, ApplyReport
  <2> QED
    BY <2>1 DEF Answered
<1>2. CASE UNCHANGED attempts
  BY <1>1, <1>2 DEF OutcomesAreClaimed, Epochs
<1>3. ASSUME NEW t \in Tasks, Start(t)
      PROVE  OutcomesAreClaimed'
  <2> DEFINE a == [version |-> Len(versions[t]), config |-> ConfigOf(Current(t)),
                   status |-> "running"]
  <2>1. a \in Attempt /\ a.status = "running" /\ attempts' = [attempts EXCEPT ![t] = Append(@, a)]
    BY <1>3, StartedAttempt DEF Sound
  <2> HIDE DEF a
  <2>2. /\ \A u \in Tasks : u # t => attempts'[u] = attempts[u]
        /\ \A e : e \in Epochs(t)' <=> e \in Epochs(t) \/ e = Len(attempts[t]) + 1
        /\ \A e \in Epochs(t) : attempts'[t][e] = attempts[t][e]
        /\ attempts'[t][Len(attempts[t]) + 1] = a
    BY <2>1, StartEffect DEF Sound
  <2>3. \A u \in Tasks : \A e \in Epochs(u)' :
            \/ e \in Epochs(u) /\ attempts'[u][e].status = attempts[u][e].status
            \/ attempts'[u][e].status = "running"
    BY <2>1, <2>2 DEF Epochs
  <2> QED
    BY <2>3, <1>1 DEF OutcomesAreClaimed
<1>4. ASSUME NEW t \in Tasks, NEW e \in Epochs(t), NEW s \in AttemptStatus, Moves(t, e, s),
             s \in {"candidate", "accepted"} => Answered(t, e, "candidate_ready"),
             s = "blocked" => Answered(t, e, "blocked")
      PROVE  OutcomesAreClaimed'
  <2>1. /\ \A u \in Tasks : u # t => attempts'[u] = attempts[u]
        /\ \A u \in Tasks : Epochs(u)' = Epochs(u)
        /\ \A f \in Epochs(t) : f # e => attempts'[t][f] = attempts[t][f]
        /\ attempts'[t][e].status = s
    BY <1>4, MoveEffect DEF Sound
  <2> QED
    BY <2>1, <1>1, <1>4 DEF OutcomesAreClaimed
<1>5. ASSUME NEW t \in Tasks, NEW e \in Epochs(t), Accept(t, e)
      PROVE  OutcomesAreClaimed'
  <2>1. "accepted" \in AttemptStatus /\ Moves(t, e, "accepted") /\ attempts[t][e].status = "candidate"
    BY <1>5 DEF Accept, Acceptable, Moves, AttemptStatus
  <2>2. Answered(t, e, "candidate_ready")
    BY <2>1 DEF OutcomesAreClaimed
  <2> QED
    BY <2>1, <2>2, <1>4
<1>6. ASSUME NEW r \in reports, ApplyReport(r)
      PROVE  OutcomesAreClaimed'
  <2>1. r.work \in Tasks /\ r.epoch \in Epochs(r.work)
    BY <1>6, ReportedMove
  <2>2. Answered(r.work, r.epoch, r.outcome)
    BY DEF Answered
  <2>3. PICK s \in AttemptStatus :
          /\ Moves(r.work, r.epoch, s)
          /\ \/ s = "candidate" /\ r.outcome = "candidate_ready"
             \/ s = "blocked" /\ r.outcome = "blocked"
    BY <1>6, ReportedMove DEF AttemptStatus
  <2> QED
    BY <2>1, <2>2, <2>3, <1>4
<1>7. CASE QuietStep
  BY <1>7, <1>2 DEF QuietStep, work
<1>8. CASE WorkNext
  BY <1>8, <1>2, <1>3, <1>5, <1>6 DEF WorkNext, CreateTask, CreateSpecification, Evaluate, Execute
<1> QED
  BY <1>7, <1>8

-----------------------------------------------------------------------------
(* Readiness, circles and slots.                                           *)

\* A task becomes ready only by an evaluation of its current version.
LEMMA ReadyStep ==
  ASSUME Sound, ReadyStaysEarned, QuietStep \/ WorkNext
  PROVE  ReadyStaysEarned'
<1> SUFFICES ASSUME NEW t \in Tasks, status'[t] = "ready"
             PROVE  IsReady(t)'
  BY DEF ReadyStaysEarned
<1>1. ASSUME versions'[t] = versions[t], IsReady(t)
      PROVE  IsReady(t)'
  <2>1. versions[t] \in Seq(Version) /\ versions[t] # <<>>
    BY <1>1 DEF IsReady, Sound, TypeOK
  <2>2. Len(versions[t]) \in 1 .. Len(versions[t])
    BY <2>1, EmptySeq, LenProperties
  <2>3. Current(t) \in Version
    BY <2>1, <2>2, ElementOfSeq DEF Current
  <2>4. Current(t)' = Current(t)
    BY <1>1 DEF Current
  <2>5. ASSUME NEW v \in Version, v = Current(t)
        PROVE  Satisfied(Current(t))'
    BY <2>4, <2>5, <1>1, SatisfiedStays DEF IsReady
  <2> QED
    BY <2>1, <2>3, <2>5, <1>1 DEF IsReady
<1>2. CASE status'[t] = status[t] /\ versions'[t] = versions[t]
  BY <1>1, <1>2 DEF ReadyStaysEarned
<1>3. CASE QuietStep
  BY <1>2, <1>3 DEF QuietStep, work
<1>4. ASSUME NEW u \in Tasks, CreateTask(u)
      PROVE  IsReady(t)'
  BY <1>2, <1>4 DEF CreateTask, Sound, TypeOK
<1>5. ASSUME NEW u \in Tasks, NEW v \in Commands, CreateSpecification(u, v)
      PROVE  IsReady(t)'
  BY <1>2, <1>5 DEF CreateSpecification, AfterSpecification, Sound, TypeOK
<1>6. ASSUME NEW u \in Tasks, Evaluate(u)
      PROVE  IsReady(t)'
  <2>1. UNCHANGED versions
    BY <1>6 DEF Evaluate
  <2>2. CASE u = t
    BY <1>1, <1>2, <1>6, <2>1, <2>2 DEF Evaluate, AfterReadiness, Sound, TypeOK
  <2>3. CASE u # t
    BY <1>2, <1>6, <2>1, <2>3 DEF Evaluate, Sound, TypeOK
  <2> QED
    BY <2>2, <2>3
<1>7. ASSUME NEW u \in Tasks, Start(u)
      PROVE  IsReady(t)'
  BY <1>2, <1>7 DEF Start, Sound, TypeOK
<1>8. ASSUME NEW u \in Tasks, NEW e \in Epochs(u),
             Accept(u, e) \/ \E o \in Outcome : Execute(u, e, o)
      PROVE  IsReady(t)'
  BY <1>2, <1>8 DEF Accept, Execute, Sound, TypeOK
<1>9. ASSUME NEW r \in reports, ApplyReport(r)
      PROVE  IsReady(t)'
  BY <1>2, <1>9, ReportedMove DEF ApplyReport, Sound, TypeOK
<1> QED
  BY <1>3, <1>4, <1>5, <1>6, <1>7, <1>8, <1>9 DEF WorkNext

\* Whatever a step does, only a start adds to what a task uses, and it adds
\* tasks that are completed, which the started one is not.
LEMMA UsesStep ==
  ASSUME Sound, AttemptsStayJustified, QuietStep \/ WorkNext, NEW t \in Tasks
  PROVE  \/ Uses(t)' \subseteq Uses(t)
         \/ /\ Start(t)
            /\ status[t] # "completed"
            /\ \A d \in Uses(t)' : d \in Uses(t) \/ status[d] = "completed"
<1>1. ASSUME NEW e \in Epochs(t)
      PROVE  e \in Epochs(t)' /\ InputOf(t, e)' = InputOf(t, e)
  <2>1. attempts[t][e].version \in 1 .. Len(versions[t])
    BY DEF AttemptsStayJustified
  <2>2. attempts'[t][e].version = attempts[t][e].version /\ e \in Epochs(t)'
    BY AttemptsKept
  <2> QED
    BY <2>1, <2>2, VersionsStay DEF InputOf
<1>2. CASE \A e \in Epochs(t)' : e \in Epochs(t)
  BY <1>1, <1>2 DEF Uses
<1>3. CASE \E e \in Epochs(t)' : e \notin Epochs(t)
  <2>1. Start(t)
    BY <1>3, AttemptsKept
  <2>2. status[t] # "completed" /\ Satisfied(Current(t))
    BY <2>1 DEF Start, Startable, AfterReadiness, IsReady
  <2>3. ASSUME NEW e \in Epochs(t)', e \notin Epochs(t)
        PROVE  InputOf(t, e)' = Current(t)
    <3>1. attempts'[t][e].version = Len(versions[t])
      BY <2>3, AttemptsKept
    <3> QED
      BY <2>1, <3>1 DEF InputOf, Current, Start
  <2>4. \A d \in Uses(t)' : d \in Uses(t) \/ status[d] = "completed"
    <3> SUFFICES ASSUME NEW e \in Epochs(t)', NEW d \in InputOf(t, e)'.dependencies
                 PROVE  d \in Uses(t) \/ status[d] = "completed"
      BY DEF Uses
    <3>1. CASE e \in Epochs(t)
      BY <3>1, <1>1 DEF Uses
    <3>2. CASE e \notin Epochs(t)
      BY <3>2, <2>2, <2>3 DEF Satisfied, DependencyDone
    <3> QED
      BY <3>1, <3>2
  <2> QED
    BY <2>1, <2>2, <2>4
<1> QED
  BY <1>2, <1>3

\* What a task uses is completed.
LEMMA UsesCompleted ==
  ASSUME AttemptsStayJustified, NEW t \in Tasks, NEW d \in Uses(t)
  PROVE  status[d] = "completed"
<1>1. PICK e \in Epochs(t) : d \in InputOf(t, e).dependencies
  BY DEF Uses
<1>2. Satisfied(InputOf(t, e))
  BY DEF AttemptsStayJustified
<1> QED
  BY <1>1, <1>2 DEF Satisfied, DependencyDone

\* A start closes no circle: nobody uses the task that starts, for it is not
\* completed, so a set of tasks without a first one would have had none before
\* when the started task is left out of it.
LEMMA AcyclicStep ==
  ASSUME Sound, AttemptsStayJustified, StartedDependenciesAcyclic, QuietStep \/ WorkNext
  PROVE  StartedDependenciesAcyclic'
<1>1. CASE \A u \in Tasks : Uses(u)' \subseteq Uses(u)
  <2> SUFFICES ASSUME NEW S \in SUBSET Tasks, S # {}
               PROVE  \E u \in S : Uses(u)' \cap S = {}
    BY DEF StartedDependenciesAcyclic
  <2> QED
    BY <1>1 DEF StartedDependenciesAcyclic
<1>2. CASE \E t \in Tasks : ~(Uses(t)' \subseteq Uses(t))
  <2>1. PICK t \in Tasks : ~(Uses(t)' \subseteq Uses(t))
    BY <1>2
  <2>2. /\ Start(t) /\ status[t] # "completed"
        /\ \A d \in Uses(t)' : d \in Uses(t) \/ status[d] = "completed"
    BY <2>1, UsesStep
  <2>3. \A u \in Tasks : u # t => Uses(u)' \subseteq Uses(u)
    <3> SUFFICES ASSUME NEW u \in Tasks, u # t, ~(Uses(u)' \subseteq Uses(u))
                 PROVE  FALSE
      OBVIOUS
    <3>1. Start(u)
      BY UsesStep
    <3>2. attempts'[t] = attempts[t]
      BY <3>1 DEF Start, Sound, TypeOK
    <3>3. attempts[t] \in Seq(Attempt)
      BY DEF Sound, TypeOK
    <3>4. PICK a \in Attempt : attempts' = [attempts EXCEPT ![t] = Append(@, a)]
      BY <2>2, StartedAttempt DEF Sound
    <3>5. attempts'[t] = Append(attempts[t], a)
      BY <3>4 DEF Sound, TypeOK
    <3>6. Len(attempts'[t]) = Len(attempts[t]) + 1 /\ Len(attempts[t]) \in Nat
      BY <3>3, <3>5, AppendProperties, LenProperties
    <3> QED
      BY <3>2, <3>6
  <2>4. t \notin Uses(t)' /\ \A u \in Tasks : u # t => t \notin Uses(u)'
    BY <2>2, <2>3, UsesCompleted
  <2> SUFFICES ASSUME NEW S \in SUBSET Tasks, S # {}
               PROVE  \E u \in S : Uses(u)' \cap S = {}
    BY DEF StartedDependenciesAcyclic
  <2>5. CASE S = {t}
    BY <2>4, <2>5
  <2>6. CASE S # {t}
    <3>1. S \ {t} # {} /\ S \ {t} \in SUBSET Tasks
      BY <2>6
    <3>2. PICK u \in S \ {t} : Uses(u) \cap (S \ {t}) = {}
      BY <3>1 DEF StartedDependenciesAcyclic
    <3> QED
      BY <3>2, <2>3, <2>4
  <2> QED
    BY <2>5, <2>6
<1> QED
  BY <1>1, <1>2

\* The running attempts of a configuration are finitely many.
LEMMA ActiveFinite ==
  ASSUME NEW c
  PROVE  IsFiniteSet(Active(c)) /\ Cardinality(Active(c)) \in Nat
<1>1. IsFiniteSet(Tasks) /\ IsFiniteSet(1 .. MaxAttempts)
  BY BoundsAssumption, FS_Interval
<1>2. IsFiniteSet(Tasks \X (1 .. MaxAttempts))
  BY <1>1, FS_Product
<1>3. Active(c) \subseteq Tasks \X (1 .. MaxAttempts)
  BY DEF Active
<1> QED
  BY <1>2, <1>3, FS_Subset, FS_CardinalityType

\* Only a start adds a running attempt.
LEMMA ActiveStep ==
  ASSUME Sound, QuietStep \/ WorkNext, NEW c \in ConfigIds, ~(Active(c)' \subseteq Active(c))
  PROVE  \E t \in Tasks : /\ Start(t) /\ c = ConfigOf(Current(t))
                          /\ Active(c)' \subseteq Active(c) \cup {<<t, Len(attempts[t]) + 1>>}
<1>1. PICK x \in Tasks \X (1 .. MaxAttempts) : Running(x[1], x[2], c)' /\ ~Running(x[1], x[2], c)
  BY DEF Active
<1>2. CASE \E t \in Tasks : Start(t)
  <2>1. PICK t \in Tasks : Start(t)
    BY <1>2
  <2> DEFINE a == [version |-> Len(versions[t]), config |-> ConfigOf(Current(t)),
                   status |-> "running"]
  <2>2. /\ a \in Attempt /\ attempts' = [attempts EXCEPT ![t] = Append(@, a)]
        /\ a.config = ConfigOf(Current(t))
    BY <2>1, StartedAttempt DEF Sound
  <2> HIDE DEF a
  <2>3. /\ \A u \in Tasks : u # t => attempts'[u] = attempts[u]
        /\ \A e : e \in Epochs(t)' <=> e \in Epochs(t) \/ e = Len(attempts[t]) + 1
        /\ \A e \in Epochs(t) : attempts'[t][e] = attempts[t][e]
        /\ attempts'[t][Len(attempts[t]) + 1] = a
    BY <2>2, StartEffect DEF Sound
  <2>4. \A u \in Tasks : \A e : Running(u, e, c)' =>
            \/ Running(u, e, c)
            \/ u = t /\ e = Len(attempts[t]) + 1 /\ c = ConfigOf(Current(t))
    BY <2>2, <2>3 DEF Running, Epochs
  <2>5. c = ConfigOf(Current(t))
    BY <1>1, <2>4
  <2>6. ASSUME NEW y \in Active(c)'
        PROVE  y \in Active(c) \cup {<<t, Len(attempts[t]) + 1>>}
    <3>1. y \in Tasks \X (1 .. MaxAttempts) /\ Running(y[1], y[2], c)'
      BY DEF Active
    <3>2. y = <<y[1], y[2]>> /\ y[1] \in Tasks
      BY <3>1
    <3>3. CASE Running(y[1], y[2], c)
      BY <3>1, <3>3 DEF Active
    <3>4. CASE ~Running(y[1], y[2], c)
      <4>1. y[1] = t /\ y[2] = Len(attempts[t]) + 1
        BY <3>1, <3>2, <3>4, <2>4
      <4> QED
        BY <4>1, <3>2
    <3> QED
      BY <3>3, <3>4
  <2> QED
    BY <2>1, <2>5, <2>6
<1>3. CASE ~ \E t \in Tasks : Start(t)
  <2>1. ASSUME NEW t \in Tasks, NEW e \in Epochs(t), NEW s \in AttemptStatus, s # "running", Moves(t, e, s)
        PROVE  FALSE
    <3>1. /\ \A u \in Tasks : u # t => attempts'[u] = attempts[u]
          /\ \A u \in Tasks : Epochs(u)' = Epochs(u)
          /\ \A f \in Epochs(t) : f # e => attempts'[t][f] = attempts[t][f]
          /\ attempts'[t][e].status = s
      BY <2>1, MoveEffect DEF Sound
    <3>2. \A u \in Tasks : \A f : Running(u, f, c)' => Running(u, f, c)
      BY <3>1, <2>1 DEF Running
    <3>3. x[1] \in Tasks
      BY <1>1
    <3> QED
      BY <3>2, <3>3, <1>1
  <2>2. attempts' # attempts
    BY <1>1 DEF Running, Epochs
  <2>3. CASE \E t \in Tasks : \E e \in Epochs(t) : Accept(t, e)
    <3>1. PICK t \in Tasks : \E e \in Epochs(t) : Accept(t, e)
      BY <2>3
    <3>2. PICK e \in Epochs(t) : Accept(t, e)
      BY <3>1
    <3>3. "accepted" \in AttemptStatus /\ Moves(t, e, "accepted")
      BY <3>2 DEF Accept, Moves, AttemptStatus
    <3> QED
      BY <3>3, <2>1
  <2>4. CASE \E r \in reports : ApplyReport(r)
    <3>1. PICK r \in reports : ApplyReport(r)
      BY <2>4
    <3>2. /\ r.work \in Tasks /\ r.epoch \in Epochs(r.work)
          /\ \E s \in AttemptStatus : s # "running" /\ Moves(r.work, r.epoch, s)
      BY <3>1, ReportedMove DEF AttemptStatus
    <3> QED
      BY <3>2, <2>1
  <2> QED
    BY <2>2, <2>3, <2>4, <1>3 DEF QuietStep, work, WorkNext, CreateTask, CreateSpecification,
                                  Evaluate, Execute
<1> QED
  BY <1>2, <1>3

\* A start needs a free slot; a new configuration has no attempts.
LEMMA SlotsStep ==
  ASSUME Sound, AttemptsStayJustified, SlotsRespected, QuietStep \/ WorkNext
  PROVE  SlotsRespected'
<1> SUFFICES ASSUME NEW c \in ConfigIds, IsConfig(c)'
             PROVE  Cardinality(Active(c)') <= configurations'[c].setting.slots
  BY DEF SlotsRespected
<1>1. [RegistryNext]_registry
  BY DEF QuietStep, WorkNext, CreateTask, CreateSpecification, Evaluate, Start, Accept,
         Execute, ApplyReport
<1>2. configurations'[c].setting.slots \in Nat
  <2>1. Sound'
    BY WorkSound, QuietSound
  <2>2. configurations'[c] \in ConfigRow
    BY <2>1 DEF Sound, RegistryInv, RegistryTypeOK, IsConfig
  <2> QED
    BY <2>2 DEF ConfigRow, Setting
<1>3. CASE IsConfig(c)
  <2>1. configurations'[c] = configurations[c]
    BY <1>1, <1>3, ConfigurationsStay
  <2>2. Cardinality(Active(c)) <= configurations[c].setting.slots /\ Cardinality(Active(c)) \in Nat
    BY <1>3, ActiveFinite DEF SlotsRespected
  <2>3. CASE Active(c)' \subseteq Active(c)
    <3>1. Cardinality(Active(c)') <= Cardinality(Active(c)) /\ Cardinality(Active(c)') \in Nat
      BY <2>3, ActiveFinite, FS_Subset, FS_CardinalityType
    <3> QED
      BY <2>1, <2>2, <3>1, <1>2
  <2>4. CASE ~(Active(c)' \subseteq Active(c))
    <3>1. PICK t \in Tasks : /\ Start(t) /\ c = ConfigOf(Current(t))
                             /\ Active(c)' \subseteq Active(c) \cup {<<t, Len(attempts[t]) + 1>>}
      BY <2>4, ActiveStep
    <3> DEFINE T == Active(c) \cup {<<t, Len(attempts[t]) + 1>>}
    <3>2. Cardinality(Active(c)) < configurations[c].setting.slots
      BY <3>1 DEF Start, HasSlot
    <3>3. IsFiniteSet(T) /\ Cardinality(T) <= Cardinality(Active(c)) + 1 /\ Cardinality(T) \in Nat
      <4>1. /\ IsFiniteSet(T)
            /\ Cardinality(T) = IF <<t, Len(attempts[t]) + 1>> \in Active(c)
                               THEN Cardinality(Active(c)) ELSE Cardinality(Active(c)) + 1
        BY ActiveFinite, FS_AddElement, Zenon
      <4> HIDE DEF T
      <4> QED
        BY <4>1, <2>2
    <3>4. Cardinality(Active(c)') <= Cardinality(T) /\ Cardinality(Active(c)') \in Nat
      BY <3>1, <3>3, FS_Subset, FS_CardinalityType
    <3> HIDE DEF T
    <3> QED
      BY <2>1, <2>2, <3>2, <3>3, <3>4, <1>2
  <2> QED
    BY <2>3, <2>4
<1>4. CASE ~IsConfig(c)
  <2>1. \A t \in Tasks : \A e \in Epochs(t) : attempts[t][e].config # c
    BY <1>4 DEF AttemptsStayJustified, Satisfied, Eligible
  <2>2. Active(c) = {}
    BY <2>1 DEF Active, Running
  <2>3. ASSUME NEW t \in Tasks, Start(t)
        PROVE  c # ConfigOf(Current(t))
    BY <2>3, <1>4 DEF Start, IsReady, Satisfied, Eligible, ConfigOf
  <2>4. Active(c)' = {}
    BY <2>2, <2>3, ActiveStep
  <2> QED
    BY <2>4, FS_EmptySet, <1>2
<1> QED
  BY <1>3, <1>4

-----------------------------------------------------------------------------
(* The theorems.                                                           *)

\* Nothing exists at first.
LEMMA LifeInitInv == Init => LifeInv
<1> SUFFICES ASSUME Init
             PROVE  LifeInv
  OBVIOUS
<1>1. RegistryInv
  BY RegistryInitInv DEF Init
<1>2. /\ status \in [Tasks -> TaskStatus] /\ \A t \in Tasks : status[t] = "none"
      /\ versions \in [Tasks -> Seq(Version)]
      /\ attempts \in [Tasks -> Seq(Attempt)] /\ \A t \in Tasks : attempts[t] = <<>>
      /\ reports = {}
  BY EmptySeq DEF Init, TaskStatus
<1>3. Sound
  BY <1>1, <1>2 DEF Sound, TypeOK, RegistryInv, ReportsSound
<1>4. \A t \in Tasks : Epochs(t) = {}
  BY <1>2, EmptySeq DEF Epochs
<1>5. \A c \in ConfigIds : ~IsConfig(c)
  BY DEF Init, RegistryInit, IsConfig
<1>6. \A t \in Tasks : Uses(t) = {} /\ \A s : EpochsIn(t, s) = {}
  BY <1>4 DEF Uses, EpochsIn
<1> QED
  BY <1>2, <1>3, <1>4, <1>5, <1>6 DEF LifeInv, StatusMatchesAttempts, OutcomesAreClaimed,
     AttemptsStayJustified, ReadyStaysEarned, StartedDependenciesAcyclic, SlotsRespected

\* A step is one of the registry, or of nothing, or of the work on tasks.
LEMMA Steps == [Next]_vars => QuietStep \/ WorkNext
BY DEF Next, vars, registry, work, QuietStep

\* Every step keeps the invariant.
LEMMA LifeStepInv == LifeInv /\ [Next]_vars => LifeInv'
<1> SUFFICES ASSUME LifeInv, QuietStep \/ WorkNext
             PROVE  LifeInv'
  BY Steps
<1> QED
  BY WorkSound, QuietSound, StatusStep, OutcomesStep, JustifiedStep, ReadyStep, AcyclicStep,
     SlotsStep DEF LifeInv

\* The invariant holds always.
THEOREM LifecycleCorrect == Spec => []LifeInv
<1>1. LifeInv /\ [Next]_vars => LifeInv'
  BY LifeStepInv
<1> QED
  BY <1>1, LifeInitInv, PTL DEF Spec

\* Registry rows, tasks, versions, attempts and reports always have their
\* types.
THEOREM TypeCorrect == Spec => []TypeOK
<1>1. LifeInv => TypeOK
  BY DEF LifeInv, Sound
<1> QED
  BY <1>1, LifecycleCorrect, PTL

\* The numbering of configurations is not disturbed by the work on tasks.
THEOREM NumberingHolds == Spec => []ConfigurationsNumbered
<1>1. LifeInv => ConfigurationsNumbered
  BY DEF LifeInv, Sound, RegistryInv
<1> QED
  BY <1>1, LifecycleCorrect, PTL

\* A task has one candidate exactly while it awaits review and one accepted
\* attempt exactly when it is completed, whatever reports arrive when.
THEOREM StatusMatchesAttemptsHolds == Spec => []StatusMatchesAttempts
<1>1. LifeInv => StatusMatchesAttempts
  BY DEF LifeInv
<1> QED
  BY <1>1, LifecycleCorrect, PTL

\* Only what the model claimed in a well-formed answer moves an attempt.
THEOREM OutcomesAreClaimedHolds == Spec => []OutcomesAreClaimed
<1>1. LifeInv => OutcomesAreClaimed
  BY DEF LifeInv
<1> QED
  BY <1>1, LifecycleCorrect, PTL

\* What an attempt was started on stays true for ever.
THEOREM AttemptsStayJustifiedHolds == Spec => []AttemptsStayJustified
<1>1. LifeInv => AttemptsStayJustified
  BY DEF LifeInv
<1> QED
  BY <1>1, LifecycleCorrect, PTL

\* A ready task is ready on its current version.
THEOREM ReadyStaysEarnedHolds == Spec => []ReadyStaysEarned
<1>1. LifeInv => ReadyStaysEarned
  BY DEF LifeInv
<1> QED
  BY <1>1, LifecycleCorrect, PTL

\* No circle of dependencies of any length has started.
THEOREM StartedDependenciesAcyclicHolds == Spec => []StartedDependenciesAcyclic
<1>1. LifeInv => StartedDependenciesAcyclic
  BY DEF LifeInv
<1> QED
  BY <1>1, LifecycleCorrect, PTL

\* No configuration has more running attempts than slots.
THEOREM SlotsRespectedHolds == Spec => []SlotsRespected
<1>1. LifeInv => SlotsRespected
  BY DEF LifeInv
<1> QED
  BY <1>1, LifecycleCorrect, PTL

\* Whatever happens after a review, the completed task and its attempts stay.
THEOREM ReviewIsFinalHolds == Spec => ReviewIsFinal
<1>1. LifeInv /\ [Next]_vars =>
        [\A t \in Tasks : status[t] = "completed"
            => status'[t] = "completed" /\ attempts'[t] = attempts[t]]_vars
  BY Steps, CompletedStays DEF LifeInv, Sound
<1> QED
  BY <1>1, LifecycleCorrect, PTL DEF Spec, ReviewIsFinal

=============================================================================
