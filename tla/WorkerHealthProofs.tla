------------------------- MODULE WorkerHealthProofs -------------------------
(***************************************************************************)
(* Theorems about WorkerHealth, for any timeout, pause and age that        *)
(* TimingAssumption allows.  The marker's age is bounded by the timers:    *)
(* it is refreshed as a pause begins, so during the pause it is no older   *)
(* than the pause, and during the probe no older than a whole pause and    *)
(* the probe so far; writing takes no time.                                *)
(***************************************************************************)
EXTENDS WorkerHealth, TLAPS

\* The age of a marker that is there, by phase.
MarkerIsFresh ==
    marker # Absent =>
        /\ pc = "sleeping" => marker <= elapsed
        /\ pc \in {"connecting", "checking", "writing", "replacing"}
            => marker <= Period + elapsed

\* Whoever checks or writes has a client.
ClientKept == pc \in {"checking", "writing", "replacing"} => client # "none"

WorkerInv == TypeOK /\ MarkerIsFresh /\ ClientKept /\ NotReadyWithoutClient

-----------------------------------------------------------------------------

\* A worker that never ran satisfies the invariant.
LEMMA WorkerInitInv == Init => WorkerInv
<1>1. Init => temporary \in BOOLEAN
  BY Zenon DEF Init
<1> QED
  BY <1>1, TimingAssumption, AbsentAssumption
     DEF Init, WorkerInv, TypeOK, MarkerIsFresh, ClientKept, NotReadyWithoutClient

\* The end of a probe that failed: no marker, a pause that just begins
\* (refresh_readiness, except branch).
LEMMA WithdrawInv ==
    ASSUME WorkerInv, Withdraw, client' \in {"none", "live", "broken"}, UNCHANGED world
    PROVE  WorkerInv'
<1>0. temporary' \in BOOLEAN
  BY Zenon DEF Withdraw
<1>1. TypeOK'
  BY <1>0, TimingAssumption, AbsentAssumption DEF WorkerInv, TypeOK, Withdraw, Pause, world
<1> QED
  BY <1>1 DEF WorkerInv, MarkerIsFresh, ClientKept, NotReadyWithoutClient, Withdraw, Pause

\* A probe begins with a client or without one (check_temporal); whatever
\* marker there is is no older than the pause before it.
LEMMA BeginProbeInv ==
    ASSUME WorkerInv, BeginProbe, UNCHANGED <<client, world, temporary>>,
           marker' \in 0 .. MaxAge \cup {Absent}, marker' # Absent => marker' <= Period,
           client = "none" => marker' = Absent
    PROVE  WorkerInv'
<1>1. TypeOK'
  BY TimingAssumption DEF WorkerInv, TypeOK, BeginProbe, world
<1>2. MarkerIsFresh'
  BY TimingAssumption, AbsentAssumption DEF MarkerIsFresh, BeginProbe
<1> QED
  BY <1>1, <1>2 DEF WorkerInv, ClientKept, NotReadyWithoutClient, BeginProbe

\* Between two statements of a probe that succeeds the timers and the marker
\* stay (check_temporal, refresh_readiness).
LEMMA ProceedInv ==
    ASSUME WorkerInv, UNCHANGED <<elapsed, world, marker>>, temporary' \in BOOLEAN,
           client' \in {"live", "broken"}, pc \in {"connecting", "checking", "writing"},
           pc' \in {"checking", "writing", "replacing"}
    PROVE  WorkerInv'
<1>1. TypeOK'
  BY DEF WorkerInv, TypeOK, world
<1>2. MarkerIsFresh'
  BY DEF WorkerInv, MarkerIsFresh
<1> QED
  BY <1>1, <1>2 DEF WorkerInv, ClientKept, NotReadyWithoutClient

\* The rename makes the marker new as the pause begins (refresh_readiness).
LEMMA ReplaceInv == ASSUME WorkerInv, Replace PROVE WorkerInv'
<1>0. temporary' \in BOOLEAN
  BY Zenon DEF Replace
<1>1. TypeOK'
  BY <1>0, TimingAssumption DEF WorkerInv, TypeOK, Replace, Pause, world
<1>2. MarkerIsFresh' /\ ClientKept'
  BY AbsentAssumption DEF MarkerIsFresh, ClientKept, Replace, Pause
<1>3. client' # "none"
  BY DEF WorkerInv, ClientKept, Replace
<1> QED
  BY <1>1, <1>2, <1>3 DEF WorkerInv, NotReadyWithoutClient

\* The steps of the worker between and in its probes.
LEMMA WorkInv == ASSUME WorkerInv, Work PROVE WorkerInv'
<1>1. CASE Clear
  BY <1>1, BeginProbeInv DEF Clear
<1>2. CASE Connected
  BY <1>2, ProceedInv DEF Connected, WorkerInv, TypeOK
<1>3. CASE ConnectFails \/ Unhealthy \/ CheckRaises \/ TimesOut
  BY <1>3, WithdrawInv DEF ConnectFails, Unhealthy, CheckRaises, TimesOut, DropClient
<1>4. CASE Healthy
  BY <1>4, ProceedInv DEF Healthy, WorkerInv, TypeOK
<1>5. CASE WriteTemporary
  BY <1>5, ProceedInv DEF WriteTemporary, WorkerInv, TypeOK, ClientKept
<1>6. CASE WriteFails \/ ReplaceFails
  BY <1>6, WithdrawInv DEF WriteFails, ReplaceFails, WorkerInv, TypeOK, world
<1>7. CASE Replace
  BY <1>7, ReplaceInv
<1>8. CASE Wake
  <2>1. marker' # Absent => marker' <= Period
    BY <1>8 DEF Wake, WorkerInv, MarkerIsFresh
  <2>2. marker' \in 0 .. MaxAge \cup {Absent} /\ (client = "none" => marker' = Absent)
    BY <1>8 DEF Wake, WorkerInv, TypeOK, NotReadyWithoutClient
  <2> QED
    BY <1>8, <2>1, <2>2, BeginProbeInv DEF Wake
<1> QED
  BY <1>1, <1>2, <1>3, <1>4, <1>5, <1>6, <1>7, <1>8 DEF Work

\* Starts, interruption at an await and kill at any point (main).
LEMMA ProcessInv == ASSUME WorkerInv, Boot \/ Interrupt \/ Kill PROVE WorkerInv'
<1>1. temporary' \in BOOLEAN
  <2>1. CASE UNCHANGED temporary
    BY <2>1 DEF WorkerInv, TypeOK
  <2>2. CASE Interrupt
    BY <2>2, Zenon DEF Interrupt
  <2> QED
    BY <2>1, <2>2 DEF Boot, Kill
<1>2. TypeOK'
  BY <1>1, TimingAssumption DEF WorkerInv, TypeOK, Boot, Interrupt, Kill, DropClient, world
<1> QED
  BY <1>2 DEF WorkerInv, MarkerIsFresh, ClientKept, NotReadyWithoutClient, Boot, Interrupt, Kill

\* Changes of Temporal and of the disk touch neither timers nor marker; a
\* connection that goes bad is still kept.
LEMMA WorldInv == ASSUME WorkerInv, TemporalChanges \/ DiskChanges PROVE WorkerInv'
<1>1. TypeOK' /\ (client' = client \/ (client = "live" /\ client' = "broken"))
  BY DEF WorkerInv, TypeOK, TemporalChanges, DiskChanges
<1> QED
  BY <1>1 DEF WorkerInv, MarkerIsFresh, ClientKept, NotReadyWithoutClient, TemporalChanges,
              DiskChanges

\* Time: no timer passes its end, and the marker ages no faster than the
\* timer of the phase.
LEMMA TickInv == ASSUME WorkerInv, Tick PROVE WorkerInv'
<1>1. /\ pc \notin {"writing", "replacing"}
      /\ Probing => elapsed # Timeout
      /\ pc = "sleeping" => elapsed # Period
      /\ elapsed' = IF Probing \/ pc = "sleeping" THEN elapsed + 1 ELSE elapsed
      /\ UNCHANGED <<pc, client, temporal, disk, temporary>>
  BY DEF Tick, Due, world
<1>2. /\ marker' = Absent <=> marker = Absent
      /\ marker # Absent => marker' \in 0 .. MaxAge /\ marker' <= marker + 1 /\ marker \in Nat
  BY TimingAssumption, AbsentAssumption DEF Tick, WorkerInv, TypeOK
<1>3. TypeOK'
  BY <1>1, <1>2, TimingAssumption DEF WorkerInv, TypeOK, Probing
<1>4. MarkerIsFresh'
  BY <1>1, <1>2, TimingAssumption DEF WorkerInv, TypeOK, MarkerIsFresh, Probing
<1> QED
  BY <1>1, <1>2, <1>3, <1>4 DEF WorkerInv, ClientKept, NotReadyWithoutClient

\* Every step keeps the invariant.
LEMMA WorkerStepInv == WorkerInv /\ [Next]_vars => WorkerInv'
<1>1. ASSUME WorkerInv, UNCHANGED vars
      PROVE  WorkerInv'
  BY <1>1 DEF vars, WorkerInv, TypeOK, MarkerIsFresh, ClientKept, NotReadyWithoutClient
<1> QED
  BY <1>1, WorkInv, ProcessInv, WorldInv, TickInv DEF Next

\* The invariant holds always, whatever Temporal, the disk and the container
\* runtime do.
THEOREM WorkerCorrect == Spec => []WorkerInv
BY WorkerInitInv, WorkerStepInv, PTL DEF Spec

\* The worker's process, timers, client and files always have their types; in
\* particular neither a probe nor a pause is ever overdue.
THEOREM TypeCorrect == Spec => []TypeOK
<1>1. WorkerInv => TypeOK
  BY DEF WorkerInv
<1> QED
  BY <1>1, WorkerCorrect, PTL

\* The marker of a running worker never expires, whenever a pause and a probe
\* together are shorter than MAX_AGE_SECONDS (refresh_readiness, main).
THEOREM LiveMarkerNeverExpiresHolds == Spec => []LiveMarkerNeverExpires
<1>1. WorkerInv => LiveMarkerNeverExpires
  <2> SUFFICES ASSUME WorkerInv, pc \notin {"stopped", "killed", "starting"}, marker # Absent
               PROVE  marker <= Timeout + Period /\ Ready
    BY DEF LiveMarkerNeverExpires
  <2>1. marker \in Nat /\ elapsed \in Nat /\ (pc = "sleeping" => elapsed <= Period)
        /\ (pc # "sleeping" => elapsed <= Timeout)
    BY TimingAssumption DEF WorkerInv, TypeOK
  <2>2. marker <= Timeout + Period
    BY <2>1, TimingAssumption DEF WorkerInv, TypeOK, MarkerIsFresh
  <2> QED
    BY <2>1, <2>2, TimingAssumption DEF Ready, IsReady
<1> QED
  BY <1>1, WorkerCorrect, PTL

\* Without a client there is no marker, of this process or of one that was
\* killed before it, once the start has cleared it (check_temporal, main).
THEOREM NotReadyWithoutClientHolds == Spec => []NotReadyWithoutClient
<1>1. WorkerInv => NotReadyWithoutClient
  BY DEF WorkerInv
<1> QED
  BY <1>1, WorkerCorrect, PTL

=============================================================================
