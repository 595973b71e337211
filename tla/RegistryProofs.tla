--------------------------- MODULE RegistryProofs ---------------------------
(***************************************************************************)
(* Proofs about Registry, for any number of agents, configurations and     *)
(* overlapping requests.  The numbering of the configurations is inductive *)
(* together with what the requests in flight know: the max(version) they   *)
(* read is still a number of the agent, so its successor leaves no gap,    *)
(* and the identity they will insert is theirs alone.                      *)
(***************************************************************************)
EXTENDS Registry, TLAPS

CallsSound ==
    \A r \in Calls : Calling(r) =>
        /\ calls[r].latest \in NumbersOf(calls[r].agent) \cup {0}
        /\ ~IsConfig(calls[r].id)
        /\ \A q \in Calls : Calling(q) /\ calls[q].id = calls[r].id => q = r

RegistryInv == RegistryTypeOK /\ ConfigurationsNumbered /\ CallsSound

-----------------------------------------------------------------------------

\* The empty registry satisfies the invariant.
LEMMA RegistryInitInv == RegistryInit => RegistryInv
  BY DEF RegistryInit, RegistryInv, RegistryTypeOK, ConfigurationsNumbered, CallsSound,
         ConfigsOf, NumbersOf, IsConfig, Calling

\* Reading max(version) keeps the types (create_agent_configuration).
LEMMA BeginTyped ==
  ASSUME RegistryTypeOK, NEW r \in Calls, NEW g \in Agents, NEW c \in ConfigIds,
         NEW s \in Settings, BeginConfiguration(r, g, c, s)
  PROVE  RegistryTypeOK'
<1>1. NumbersOf(g) \subseteq Nat
  BY DEF NumbersOf, ConfigsOf, IsConfig, RegistryTypeOK, ConfigRow
<1>2. PICK n \in NumbersOf(g) \cup {0} :
        calls' = [calls EXCEPT ![r] = [agent |-> g, id |-> c, setting |-> s, latest |-> n]]
  BY DEF BeginConfiguration
<1>3. s \in Setting
  BY SettingsAssumption
<1>4. [agent |-> g, id |-> c, setting |-> s, latest |-> n] \in Call
  BY <1>1, <1>3 DEF Call
<1> QED
  BY <1>2, <1>4 DEF BeginConfiguration, RegistryTypeOK

\* So does inserting the row.
LEMMA CommitTyped ==
  ASSUME RegistryTypeOK, NEW r \in Calls, CommitConfiguration(r)
  PROVE  /\ RegistryTypeOK'
         /\ calls[r] \in Call
         /\ [agent |-> calls[r].agent, version |-> calls[r].latest + 1,
             setting |-> calls[r].setting] \in ConfigRow
<1>1. calls[r] \in Call
  BY DEF CommitConfiguration, RegistryTypeOK, Calling
<1>2. [agent |-> calls[r].agent, version |-> calls[r].latest + 1,
       setting |-> calls[r].setting] \in ConfigRow
  BY <1>1 DEF Call, ConfigRow
<1> QED
  BY <1>1, <1>2 DEF CommitConfiguration, RegistryTypeOK

\* A committed configuration extends its agent's numbers by one and changes
\* no row and no other agent.
LEMMA CommitExtends ==
  ASSUME RegistryInv, NEW r \in Calls, CommitConfiguration(r)
  PROVE  /\ \A c \in ConfigIds : IsConfig(c)' <=> IsConfig(c) \/ c = calls[r].id
         /\ \A c \in ConfigIds : IsConfig(c) => configurations'[c] = configurations[c]
         /\ \A g \in Agents : NumbersOf(g)' =
                IF g = calls[r].agent THEN NumbersOf(g) \cup {calls[r].latest + 1} ELSE NumbersOf(g)
<1> DEFINE q == calls[r]
           row == [agent |-> q.agent, version |-> q.latest + 1, setting |-> q.setting]
<1>1. q \in Call /\ row \in ConfigRow
  BY CommitTyped DEF RegistryInv
<1>2. row # NoRow
  BY <1>1, NoConfigAssumption
<1>3. configurations' = [configurations EXCEPT ![q.id] = row] /\ q.id \in ConfigIds
  BY <1>1 DEF CommitConfiguration, Call
<1>4. ~IsConfig(q.id)
  BY DEF RegistryInv, CallsSound, CommitConfiguration
<1>5. /\ configurations'[q.id] = row
      /\ \A c \in ConfigIds : c # q.id => configurations'[c] = configurations[c]
  BY <1>3 DEF RegistryInv, RegistryTypeOK
<1>6. \A c \in ConfigIds : IsConfig(c)' <=> IsConfig(c) \/ c = q.id
  BY <1>2, <1>5 DEF IsConfig
<1>7. \A c \in ConfigIds : IsConfig(c) => configurations'[c] = configurations[c]
  BY <1>4, <1>5
<1>8. \A g \in Agents : ConfigsOf(g)' = IF g = q.agent THEN ConfigsOf(g) \cup {q.id} ELSE ConfigsOf(g)
  BY <1>3, <1>4, <1>5, <1>6 DEF ConfigsOf
<1>9. ASSUME NEW g \in Agents
      PROVE  NumbersOf(g)' = IF g = q.agent THEN NumbersOf(g) \cup {q.latest + 1} ELSE NumbersOf(g)
  <2>1. NumbersOf(g)' = {configurations'[c].version : c \in ConfigsOf(g)'}
    BY DEF NumbersOf
  <2>2. \A c \in ConfigsOf(g) : configurations'[c].version = configurations[c].version
    BY <1>7 DEF ConfigsOf
  <2> QED
    BY <2>1, <2>2, <1>5, <1>8 DEF NumbersOf
<1> QED
  BY <1>6, <1>7, <1>9

\* A committed configuration keeps the numbering: it follows a number the
\* agent has, and UNIQUE (agent_id, version) keeps it the only one.
LEMMA CommitInv ==
  ASSUME RegistryInv, NEW r \in Calls, CommitConfiguration(r)
  PROVE  RegistryInv'
<1> DEFINE q == calls[r]
<1>1. q \in Call /\ RegistryTypeOK'
  BY CommitTyped DEF RegistryInv
<1>2. q.latest \in NumbersOf(q.agent) \cup {0} /\ Calling(r)
  BY DEF RegistryInv, CallsSound, CommitConfiguration
<1>3. /\ configurations'[q.id].version = q.latest + 1
      /\ configurations'[q.id].agent = q.agent
  BY <1>1 DEF CommitConfiguration, RegistryInv, RegistryTypeOK, Call
<1>4. \A c \in ConfigIds : IsConfig(c) => configurations'[c] = configurations[c] /\ c # q.id
  BY CommitExtends, <1>2 DEF RegistryInv, CallsSound
<1>5. ConfigurationsNumbered'
  <2> SUFFICES ASSUME NEW g \in Agents
               PROVE  /\ \A c, d \in ConfigsOf(g)' :
                            configurations'[c].version = configurations'[d].version => c = d
                      /\ \A c \in ConfigsOf(g)' :
                            1 .. configurations'[c].version \subseteq NumbersOf(g)'
    BY DEF ConfigurationsNumbered
  <2>1. \A c \in ConfigsOf(g)' :
            \/ c \in ConfigsOf(g) /\ configurations'[c] = configurations[c]
            \/ c = q.id /\ g = q.agent
    BY <1>3, <1>4, CommitExtends DEF ConfigsOf
  <2>2. NumbersOf(g) \subseteq NumbersOf(g)'
    BY CommitExtends
  <2>3. ~NumberTaken(q.agent, q.latest + 1)
    BY DEF CommitConfiguration
  <2>4. \A c \in ConfigsOf(g) : configurations[c].version \in NumbersOf(g)
    BY DEF NumbersOf
  <2>5. \A c, d \in ConfigsOf(g)' :
            configurations'[c].version = configurations'[d].version => c = d
    BY <2>1, <2>3, <2>4, <1>3 DEF NumberTaken, RegistryInv, ConfigurationsNumbered
  <2>6. ASSUME NEW c \in ConfigsOf(g)'
        PROVE  1 .. configurations'[c].version \subseteq NumbersOf(g)'
    <3>1. CASE c \in ConfigsOf(g) /\ configurations'[c] = configurations[c]
      BY <3>1, <2>2 DEF RegistryInv, ConfigurationsNumbered
    <3>2. CASE c = q.id /\ g = q.agent
      <4>1. q.latest \in Nat
        BY <1>1 DEF Call
      <4>2. 1 .. q.latest \subseteq NumbersOf(g)
        BY <1>2, <3>2, <4>1 DEF RegistryInv, ConfigurationsNumbered, NumbersOf
      <4>3. q.latest + 1 \in NumbersOf(g)'
        BY <3>2, CommitExtends
      <4> QED
        BY <3>2, <4>1, <4>2, <4>3, <1>3, <2>2
    <3> QED
      BY <3>1, <3>2, <2>1
  <2> QED
    BY <2>5, <2>6
<1>6. CallsSound'
  <2> SUFFICES ASSUME NEW s \in Calls, Calling(s)'
               PROVE  /\ (calls[s].latest \in NumbersOf(calls[s].agent) \cup {0})'
                      /\ (~IsConfig(calls[s].id))'
                      /\ \A p \in Calls : Calling(p)' /\ calls'[p].id = calls'[s].id => p = s
    BY DEF CallsSound
  <2>1. \A p \in Calls : Calling(p)' => p # r /\ Calling(p) /\ calls'[p] = calls[p]
    BY DEF CommitConfiguration, Calling, RegistryInv, RegistryTypeOK
  <2>2. calls[s] \in Call
    BY <2>1 DEF RegistryInv, RegistryTypeOK, Calling
  <2>3. \A g \in Agents : NumbersOf(g) \subseteq NumbersOf(g)'
    BY CommitExtends
  <2>4. calls[s].latest \in NumbersOf(calls[s].agent) \cup {0}
    BY <2>1 DEF RegistryInv, CallsSound
  <2>6. (calls[s].latest \in NumbersOf(calls[s].agent) \cup {0})'
    BY <2>1, <2>2, <2>3, <2>4 DEF Call, NumbersOf, ConfigsOf, IsConfig
  <2>7. ~IsConfig(calls[s].id) /\ calls[s].id # q.id /\ calls[s].id \in ConfigIds
    BY <2>1, <2>2, <1>2 DEF RegistryInv, CallsSound, Call
  <2>8. (~IsConfig(calls[s].id))'
    BY <2>1, <2>7, CommitExtends DEF IsConfig
  <2>9. \A p \in Calls : Calling(p)' /\ calls'[p].id = calls'[s].id => p = s
    BY <2>1 DEF RegistryInv, CallsSound
  <2> QED
    BY <2>1, <2>6, <2>8, <2>9
<1> QED
  BY <1>1, <1>5, <1>6 DEF RegistryInv

\* Every operation of the registry keeps the invariant.
LEMMA RegistryStepInv == RegistryInv /\ [RegistryNext]_registry => RegistryInv'
<1> SUFFICES ASSUME RegistryInv, [RegistryNext]_registry
             PROVE  RegistryInv'
  OBVIOUS
<1> USE DEF RegistryInv
<1>a. ASSUME UNCHANGED configurations
      PROVE  /\ ConfigurationsNumbered'
             /\ \A g \in Agents : NumbersOf(g)' = NumbersOf(g)
             /\ \A c : IsConfig(c)' <=> IsConfig(c)
  BY <1>a DEF ConfigurationsNumbered, ConfigsOf, NumbersOf, IsConfig
<1>b. ASSUME UNCHANGED <<configurations, calls>>
      PROVE  CallsSound'
  BY <1>b DEF CallsSound, ConfigsOf, NumbersOf, IsConfig, Calling
<1>1. CASE UNCHANGED registry
  BY <1>1, <1>a, <1>b DEF registry, RegistryTypeOK
<1>2. ASSUME NEW p \in Projects, CreateProject(p)
      PROVE  RegistryInv'
  BY <1>2, <1>a, <1>b DEF CreateProject, RegistryTypeOK
<1>3. ASSUME NEW g \in Agents, CreateAgent(g)
      PROVE  RegistryInv'
  BY <1>3, <1>a, <1>b DEF CreateAgent, RegistryTypeOK
<1>4. ASSUME NEW p \in Projects, NEW n \in Names, NEW v \in BOOLEAN, CreateRepository(p, n, v)
      PROVE  RegistryInv'
  BY <1>4, <1>a, <1>b DEF CreateRepository, RegistryTypeOK, RepositoryRow
<1>5. ASSUME NEW r \in Calls, NEW g \in Agents, NEW c \in ConfigIds, NEW s \in Settings,
             BeginConfiguration(r, g, c, s)
      PROVE  RegistryInv'
  <2>1. RegistryTypeOK'
    BY <1>5, BeginTyped
  <2>2. UNCHANGED configurations
    BY <1>5 DEF BeginConfiguration
  <2>3. PICK n \in NumbersOf(g) \cup {0} :
          calls' = [calls EXCEPT ![r] = [agent |-> g, id |-> c, setting |-> s, latest |-> n]]
    BY <1>5 DEF BeginConfiguration
  <2>4. /\ ~IsConfig(c)
        /\ \A q \in Calls : Calling(q) => calls[q].id # c
    BY <1>5 DEF BeginConfiguration
  <2>5. calls \in [Calls -> Call \cup {NoRow}]
    BY DEF RegistryTypeOK
  <2>6. /\ calls'[r] = [agent |-> g, id |-> c, setting |-> s, latest |-> n]
        /\ \A q \in Calls : q # r => calls'[q] = calls[q]
    BY <2>3, <2>5
  <2>7. \A q \in Calls : Calling(q) => calls[q].agent \in Agents
    BY <2>5 DEF Calling, Call
  <2>8. CallsSound'
    <3> SUFFICES ASSUME NEW q \in Calls, Calling(q)'
                 PROVE  /\ (calls[q].latest \in NumbersOf(calls[q].agent) \cup {0})'
                        /\ (~IsConfig(calls[q].id))'
                        /\ \A p \in Calls : Calling(p)' /\ calls'[p].id = calls'[q].id => p = q
      BY DEF CallsSound
    <3>1. CASE q = r
      BY <3>1, <2>2, <2>4, <2>6, <1>a DEF Calling
    <3>2. CASE q # r
      <4>1. Calling(q) /\ calls'[q] = calls[q]
        BY <3>2, <2>6 DEF Calling
      <4>2. NumbersOf(calls[q].agent)' = NumbersOf(calls[q].agent)
        BY <4>1, <2>2 DEF NumbersOf, ConfigsOf, IsConfig
      <4> QED
        BY <4>1, <4>2, <2>2, <2>4, <2>6 DEF CallsSound, Calling, IsConfig
    <3> QED
      BY <3>1, <3>2
  <2> QED
    BY <2>1, <2>2, <2>8, <1>a
<1>6. ASSUME NEW r \in Calls, CommitConfiguration(r)
      PROVE  RegistryInv'
  BY <1>6, CommitInv
<1>7. ASSUME NEW r \in Calls, AbandonConfiguration(r)
      PROVE  RegistryInv'
  <2>1. /\ UNCHANGED <<projects, repositories, agents, configurations>>
        /\ calls' = [calls EXCEPT ![r] = NoRow]
    BY <1>7 DEF AbandonConfiguration
  <2>2. RegistryTypeOK'
    BY <2>1 DEF RegistryTypeOK
  <2>3. \A q \in Calls : Calling(q)' => Calling(q) /\ calls'[q] = calls[q]
    BY <2>1 DEF Calling, RegistryTypeOK
  <2>4. CallsSound'
    BY <2>1, <2>3, <1>a DEF CallsSound, NumbersOf, ConfigsOf, IsConfig
  <2> QED
    BY <2>1, <2>2, <2>4, <1>a
<1> QED
  BY <1>1, <1>2, <1>3, <1>4, <1>5, <1>6, <1>7 DEF RegistryNext

\* The registry's invariant holds always.
THEOREM RegistryCorrect == RegistrySpec => []RegistryInv
<1>1. RegistryInit => RegistryInv
  BY RegistryInitInv
<1>2. RegistryInv /\ [RegistryNext]_registry => RegistryInv'
  BY RegistryStepInv
<1> QED
  BY <1>1, <1>2, PTL DEF RegistrySpec

\* The configurations of an agent are numbered without a gap or a repetition,
\* for any number of requests that read max(version) before others insert.
THEOREM ConfigurationsNumberedHolds == RegistrySpec => []ConfigurationsNumbered
<1>1. RegistryInv => ConfigurationsNumbered
  BY DEF RegistryInv
<1> QED
  BY <1>1, RegistryCorrect, PTL

=============================================================================
