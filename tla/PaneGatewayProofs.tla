------------------------- MODULE PaneGatewayProofs -------------------------
(***************************************************************************)
(* Proofs about PaneGateway: observations never cross the runs of a world, *)
(* and, with a steady clock and a relay that waits for its answers, no     *)
(* pane changed after it was observed.                                     *)
(***************************************************************************)
EXTENDS PaneGateway, TLAPS

-----------------------------------------------------------------------------
(* Types *)

PaneSets == UNION {[S -> Snapshot] : S \in SUBSET Panes}

LEMMA ConnectionTyped == Closed \notin Connection
  BY DEF Closed, Connection

LEMMA NoPanesTyped == NoPanes \in PaneSets
<1>1. NoPanes \in [{} -> Snapshot]
  BY DEF NoPanes
<1> QED BY <1>1 DEF PaneSets

\* What a report leaves behind is a snapshot of its panes.
LEMMA ReplacementTyped ==
    ASSUME NEW existing \in PaneSets, NEW panes \in Report, NEW t \in Time
    PROVE  replace_pane_observations(existing, panes, t) \in PaneSets
<1>1. PICK S \in SUBSET Panes : existing \in [S -> Snapshot]
  BY DEF PaneSets
<1>2. PICK R \in SUBSET Panes : panes \in [R -> Fingerprints]
  BY DEF Report
<1>3. ASSUME NEW p \in R PROVE Replacement(existing, panes, t, p) \in Snapshot
  <2>1. panes[p] \in Fingerprints
    BY <1>2
  <2>2. p \in S => existing[p].changed_at \in Time
    BY <1>1 DEF Snapshot
  <2> QED BY <1>1, <2>1, <2>2 DEF Replacement, Snapshot
<1>4. replace_pane_observations(existing, panes, t) \in [R -> Snapshot]
  BY <1>2, <1>3 DEF replace_pane_observations
<1> QED BY <1>4 DEF PaneSets

LEMMA PaneTypeInit == PaneInit => PaneTypeOK
  BY NoPanesTyped, PaneAssumption DEF PaneInit, PaneTypeOK, PaneSets, Time

LEMMA GenerationTyped ==
    ASSUME NEW g \in 0 .. GENERATIONS - 1
    PROVE  advance_pane_generation(g) \in 0 .. GENERATIONS - 1
  BY PaneAssumption DEF advance_pane_generation

LEMMA PaneTypeStep == PaneTypeOK /\ [PaneNext]_paneVars => PaneTypeOK'
<1> SUFFICES ASSUME PaneTypeOK, [PaneNext]_paneVars PROVE PaneTypeOK'
  OBVIOUS
<1> USE ConnectionTyped
<1>1. CASE UNCHANGED paneVars
  BY <1>1 DEF paneVars, gateway, history, PaneTypeOK
<1>2. ASSUME NEW c \in Connections, send_transport(c) PROVE PaneTypeOK'
  <2>1. PICK w \in Worlds, panes \in Report :
          conns' = [conns EXCEPT ![c] =
               [at |-> "accepted", world |-> w, panes |-> panes, generation |-> 0,
                observed_at |-> 0, flips |-> 0, waited |-> TRUE]]
    BY <1>2 DEF send_transport
  <2>2. [at |-> "accepted", world |-> w, panes |-> panes, generation |-> 0,
         observed_at |-> 0, flips |-> 0, waited |-> TRUE] \in Connection
    BY PaneAssumption DEF Connection, Time
  <2> QED BY <1>2, <2>1, <2>2 DEF send_transport, gateway, history, PaneTypeOK
<1>3. ASSUME NEW c \in Connections, RelayRestart(c) PROVE PaneTypeOK'
  <2>1. [conns[c] EXCEPT !.waited = FALSE] \in Connection
    BY <1>3 DEF RelayRestart, PaneTypeOK, Connection
  <2> QED BY <1>3, <2>1 DEF RelayRestart, gateway, history, PaneTypeOK
<1>4. ASSUME NEW c \in Connections, authorize(c) PROVE PaneTypeOK'
  <2>1. conns[c] \in Connection
    BY <1>4 DEF authorize, At, PaneTypeOK
  <2>2. [conns[c] EXCEPT !.at = "authorized", !.generation = generations[conns[c].world],
                         !.flips = flips[conns[c].world]] \in Connection
    BY <2>1 DEF Connection, PaneTypeOK
  <2> QED BY <1>4, <2>2 DEF authorize, Close, gateway, history, PaneTypeOK
<1>5. ASSUME NEW c \in Connections, now_unix_ms(c) PROVE PaneTypeOK'
  <2>1. [conns[c] EXCEPT !.at = "stamped", !.observed_at = now] \in Connection
    BY <1>5 DEF now_unix_ms, At, PaneTypeOK, Connection
  <2> QED BY <1>5, <2>1 DEF now_unix_ms, gateway, history, PaneTypeOK
<1>6. ASSUME NEW c \in Connections, store_pane_observations(c) PROVE PaneTypeOK'
  <2>1. conns[c] \in Connection
    BY <1>6 DEF store_pane_observations, At, PaneTypeOK
  <2>2. /\ conns[c].world \in Worlds /\ conns[c].panes \in Report
        /\ conns[c].observed_at \in Time /\ conns[c].flips \in 0 .. MaxFlips
    BY <2>1 DEF Connection
  <2>3. replace_pane_observations(snapshots[conns[c].world], conns[c].panes,
                                  conns[c].observed_at) \in PaneSets
    BY <2>2, ReplacementTyped DEF PaneTypeOK, PaneSets
  <2>4. snapshots' \in [Worlds -> PaneSets]
    BY <1>6, <2>2, <2>3 DEF store_pane_observations, PaneTypeOK, PaneSets
  <2> QED BY <1>6, <2>2, <2>4 DEF store_pane_observations, Close, PaneTypeOK, PaneSets
<1>7. ASSUME NEW w \in Worlds, Activity(w) PROVE PaneTypeOK'
  <2>1. advance_pane_generation(generations[w]) \in 0 .. GENERATIONS - 1
    BY GenerationTyped DEF PaneTypeOK
  <2>2. inactive_worlds' \in SUBSET Worlds
    BY <1>7 DEF Activity, activate_world, deactivate_world, PaneTypeOK
  <2>3. generations' \in [Worlds -> 0 .. GENERATIONS - 1]
    BY <1>7, <2>1 DEF Activity, activate_world, deactivate_world, PaneTypeOK
  <2>4. snapshots' \in [Worlds -> PaneSets]
    BY <1>7, NoPanesTyped DEF Activity, activate_world, deactivate_world, PaneTypeOK, PaneSets
  <2>5. \A v \in Worlds : v # w => (v \in inactive_worlds <=> v \in inactive_worlds')
    BY <1>7 DEF Activity, activate_world, deactivate_world
  <2>6. flips' \in [Worlds -> 0 .. MaxFlips]
    BY <1>7, <2>5, PaneAssumption DEF Activity, CountFlips, PaneTypeOK
  <2> QED BY <1>7, <2>2, <2>3, <2>4, <2>6 DEF Activity, PaneTypeOK, PaneSets
<1>8. CASE ClockAdvances
  BY <1>8, PaneAssumption DEF ClockAdvances, gateway, history, PaneTypeOK, Time
<1>9. CASE ClockSetBack
  BY <1>9, PaneAssumption DEF ClockSetBack, gateway, history, PaneTypeOK, Time
<1>10. CASE GatewayRestart
  BY <1>10, NoPanesTyped, PaneAssumption DEF GatewayRestart, PaneTypeOK, PaneSets
<1> QED
  BY <1>1, <1>2, <1>3, <1>4, <1>5, <1>6, <1>7, <1>8, <1>9, <1>10 DEF PaneNext

-----------------------------------------------------------------------------
(* Observations do not cross the runs of a world *)

PaneInv == PaneTypeOK /\ InactiveShowsNothing /\ ShownFromThisRun /\ RunInv

LEMMA StoredFollows == PaneTypeOK /\ RunInv => StoredInItsRun
<1> SUFFICES ASSUME PaneTypeOK, RunInv, NEW c \in Connections,
                    conns[c] # Closed, conns[c].at # "accepted",
                    conns[c].flips = flips[conns[c].world]
             PROVE  Storable(c)
  BY DEF StoredInItsRun
<1>1. conns[c].world \in Worlds
  BY ConnectionTyped DEF PaneTypeOK, Connection
<1> QED BY <1>1 DEF RunInv, Storable

LEMMA RunStep == PaneInv /\ [PaneNext]_paneVars =>
                 InactiveShowsNothing' /\ ShownFromThisRun' /\ RunInv'
<1> SUFFICES ASSUME PaneInv, [PaneNext]_paneVars
             PROVE  InactiveShowsNothing' /\ ShownFromThisRun' /\ RunInv'
  OBVIOUS
<1> USE ConnectionTyped
<1>0. PaneTypeOK /\ InactiveShowsNothing /\ ShownFromThisRun /\ RunInv
  BY DEF PaneInv
<1>c. ASSUME NEW c \in Connections, conns[c] # Closed
      PROVE  conns[c] \in Connection /\ conns[c].world \in Worlds
  BY <1>0, <1>c DEF PaneTypeOK, Connection
\* Only the connections change.
<1>k. ASSUME UNCHANGED <<gateway, history>> PROVE InactiveShowsNothing' /\ ShownFromThisRun'
  BY <1>0, <1>k DEF gateway, history, InactiveShowsNothing, ShownFromThisRun
<1>1. CASE UNCHANGED paneVars
  BY <1>0, <1>1 DEF paneVars, gateway, history, InactiveShowsNothing, ShownFromThisRun, RunInv
<1>2. ASSUME NEW c \in Connections, send_transport(c)
      PROVE  InactiveShowsNothing' /\ ShownFromThisRun' /\ RunInv'
  <2>1. PICK w \in Worlds, panes \in Report :
          conns' = [conns EXCEPT ![c] =
               [at |-> "accepted", world |-> w, panes |-> panes, generation |-> 0,
                observed_at |-> 0, flips |-> 0, waited |-> TRUE]]
    BY <1>2 DEF send_transport
  <2>2. conns'[c].at = "accepted" /\ \A d \in Connections : d # c => conns'[d] = conns[d]
    BY <1>0, <2>1 DEF PaneTypeOK
  <2>3. UNCHANGED <<gateway, history>>
    BY <1>2 DEF send_transport
  <2> QED BY <1>0, <1>k, <2>2, <2>3 DEF gateway, history, RunInv
<1>3. ASSUME NEW c \in Connections, RelayRestart(c)
      PROVE  InactiveShowsNothing' /\ ShownFromThisRun' /\ RunInv'
  <2>1. conns[c] \in Connection /\ conns' = [conns EXCEPT ![c] = [conns[c] EXCEPT !.waited = FALSE]]
    BY <1>3, <1>c DEF RelayRestart
  <2>2. /\ conns'[c].at = conns[c].at /\ conns'[c].generation = conns[c].generation
        /\ conns'[c].flips = conns[c].flips /\ conns'[c].world = conns[c].world
        /\ \A d \in Connections : d # c => conns'[d] = conns[d]
    BY <1>0, <2>1 DEF PaneTypeOK, Connection
  <2>3. UNCHANGED <<gateway, history>> /\ conns[c] # Closed
    BY <1>3 DEF RelayRestart
  <2> QED BY <1>0, <1>k, <2>2, <2>3 DEF gateway, history, RunInv
<1>4. ASSUME NEW c \in Connections, authorize(c)
      PROVE  InactiveShowsNothing' /\ ShownFromThisRun' /\ RunInv'
  <2>1. UNCHANGED <<gateway, history>> /\ conns[c] \in Connection /\ conns[c].world \in Worlds
    BY <1>4, <1>c DEF authorize, At
  <2>2. CASE Close(c)
    BY <1>0, <1>k, <2>1, <2>2 DEF Close, gateway, history, RunInv, PaneTypeOK
  <2>3. CASE ~Close(c)
    <3>1. /\ conns[c].world \notin inactive_worlds
          /\ conns' = [conns EXCEPT ![c] =
                 [conns[c] EXCEPT !.at = "authorized", !.generation = generations[conns[c].world],
                                  !.flips = flips[conns[c].world]]]
      BY <1>4, <2>3 DEF authorize
    <3>2. /\ conns'[c].generation = generations[conns[c].world]
          /\ conns'[c].flips = flips[conns[c].world] /\ conns'[c].world = conns[c].world
          /\ \A d \in Connections : d # c => conns'[d] = conns[d]
      BY <1>0, <2>1, <3>1 DEF PaneTypeOK, Connection
    <3>3. flips[conns[c].world] <= flips[conns[c].world]
      BY <1>0, <2>1, PaneAssumption DEF PaneTypeOK
    <3> QED BY <1>0, <1>k, <2>1, <3>1, <3>2, <3>3 DEF gateway, history, RunInv
  <2> QED BY <2>2, <2>3
<1>5. ASSUME NEW c \in Connections, now_unix_ms(c)
      PROVE  InactiveShowsNothing' /\ ShownFromThisRun' /\ RunInv'
  <2>1. /\ conns[c] \in Connection /\ conns[c].at = "authorized" /\ conns[c] # Closed
        /\ conns' = [conns EXCEPT ![c] = [conns[c] EXCEPT !.at = "stamped", !.observed_at = now]]
    BY <1>5, <1>c DEF now_unix_ms, At
  <2>2. /\ conns'[c].generation = conns[c].generation
        /\ conns'[c].flips = conns[c].flips /\ conns'[c].world = conns[c].world
        /\ \A d \in Connections : d # c => conns'[d] = conns[d]
    BY <1>0, <2>1 DEF PaneTypeOK, Connection
  <2>3. UNCHANGED <<gateway, history>>
    BY <1>5 DEF now_unix_ms
  <2> QED BY <1>0, <1>k, <2>1, <2>2, <2>3 DEF gateway, history, RunInv
<1>6. ASSUME NEW c \in Connections, store_pane_observations(c)
      PROVE  InactiveShowsNothing' /\ ShownFromThisRun' /\ RunInv'
  <2>1. /\ conns[c].world \in Worlds /\ conns[c] # Closed /\ conns[c].at = "stamped"
        /\ UNCHANGED <<inactive_worlds, generations, flips>> /\ Close(c)
    BY <1>6, <1>c DEF store_pane_observations, At
  <2>2. RunInv'
    BY <1>0, <2>1 DEF Close, RunInv, PaneTypeOK
  <2>3. CASE UNCHANGED <<snapshots, source>>
    BY <1>0, <2>1, <2>2, <2>3 DEF InactiveShowsNothing, ShownFromThisRun
  <2>4. CASE ~UNCHANGED <<snapshots, source>>
    <3>1. /\ Storable(c) /\ source' = [source EXCEPT ![conns[c].world] = conns[c].flips]
          /\ \A w \in Worlds : w # conns[c].world => snapshots'[w] = snapshots[w]
      BY <1>0, <1>6, <2>4 DEF store_pane_observations, PaneTypeOK
    <3>2. conns[c].flips = flips[conns[c].world] /\ conns[c].world \notin inactive_worlds
      BY <1>0, <2>1, <3>1 DEF Storable, RunInv
    <3>3. InactiveShowsNothing'
      BY <1>0, <2>1, <3>1, <3>2 DEF InactiveShowsNothing, PaneTypeOK
    <3>4. ShownFromThisRun'
      BY <1>0, <2>1, <3>1, <3>2 DEF ShownFromThisRun, PaneTypeOK
    <3> QED BY <2>2, <3>3, <3>4
  <2> QED BY <2>3, <2>4
<1>7. ASSUME NEW w \in Worlds, Activity(w)
      PROVE  InactiveShowsNothing' /\ ShownFromThisRun' /\ RunInv'
  <2>1. /\ UNCHANGED <<conns, source>> /\ flips[w] < MaxFlips
        /\ CountFlips
    BY <1>7 DEF Activity
  <2>2. ASSUME NEW v \in Worlds, v # w
        PROVE  /\ v \in inactive_worlds' <=> v \in inactive_worlds
               /\ snapshots'[v] = snapshots[v] /\ generations'[v] = generations[v]
               /\ flips'[v] = flips[v]
    BY <1>0, <1>7, <2>2 DEF Activity, activate_world, deactivate_world, CountFlips, PaneTypeOK
  <2>3. \/ w \in inactive_worlds' <=> w \in inactive_worlds
        \/ snapshots'[w] = NoPanes
    BY <1>0, <1>7 DEF Activity, activate_world, deactivate_world, InactiveShowsNothing, PaneTypeOK
  <2>4. snapshots'[w] = snapshots[w] \/ snapshots'[w] = NoPanes
    BY <1>0, <1>7 DEF Activity, activate_world, deactivate_world, PaneTypeOK
  <2>5. w \in inactive_worlds' => snapshots'[w] = NoPanes
    BY <1>0, <1>7 DEF Activity, activate_world, deactivate_world, InactiveShowsNothing, PaneTypeOK
  <2>6. \/ /\ w \in inactive_worlds' <=> w \in inactive_worlds
           /\ flips'[w] = flips[w] /\ generations'[w] = generations[w]
        \/ /\ flips'[w] = flips[w] + 1
           /\ generations'[w] = advance_pane_generation(generations[w])
    BY <1>0, <1>7 DEF Activity, activate_world, deactivate_world, CountFlips, PaneTypeOK
  <2>6a. (w \in inactive_worlds' <=> w \in inactive_worlds) => flips'[w] = flips[w]
    BY <2>1 DEF CountFlips
  <2>7. flips[w] + 1 < GENERATIONS /\ flips[w] \in Nat
    BY <1>0, <2>1, PaneAssumption DEF PaneTypeOK
  <2>8. generations'[w] = flips'[w]
    BY <1>0, <2>6, <2>7 DEF advance_pane_generation, RunInv
  <2>9. InactiveShowsNothing'
    <3>1. \A v \in inactive_worlds' : v \in Worlds
      BY <1>0, <1>7 DEF Activity, activate_world, deactivate_world, PaneTypeOK
    <3> QED BY <1>0, <2>2, <2>5, <3>1 DEF InactiveShowsNothing
  <2>10. ShownFromThisRun'
    BY <1>0, <2>1, <2>2, <2>3, <2>4, <2>6a DEF ShownFromThisRun
  <2>11. ASSUME NEW c \in Connections, conns[c] # Closed, conns[c].at # "accepted"
         PROVE  /\ conns[c].generation = conns[c].flips
                /\ conns[c].flips <= flips'[conns[c].world]
                /\ conns[c].flips = flips'[conns[c].world] => conns[c].world \notin inactive_worlds'
    <3>1. /\ conns[c].world \in Worlds /\ conns[c].flips \in Nat
          /\ conns[c].generation = conns[c].flips
          /\ conns[c].flips <= flips[conns[c].world]
          /\ conns[c].flips = flips[conns[c].world] => conns[c].world \notin inactive_worlds
      BY <1>0, <1>c, <2>11, PaneAssumption DEF RunInv, Connection
    <3>2. CASE conns[c].world # w
      BY <2>2, <3>1, <3>2
    <3>3. CASE conns[c].world = w
      BY <2>6, <2>7, <3>1, <3>3
    <3> QED BY <3>2, <3>3
  <2> QED BY <1>0, <2>1, <2>2, <2>8, <2>9, <2>10, <2>11 DEF RunInv
<1>8. CASE ClockAdvances \/ ClockSetBack
  BY <1>0, <1>k, <1>8 DEF ClockAdvances, ClockSetBack, gateway, history, RunInv
<1>9. CASE GatewayRestart
  BY <1>9 DEF GatewayRestart, InactiveShowsNothing, ShownFromThisRun, RunInv
<1> QED
  BY <1>1, <1>2, <1>3, <1>4, <1>5, <1>6, <1>7, <1>8, <1>9 DEF PaneNext

\* In every reachable state a stopped world shows no panes, the panes of a
\* running world were reported in its current run, and a report of the current
\* run is going to be stored: for any number of worlds, panes and connections,
\* any clock, and relays that restart.
THEOREM RunsSeparated ==
    PaneSpec => [](InactiveShowsNothing /\ ShownFromThisRun /\ StoredInItsRun)
<1>1. PaneInit => PaneInv
  <2>1. PaneInit => InactiveShowsNothing /\ ShownFromThisRun /\ RunInv
    BY DEF PaneInit, InactiveShowsNothing, ShownFromThisRun, RunInv
  <2> QED BY <2>1, PaneTypeInit DEF PaneInv
<1>2. PaneInv /\ [PaneNext]_paneVars => PaneInv'
  BY PaneTypeStep, RunStep DEF PaneInv
<1>3. PaneInv => InactiveShowsNothing /\ ShownFromThisRun /\ StoredInItsRun
  BY StoredFollows DEF PaneInv
<1> QED
  BY <1>1, <1>2, <1>3, PTL DEF PaneSpec

\* A report that was authorised in the current run of its world can still be
\* stored: no activation, restart or report of another relay makes it expire.
THEOREM CurrentReportsStored == PaneSpec => []StoredInItsRun
BY RunsSeparated, PTL

-----------------------------------------------------------------------------
(* The times of a pane are in order *)

OrderInv == PaneTypeOK /\ TimeInv /\ ChangedBeforeObserved

\* A report whose time is not before the stored ones leaves ordered times behind.
LEMMA ReplacementOrdered ==
    ASSUME NEW existing \in PaneSets, NEW panes \in Report, NEW t \in Time,
           \A p \in DOMAIN existing : /\ existing[p].changed_at <= existing[p].observed_at
                                      /\ existing[p].observed_at <= t,
           NEW q \in DOMAIN replace_pane_observations(existing, panes, t)
    PROVE  /\ replace_pane_observations(existing, panes, t)[q].changed_at <= t
           /\ replace_pane_observations(existing, panes, t)[q].observed_at = t
<1>1. PICK S \in SUBSET Panes : existing \in [S -> Snapshot]
  BY DEF PaneSets
<1>2. q \in DOMAIN panes
  BY DEF replace_pane_observations
<1>3. replace_pane_observations(existing, panes, t)[q] = Replacement(existing, panes, t, q)
  BY <1>2 DEF replace_pane_observations
<1>4. Replacement(existing, panes, t, q).observed_at = t
  BY DEF Replacement
<1>5. Replacement(existing, panes, t, q).changed_at <= t
  <2>1. t \in Nat
    BY PaneAssumption DEF Time
  <2>2. CASE q \in DOMAIN existing /\ existing[q].fingerprint = panes[q]
    <3>1. existing[q].changed_at \in Nat /\ existing[q].observed_at \in Nat
      BY <1>1, <2>2, PaneAssumption DEF Snapshot, Time
    <3>2. Replacement(existing, panes, t, q).changed_at = existing[q].changed_at
      BY <2>2 DEF Replacement
    <3> QED BY <2>1, <2>2, <3>1, <3>2
  <2>3. CASE ~(q \in DOMAIN existing /\ existing[q].fingerprint = panes[q])
    <3>1. Replacement(existing, panes, t, q).changed_at = t
      BY <2>3 DEF Replacement
    <3> QED BY <2>1, <3>1
  <2> QED BY <2>2, <2>3
<1> QED BY <1>3, <1>4, <1>5

LEMMA TimeStep ==
    ASSUME ~ClockSteps, ~RelayRestarts, OrderInv, [PaneNext]_paneVars
    PROVE  TimeInv' /\ ChangedBeforeObserved'
<1> USE ConnectionTyped
<1>0. PaneTypeOK /\ TimeInv /\ ChangedBeforeObserved
  BY DEF OrderInv
<1>c. ASSUME NEW c \in Connections, conns[c] # Closed
      PROVE  conns[c] \in Connection /\ conns[c].world \in Worlds
  BY <1>0, <1>c DEF PaneTypeOK, Connection
<1>n. now \in Nat
  BY <1>0, PaneAssumption DEF PaneTypeOK, Time
<1>1. CASE UNCHANGED paneVars
  BY <1>0, <1>1 DEF paneVars, gateway, TimeInv, At, ChangedBeforeObserved
<1>2. ASSUME NEW c \in Connections, send_transport(c) PROVE TimeInv' /\ ChangedBeforeObserved'
  <2>1. PICK w \in Worlds, panes \in Report :
          /\ \A d \in Connections : conns[d] # Closed /\ conns[d].world = w => ~conns[d].waited
          /\ conns' = [conns EXCEPT ![c] =
               [at |-> "accepted", world |-> w, panes |-> panes, generation |-> 0,
                observed_at |-> 0, flips |-> 0, waited |-> TRUE]]
    BY <1>2 DEF send_transport
  <2>2. /\ conns'[c].at = "accepted" /\ conns'[c].world = w /\ conns'[c].waited
        /\ \A d \in Connections : d # c => conns'[d] = conns[d]
    BY <1>0, <2>1 DEF PaneTypeOK
  <2>3. \A d \in Connections : conns[d] # Closed => conns[d].world # w
    BY <1>0, <2>1 DEF TimeInv
  <2>4. UNCHANGED <<snapshots, now>>
    BY <1>2 DEF send_transport, gateway
  <2> QED BY <1>0, <2>2, <2>3, <2>4 DEF TimeInv, At, ChangedBeforeObserved
<1>4. ASSUME NEW c \in Connections, authorize(c) PROVE TimeInv' /\ ChangedBeforeObserved'
  <2>1. /\ UNCHANGED <<snapshots, now>>
        /\ conns[c] # Closed /\ conns[c] \in Connection /\ conns[c].world \in Worlds
    BY <1>4, <1>c DEF authorize, At, gateway
  <2>2. CASE Close(c)
    <3>1. conns'[c] = Closed /\ \A d \in Connections : d # c => conns'[d] = conns[d]
      BY <1>0, <2>2 DEF Close, PaneTypeOK
    <3> QED BY <1>0, <2>1, <3>1 DEF TimeInv, At, ChangedBeforeObserved
  <2>3. CASE ~Close(c)
    <3>1. conns' = [conns EXCEPT ![c] =
             [conns[c] EXCEPT !.at = "authorized", !.generation = generations[conns[c].world],
                              !.flips = flips[conns[c].world]]]
      BY <1>4, <2>3 DEF authorize
    <3>2. /\ conns'[c].at = "authorized" /\ conns'[c].world = conns[c].world
          /\ conns'[c].waited = conns[c].waited
          /\ \A d \in Connections : d # c => conns'[d] = conns[d]
      BY <1>0, <2>1, <3>1 DEF PaneTypeOK, Connection
    <3> QED BY <1>0, <2>1, <3>2 DEF TimeInv, At, ChangedBeforeObserved
  <2> QED BY <2>2, <2>3
<1>5. ASSUME NEW c \in Connections, now_unix_ms(c) PROVE TimeInv' /\ ChangedBeforeObserved'
  <2>1. /\ UNCHANGED <<snapshots, now>> /\ conns[c] # Closed
        /\ conns[c] \in Connection /\ conns[c].world \in Worlds
        /\ conns' = [conns EXCEPT ![c] = [conns[c] EXCEPT !.at = "stamped", !.observed_at = now]]
    BY <1>5, <1>c DEF now_unix_ms, At, gateway
  <2>2. /\ conns'[c].observed_at = now /\ conns'[c].world = conns[c].world
        /\ conns'[c].waited = conns[c].waited
        /\ \A d \in Connections : d # c => conns'[d] = conns[d]
    BY <1>0, <2>1 DEF PaneTypeOK, Connection
  <2> QED BY <1>0, <1>n, <2>1, <2>2 DEF TimeInv, At, ChangedBeforeObserved
<1>6. ASSUME NEW c \in Connections, store_pane_observations(c)
      PROVE  TimeInv' /\ ChangedBeforeObserved'
  <2>1. /\ At(c, "stamped") /\ conns[c] # Closed /\ UNCHANGED now
        /\ conns'[c] = Closed /\ \A d \in Connections : d # c => conns'[d] = conns[d]
    BY <1>0, <1>6 DEF store_pane_observations, At, Close, PaneTypeOK
  <2> DEFINE v == conns[c].world
             t == conns[c].observed_at
  <2>2. v \in Worlds /\ conns[c].panes \in Report /\ t \in Time /\ t \in Nat
    BY <1>c, <2>1, PaneAssumption DEF Connection, Time
  <2>3. CASE UNCHANGED snapshots
    BY <1>0, <2>1, <2>3 DEF TimeInv, At, ChangedBeforeObserved
  <2>4. CASE ~UNCHANGED snapshots
    <3>1. /\ snapshots'[v] = replace_pane_observations(snapshots[v], conns[c].panes, t)
          /\ \A w \in Worlds : w # v => snapshots'[w] = snapshots[w]
      BY <1>0, <1>6, <2>2, <2>4 DEF store_pane_observations, PaneTypeOK
    <3>2. t <= now
      BY <1>0, <2>1 DEF TimeInv
    <3>3. \A p \in DOMAIN snapshots[v] : /\ snapshots[v][p].changed_at <= snapshots[v][p].observed_at
                                         /\ snapshots[v][p].observed_at <= t
      BY <1>0, <2>1, <2>2 DEF TimeInv, ChangedBeforeObserved
    <3>4. \A p \in DOMAIN snapshots'[v] : /\ snapshots'[v][p].changed_at <= t
                                          /\ snapshots'[v][p].observed_at = t
      <4>1. snapshots[v] \in PaneSets
        BY <1>0, <2>2 DEF PaneTypeOK, PaneSets
      <4> QED BY <2>2, <3>1, <3>3, <4>1, ReplacementOrdered
    <3>5. ChangedBeforeObserved'
      BY <1>0, <3>1, <3>4 DEF ChangedBeforeObserved
    <3>6. \A d \in Connections : conns'[d] # Closed => conns'[d] = conns[d] /\ conns[d].world # v
      BY <1>0, <2>1 DEF TimeInv
    <3>7. \A w \in Worlds : \A p \in DOMAIN snapshots'[w] : snapshots'[w][p].observed_at <= now
      BY <1>0, <3>1, <3>2, <3>4 DEF TimeInv
    <3>8. ASSUME NEW d \in Connections, At(d, "stamped")'
          PROVE  /\ conns'[d].observed_at <= now
                 /\ \A p \in DOMAIN snapshots'[conns'[d].world] :
                       snapshots'[conns'[d].world][p].observed_at <= conns'[d].observed_at
      BY <1>0, <1>c, <3>1, <3>6, <3>8 DEF TimeInv, At
    <3>9. (\A d \in Connections : conns[d] # Closed => conns[d].waited)'
      BY <1>0, <3>6 DEF TimeInv
    <3>10. (\A d, e \in Connections :
              conns[d] # Closed /\ conns[e] # Closed /\ conns[d].world = conns[e].world => d = e)'
      BY <1>0, <3>6 DEF TimeInv
    <3> QED BY <2>1, <3>5, <3>7, <3>8, <3>9, <3>10 DEF TimeInv
  <2> QED BY <2>3, <2>4
<1>7. ASSUME NEW w \in Worlds, Activity(w) PROVE TimeInv' /\ ChangedBeforeObserved'
  <2>1. UNCHANGED <<conns, now>>
    BY <1>7 DEF Activity
  <2>2. \A v \in Worlds : snapshots'[v] = snapshots[v] \/ DOMAIN snapshots'[v] = {}
    BY <1>0, <1>7 DEF Activity, activate_world, deactivate_world, NoPanes, PaneTypeOK
  <2> QED BY <1>0, <1>c, <2>1, <2>2 DEF TimeInv, At, ChangedBeforeObserved
<1>8. CASE ClockAdvances
  <2>1. now' = now + 1 /\ UNCHANGED <<snapshots, conns>>
    BY <1>8 DEF ClockAdvances, gateway
  <2>2. \A w \in Worlds : \A p \in DOMAIN snapshots[w] : snapshots[w][p].observed_at \in Nat
    <3> TAKE w \in Worlds
    <3>1. PICK S \in SUBSET Panes : snapshots[w] \in [S -> Snapshot]
      BY <1>0 DEF PaneTypeOK
    <3> QED BY <3>1, PaneAssumption DEF Snapshot, Time
  <2>3. \A c \in Connections : conns[c] # Closed => conns[c].observed_at \in Nat
    BY <1>c, PaneAssumption DEF Connection, Time
  <2> QED BY <1>0, <1>n, <2>1, <2>2, <2>3 DEF TimeInv, At, ChangedBeforeObserved
<1>9. CASE GatewayRestart
  BY <1>9 DEF GatewayRestart, TimeInv, At, ChangedBeforeObserved, NoPanes
<1> QED
  BY <1>1, <1>2, <1>4, <1>5, <1>6, <1>7, <1>8, <1>9 DEF PaneNext, RelayRestart, ClockSetBack

\* With a clock that is never set back and a relay that waits for each answer,
\* the shell never meets a pane that changed after it was observed.
THEOREM TimesOrdered ==
    ASSUME ~ClockSteps, ~RelayRestarts
    PROVE  PaneSpec => []ChangedBeforeObserved
<1>1. PaneInit => OrderInv
  <2>1. PaneInit => TimeInv /\ ChangedBeforeObserved
    BY DEF PaneInit, TimeInv, At, ChangedBeforeObserved, NoPanes
  <2> QED BY <2>1, PaneTypeInit DEF OrderInv
<1>2. OrderInv /\ [PaneNext]_paneVars => OrderInv'
  BY PaneTypeStep, TimeStep DEF OrderInv
<1>3. OrderInv => ChangedBeforeObserved
  BY DEF OrderInv
<1> QED
  BY <1>1, <1>2, <1>3, PTL DEF PaneSpec

=============================================================================
