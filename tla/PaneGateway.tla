---------------------------- MODULE PaneGateway ----------------------------
(***************************************************************************)
(* The pane observations of the agent tool gateway                         *)
(* (crates/products/agent-tools/gateway/src/gateway/service.rs): reports   *)
(* of the guests' relays are authorised, stamped and stored by one thread  *)
(* per connection while the lifecycle handlers of the server activate and  *)
(* deactivate worlds.                                                      *)
(*                                                                         *)
(* A report maps the panes of a guest to their screen fingerprints; the    *)
(* rendered frames are left out.  Reports that fail validation and         *)
(* requests of another protocol version are answered before any state is   *)
(* touched, and Git and CLI requests keep no state here.                   *)
(***************************************************************************)
EXTENDS Naturals, FiniteSets

CONSTANTS
    Worlds,
    Panes,          \* (tmux_session, pane_id) pairs
    Fingerprints,   \* screen fingerprints
    Connections,    \* the connections to the gateway
    GENERATIONS,    \* the number of pane generations, 2^64 in the code
    MaxFlips,       \* bound: how often a world changes its activity
    MaxNow,         \* bound: the last reading of the clock
    ClockSteps,     \* may the wall clock be set back?
    RelayRestarts   \* may a relay start again while its report is under way?

ASSUME PaneAssumption ==
    /\ GENERATIONS \in Nat /\ MaxFlips \in Nat /\ MaxFlips < GENERATIONS
    /\ MaxNow \in Nat
    /\ ClockSteps \in BOOLEAN /\ RelayRestarts \in BOOLEAN

VARIABLES
    snapshots,          \* the latest observations of each world
    inactive_worlds,
    generations,        \* the pane generation of each world
    conns,              \* the threads of handle_transport
    now,                \* the wall clock
    flips,              \* history: how often each world became active or inactive
    source              \* history: flips of the world when its report was authorised

gateway == <<snapshots, inactive_worlds, generations>>
history == <<flips, source>>
paneVars == <<gateway, conns, now, history>>

Time == 0 .. MaxNow

Report == UNION {[S -> Fingerprints] : S \in SUBSET Panes}

Snapshot == [fingerprint : Fingerprints, changed_at : Time, observed_at : Time]

NoPanes == [p \in {} |-> p]

\* The steps of a connection: accepted by start_vsock, authorised, and with the
\* time of its observation read.  waited says whether the relay reads the answer.
Connection == [at : {"accepted", "authorized", "stamped"}, world : Worlds, panes : Report,
               generation : 0 .. GENERATIONS - 1, observed_at : Time,
               flips : 0 .. MaxFlips, waited : BOOLEAN]
Closed == [closed |-> TRUE]

At(c, step) == conns[c] # Closed /\ conns[c].at = step

PaneInit ==
    /\ snapshots = [w \in Worlds |-> NoPanes]
    /\ inactive_worlds = {}
    /\ generations = [w \in Worlds |-> 0]
    /\ conns = [c \in Connections |-> Closed]
    /\ now = 0
    /\ flips = [w \in Worlds |-> 0]
    /\ source = [w \in Worlds |-> 0]

-----------------------------------------------------------------------------
(* The relay of a guest *)

\* observe_panes sends one report and reads its answer before the next one.
send_transport(c) ==
    \E w \in Worlds, panes \in Report :
        /\ conns[c] = Closed
        /\ \A d \in Connections : conns[d] # Closed /\ conns[d].world = w => ~conns[d].waited
        /\ conns' = [conns EXCEPT ![c] =
               [at |-> "accepted", world |-> w, panes |-> panes, generation |-> 0,
                observed_at |-> 0, flips |-> 0, waited |-> TRUE]]
        /\ UNCHANGED <<gateway, now, history>>

\* The relay, or the operating system it runs on, starts again and forgets its
\* connection; the gateway has the report already.
RelayRestart(c) ==
    /\ RelayRestarts
    /\ conns[c] # Closed /\ conns[c].waited
    /\ conns' = [conns EXCEPT ![c].waited = FALSE]
    /\ UNCHANGED <<gateway, now, history>>

-----------------------------------------------------------------------------
(* handle_transport *)

Close(c) == conns' = [conns EXCEPT ![c] = Closed]

\* authorize: the generation the report belongs to is read under the lock.
authorize(c) ==
    /\ At(c, "accepted")
    /\ \/ conns[c].world \in inactive_worlds /\ Close(c)
       \/ /\ conns[c].world \notin inactive_worlds
          /\ conns' = [conns EXCEPT ![c] =
                 [@ EXCEPT !.at = "authorized", !.generation = generations[conns[c].world],
                           !.flips = flips[conns[c].world]]]
    /\ UNCHANGED <<gateway, now, history>>

\* store_pane_observations reads the clock before it takes the lock.
now_unix_ms(c) ==
    /\ At(c, "authorized")
    /\ conns' = [conns EXCEPT ![c] = [@ EXCEPT !.at = "stamped", !.observed_at = now]]
    /\ UNCHANGED <<gateway, now, history>>

\* Mutant: only the activity of the world is checked.
Storable_any_generation(c) == conns[c].world \notin inactive_worlds

\* The report is of the current generation, and its world is active.
Storable(c) ==
    /\ generations[conns[c].world] = conns[c].generation
    /\ conns[c].world \notin inactive_worlds

\* A pane whose fingerprint is the same keeps the time of its last change.
Replacement(existing, panes, observed_at, p) ==
    [fingerprint |-> panes[p],
     changed_at |-> IF p \in DOMAIN existing /\ existing[p].fingerprint = panes[p]
                    THEN existing[p].changed_at ELSE observed_at,
     observed_at |-> observed_at]

\* The observations of a report replace all earlier ones.
replace_pane_observations(existing, panes, observed_at) ==
    [p \in DOMAIN panes |-> Replacement(existing, panes, observed_at, p)]

store_pane_observations(c) ==
    /\ At(c, "stamped")
    /\ \/ /\ Storable(c)
          /\ snapshots' = [snapshots EXCEPT ![conns[c].world] =
                 replace_pane_observations(@, conns[c].panes, conns[c].observed_at)]
          /\ source' = [source EXCEPT ![conns[c].world] = conns[c].flips]
       \/ ~Storable(c) /\ UNCHANGED <<snapshots, source>>
    /\ Close(c)
    /\ UNCHANGED <<inactive_worlds, generations, now, flips>>

-----------------------------------------------------------------------------
(* The lifecycle handlers of the server *)

\* wrapping_add
advance_pane_generation(g) == IF g + 1 = GENERATIONS THEN 0 ELSE g + 1

\* Mutant: every call starts a new generation.
activate_world_again(w) ==
    /\ inactive_worlds' = inactive_worlds \ {w}
    /\ generations' = [generations EXCEPT ![w] = advance_pane_generation(@)]
    /\ UNCHANGED snapshots

\* Every reconciliation of a running world makes this call; it begins a new
\* generation only when the world was inactive.
activate_world(w) ==
    /\ inactive_worlds' = inactive_worlds \ {w}
    /\ generations' = [generations EXCEPT ![w] =
           IF w \in inactive_worlds THEN advance_pane_generation(@) ELSE @]
    /\ UNCHANGED snapshots

deactivate_world(w) ==
    /\ inactive_worlds' = inactive_worlds \cup {w}
    /\ generations' = [generations EXCEPT ![w] =
           IF w \notin inactive_worlds THEN advance_pane_generation(@) ELSE @]
    /\ snapshots' = [snapshots EXCEPT ![w] = NoPanes]

\* The history counts the changes of activity and nothing else.
CountFlips ==
    flips' = [w \in Worlds |->
        IF w \in inactive_worlds <=> w \in inactive_worlds' THEN flips[w] ELSE flips[w] + 1]

Activity(w) ==
    /\ flips[w] < MaxFlips
    /\ activate_world(w) \/ deactivate_world(w)
    /\ CountFlips
    /\ UNCHANGED <<conns, now, source>>

-----------------------------------------------------------------------------
(* The clock and the process *)

ClockAdvances ==
    /\ now < MaxNow /\ now' = now + 1
    /\ UNCHANGED <<gateway, conns, history>>

\* SystemTime is the wall clock of the host, which may be set back.
ClockSetBack ==
    /\ ClockSteps /\ now > 0 /\ now' = now - 1
    /\ UNCHANGED <<gateway, conns, history>>

\* The server starts again with a new gateway; observations are memory-only.
GatewayRestart ==
    /\ snapshots' = [w \in Worlds |-> NoPanes]
    /\ inactive_worlds' = {}
    /\ generations' = [w \in Worlds |-> 0]
    /\ conns' = [c \in Connections |-> Closed]
    /\ flips' = [w \in Worlds |-> 0]
    /\ source' = [w \in Worlds |-> 0]
    /\ UNCHANGED now

PaneNext ==
    \/ \E c \in Connections :
          \/ send_transport(c) \/ RelayRestart(c)
          \/ authorize(c) \/ now_unix_ms(c) \/ store_pane_observations(c)
    \/ \E w \in Worlds : Activity(w)
    \/ ClockAdvances
    \/ ClockSetBack
    \/ GatewayRestart

PaneSpec == PaneInit /\ [][PaneNext]_paneVars

-----------------------------------------------------------------------------
(* Properties *)

\* The types of the gateway's state.
PaneTypeOK ==
    /\ snapshots \in [Worlds -> UNION {[S -> Snapshot] : S \in SUBSET Panes}]
    /\ inactive_worlds \in SUBSET Worlds
    /\ generations \in [Worlds -> 0 .. GENERATIONS - 1]
    /\ conns \in [Connections -> Connection \cup {Closed}]
    /\ now \in Time
    /\ flips \in [Worlds -> 0 .. MaxFlips]
    /\ source \in [Worlds -> 0 .. MaxFlips]

\* A world that is not running shows no panes: neither a call of the lifecycle
\* handlers nor a report that was under way leaves a snapshot behind.
InactiveShowsNothing ==
    \A w \in inactive_worlds : snapshots[w] = NoPanes

\* The panes that are shown were reported in the current run of their world: a
\* report that was authorised before the world stopped is never shown after it
\* started again.
ShownFromThisRun ==
    \A w \in Worlds : snapshots[w] # NoPanes => source[w] = flips[w]

\* A report that is authorised is also stored, unless its run has ended: the
\* activations of every inventory do not make it expire.
StoredInItsRun ==
    \A c \in Connections :
        conns[c] # Closed /\ conns[c].at # "accepted"
        /\ conns[c].flips = flips[conns[c].world] => Storable(c)

\* No pane changed after it was observed; validate_context of the shell fails
\* the whole context otherwise (client/src/shell/pane.rs).
ChangedBeforeObserved ==
    \A w \in Worlds : \A p \in DOMAIN snapshots[w] :
        snapshots[w][p].changed_at <= snapshots[w][p].observed_at

\* Why observations do not cross runs: below the wrap of the generations, the
\* generation counts the runs, and a report of the current count is of a world
\* that has stayed active.
RunInv ==
    /\ \A w \in Worlds : generations[w] = flips[w]
    /\ \A c \in Connections : conns[c] # Closed /\ conns[c].at # "accepted" =>
          /\ conns[c].generation = conns[c].flips
          /\ conns[c].flips <= flips[conns[c].world]
          /\ conns[c].flips = flips[conns[c].world] => conns[c].world \notin inactive_worlds

\* Why the times of a pane are in order when the clock is steady and each relay
\* waits for its answers: a world has one report under way, and the report's
\* time is not before the times that are stored.
TimeInv ==
    /\ \A c \in Connections : conns[c] # Closed => conns[c].waited
    /\ \A c, d \in Connections :
          conns[c] # Closed /\ conns[d] # Closed /\ conns[c].world = conns[d].world => c = d
    /\ \A w \in Worlds : \A p \in DOMAIN snapshots[w] : snapshots[w][p].observed_at <= now
    /\ \A c \in Connections : At(c, "stamped") =>
          /\ conns[c].observed_at <= now
          /\ \A p \in DOMAIN snapshots[conns[c].world] :
                snapshots[conns[c].world][p].observed_at <= conns[c].observed_at

=============================================================================
