------------------------------- MODULE Shell -------------------------------
(***************************************************************************)
(* The terminal workspace `wt shell`: one event loop that owns the list of *)
(* worlds, their SSH sessions and the queue of actions; a worker for the   *)
(* started action; a thread that reads the inventory every few seconds and *)
(* one reader thread for each session, all of which feed the loop through  *)
(* bounded channels.                                                       *)
(*                                                                         *)
(* The loop is cut where another thread can intervene: between draining    *)
(* the sessions, taking a refresh, polling the worker, starting the next   *)
(* action and handling input.  Screens, scrolling, wording and times are   *)
(* left out.  A world is its identity, which is never used again.          *)
(***************************************************************************)
EXTENDS Naturals, Sequences, SequencesExt, FiniteSets

CONSTANTS
    Worlds,         \* identities (context, UUID)
    Contexts,       \* configured contexts, in the order of their names
    ContextOf,      \* the context of a world
    MaxActions,     \* bound: actions confirmed in one shell
    OUTPUT_QUEUE,   \* slots of the channel from the readers
    Chatty,         \* whether sessions print
    MaxOutside,     \* bound: SSH processes that end by themselves, and worlds that
                    \* other clients create or remove
    none

Kinds == {"create", "delete", "open", "reconnect"}
Phases == {"request", "capacity", "asking", "cancelled", "list", "sync",
           "created", "connect", "connecting", "connected", "deleted", "focus", "focused",
           "failed"}
Entries == [id : Nat, kind : Kinds, world : Worlds \union {none}]
Tasks == [kind : Kinds, id : Nat, pc : Phases, world : Worlds \union {none},
          token : Nat, asked : Nat, found : Seq(Worlds)]
Snapshots == [gen : Nat, found : Seq(Worlds), failed : BOOLEAN]

ASSUME ShellAssumption ==
    /\ none \notin Worlds \union Entries \union Tasks \union Snapshots
    /\ IsFiniteSet(Worlds)
    /\ Contexts \in Seq(ToSet(Contexts)) /\ Contexts # <<>>
    /\ ContextOf \in [Worlds -> ToSet(Contexts)]
    /\ {MaxActions, MaxOutside} \subseteq Nat
    /\ OUTPUT_QUEUE \in Nat \ {0}
    /\ Chatty \in BOOLEAN

VARIABLES
    server,     \* the worlds of all servers, in the order of creation
    born,       \* worlds that exist or have existed
    ssh,        \* worlds named by the managed SSH configuration
    ui,         \* what the event loop does next
    worlds,     \* ShellModel.worlds
    active,     \* index of the active world
    mode,       \* Mode::World or Mode::Control
    queue,      \* ShellActionQueue
    task,       \* ControlFlows.task together with its worker thread
    sessions,   \* SessionSet.sessions
    token,      \* SessionSet.next_token
    reader,     \* the reader thread of each token
    events,     \* channel from the readers to the loop
    gen,        \* WorldRefresh.generation
    refresh,    \* the thread of WorldRefresh
    slot,       \* its one-slot channel
    kept,       \* history: worlds this shell has created and shown
    gone,       \* history: worlds this shell has deleted
    happened  \* history: what has happened outside, up to MaxOutside

outside == <<server, born>>
view == <<worlds, active, mode>>
plays == <<sessions, token, reader>>
fetch == <<gen, refresh, slot>>
history == <<kept, gone, happened>>
vars == <<outside, ssh, ui, view, queue, task, plays,
          events, fetch, history>>

Tokens == 0..(Cardinality(Worlds) + MaxActions)
Queues == [queued : Seq(Entries), active : Entries \union {none},
           cleared : BOOLEAN, next : 0..MaxActions]
Sessions == [world : Worlds, token : Nat, open : BOOLEAN]
Scans == [pc : {"sleep", "list", "sync"}, todo : Seq(ToSet(Contexts)), gen : Nat,
          found : Seq(Worlds)]

TypeOK ==
    /\ server \in Seq(Worlds) /\ born \subseteq Worlds /\ ssh \subseteq Worlds
    /\ ui \in {"opening", "closed", "turn", "poll", "join", "start"}
    /\ worlds \in Seq(Worlds) /\ mode \in {"world", "control"}
    /\ active = 1 \/ active \in DOMAIN worlds
    /\ queue \in Queues
    /\ task \in Tasks \union {none}
    /\ sessions \in Seq(Sessions) /\ token \in Nat
    /\ reader \in [Tokens -> {"none", "reading", "ending"}]
    /\ events \in Seq({"output", "closed"} \X Tokens)
    /\ Len(events) <= OUTPUT_QUEUE
    /\ gen \in Nat
    /\ refresh \in Scans
    /\ slot \in Snapshots \union {none}
    /\ kept \subseteq Worlds /\ gone \subseteq Worlds
    /\ happened \in 0..MaxOutside

EmptyQueue == [queued |-> <<>>, active |-> none, cleared |-> FALSE, next |-> 0]
Sleeping == [pc |-> "sleep", todo |-> <<>>, gen |-> 0, found |-> <<>>]

Init ==
    /\ server \in {<<>>} \union {<<w>> : w \in Worlds}
    /\ born = ToSet(server) /\ ssh = {}
    /\ ui = "opening"
    /\ worlds = <<>> /\ active = 1 /\ mode = "control"
    /\ queue = EmptyQueue /\ task = none
    /\ sessions = <<>> /\ token = 0 /\ reader = [t \in Tokens |-> "none"]
    /\ events = <<>>
    /\ gen = 0 /\ refresh = Sleeping /\ slot = none
    /\ kept = {} /\ gone = {} /\ happened = 0
-----------------------------------------------------------------------------
(* The inventory, the list of worlds and the sessions.                     *)

\* The elements of seq at the positions at, arranged by the order le on these.
Arranged(seq, at, le) ==
    [k \in 1..Cardinality(at) |->
        seq[CHOOSE i \in at : Cardinality({j \in at : <<j, i>> \in le}) = k]]

\* Those that are in the set keep, in the order of the list.
Filter(seq, keep) ==
    Arranged(seq, {i \in DOMAIN seq : seq[i] \in keep},
             {p \in (DOMAIN seq) \X (DOMAIN seq) : p[1] <= p[2]})

IndexOf(seq, w) == CHOOSE i \in DOMAIN seq : seq[i] = w

\* list_all: a stable sort by the context, so that the order of creation is kept
\* within each.
group_by_context(found) ==
    LET Rank(i) == IndexOf(Contexts, ContextOf[found[i]])
    IN Arranged(found, DOMAIN found,
                {p \in (DOMAIN found) \X (DOMAIN found) :
                    \/ Rank(p[1]) < Rank(p[2])
                    \/ Rank(p[1]) = Rank(p[2]) /\ p[1] <= p[2]})

\* The worlds of a context.
In(c) == {w \in Worlds : ContextOf[w] = c}

SessionIn(list, w) == CHOOSE s \in ToSet(list) : s.world = w
SessionOf(w) == SessionIn(sessions, w)
Played == {s.world : s \in ToSet(sessions)}

\* ShellModel::reconcile_worlds: the active world stays the active one.
reconcile_worlds(new) ==
    /\ worlds' = new
    /\ active' = IF active \in DOMAIN worlds /\ worlds[active] \in ToSet(new)
                 THEN IndexOf(new, worlds[active])
                 ELSE 1
    /\ mode' = IF new = <<>> THEN "control" ELSE mode

NewSession(w, t) == [world |-> w, token |-> t, open |-> TRUE]

\* Mutant: new sessions go behind the others, whatever the order of the list.
reconcile_appending(list, new) ==
    LET missing == Filter(new, Worlds \ Played)
        kept_on == SelectSeq(list, LAMBDA s : s.world \in ToSet(new))
    IN /\ sessions' = kept_on \o [i \in DOMAIN missing |-> NewSession(missing[i], token + i - 1)]
       /\ token' = token + Len(missing)
       /\ reader' = [t \in Tokens |-> IF t \in token..(token' - 1) THEN "reading" ELSE reader[t]]

\* SessionSet::reconcile: the sessions of absent worlds are stopped, worlds
\* without one get one, and the order becomes that of the list.
reconcile(list, new) ==
    LET missing == Filter(new, Worlds \ Played)
        TokenFor(w) == token + IndexOf(missing, w) - 1
        stopped == {s.token : s \in {x \in ToSet(sessions) : x.world \notin ToSet(new)}}
        started == {TokenFor(w) : w \in ToSet(missing)}
    IN /\ sessions' = [i \in DOMAIN new |->
                          IF new[i] \in Played THEN SessionIn(list, new[i])
                          ELSE NewSession(new[i], TokenFor(new[i]))]
       /\ token' = token + Len(missing)
       /\ reader' = [t \in Tokens |->
                        CASE t \in started -> "reading"
                          [] t \in stopped /\ reader[t] = "reading" -> "ending"
                          [] OTHER -> reader[t]]

\* run: the shell opens with a complete inventory and a session for each world.
run ==
    /\ ui = "opening"
    /\ LET new == group_by_context(server)
       IN /\ worlds' = new
          /\ sessions' = [i \in DOMAIN new |-> NewSession(new[i], i - 1)]
          /\ token' = Len(new)
          /\ reader' = [t \in Tokens |-> IF t < Len(new) THEN "reading" ELSE "none"]
    /\ ssh' = ToSet(server)
    /\ ui' = "turn"
    /\ active' = 1 /\ mode' = "control"
    /\ UNCHANGED <<outside, queue, task, events, fetch, history>>

\* F6, a signal, or an error of the terminal: the process and its threads end.
Quit ==
    /\ ui = "turn"
    /\ ui' = "closed"
    /\ worlds' = <<>> /\ active' = 1 /\ mode' = "control"
    /\ queue' = EmptyQueue /\ task' = none
    /\ sessions' = <<>> /\ token' = 0 /\ reader' = [t \in Tokens |-> "none"]
    /\ events' = <<>>
    /\ gen' = 0 /\ refresh' = Sleeping /\ slot' = none
    /\ kept' = {} /\ gone' = {}
    /\ UNCHANGED <<outside, ssh, happened>>
-----------------------------------------------------------------------------
(* The reader threads and the channel they share.                          *)

Happens == happened < MaxOutside /\ happened' = happened + 1
Room == Len(events) < OUTPUT_QUEUE

\* The SSH process of a session ends by itself.
SessionEnds(t) ==
    /\ reader[t] = "reading"
    /\ reader' = [reader EXCEPT ![t] = "ending"]
    /\ Happens
    /\ UNCHANGED <<outside, ssh, ui, view, queue, task,
                   sessions, token, events, fetch, kept, gone>>

\* read_output: a send waits for room in the channel.
read_output(t) ==
    /\ Room
    /\ \/ /\ Chatty /\ reader[t] = "reading"
          /\ events' = Append(events, <<"output", t>>)
          /\ UNCHANGED reader
       \/ /\ reader[t] = "ending"
          /\ events' = Append(events, <<"closed", t>>)
          /\ reader' = [reader EXCEPT ![t] = "none"]
    /\ UNCHANGED <<outside, ssh, ui, view, queue, task,
                   sessions, token, fetch, history>>

\* drain_output: events of tokens that are no session's are dropped.
drain_output ==
    [i \in DOMAIN sessions |->
        [sessions[i] EXCEPT !.open =
            @ /\ <<"closed", sessions[i].token>> \notin ToSet(events)]]
-----------------------------------------------------------------------------
(* The thread of WorldRefresh.                                             *)

\* The generation is read before the first context is asked.
refresh_begin ==
    /\ ui \notin {"opening", "closed"}
    /\ refresh.pc = "sleep"
    /\ refresh' = [todo |-> Contexts, gen |-> gen, found |-> <<>>, pc |-> "list"]
    /\ UNCHANGED <<outside, ssh, ui, view, queue, task, plays,
                   events, gen, slot, history>>

\* The contexts are asked in turn.
refresh_list ==
    /\ refresh.pc = "list"
    /\ refresh' = [refresh EXCEPT
          !.todo = Tail(@),
          !.found = @ \o Filter(server, In(Head(refresh.todo))),
          !.pc = IF Len(refresh.todo) > 1 THEN "list" ELSE "sync"]
    /\ UNCHANGED <<outside, ssh, ui, view, queue, task, plays,
                   events, gen, slot, history>>

\* ssh::sync replaces the managed configuration by the complete inventory; then
\* try_send offers the snapshot, which is dropped when the slot is full.
refresh_sync ==
    /\ refresh.pc = "sync"
    /\ ssh' = ToSet(refresh.found)
    /\ slot' = IF slot # none THEN slot
               ELSE [gen |-> refresh.gen, found |-> group_by_context(refresh.found),
                     failed |-> FALSE]
    /\ refresh' = Sleeping
    /\ UNCHANGED <<outside, ui, view, queue, task, plays,
                   events, gen, history>>

\* A context or the write of the configuration fails: the snapshot names the
\* failure, and the loop only shows it in the title of the list.
refresh_failed ==
    /\ refresh.pc = "sync"
    /\ slot' = IF slot # none THEN slot
               ELSE [gen |-> refresh.gen, found |-> <<>>, failed |-> TRUE]
    /\ refresh' = Sleeping
    /\ UNCHANGED <<outside, ssh, ui, view, queue, task, plays,
                   events, gen, history>>

\* Mutant: the running action is forgotten.
has_work_waiting == queue.queued # <<>>

has_work == queue.active # none \/ queue.queued # <<>>

\* Mutant: the generation of the snapshot is not compared.
take_any_snapshot == slot # none

take_current_snapshot == slot # none /\ slot.gen = gen

\* What the loop does next: wait for the reader of a dropped session, start a
\* waiting action, or go round.
AfterPoll ==
    CASE task' # none /\ queue'.active = none -> "join"
      [] task' = none /\ queue'.queued # <<>> -> "start"
      [] OTHER -> "turn"

\* The first half of a turn of run_loop.  A refresh is taken only while no action
\* is waiting or running; otherwise it is thrown away.
turn ==
    /\ ui = "turn"
    /\ events' = <<>>
    /\ slot' = none
    /\ IF ~has_work /\ take_current_snapshot /\ ~slot.failed
       THEN reconcile(drain_output, slot.found) /\ reconcile_worlds(slot.found)
       ELSE sessions' = drain_output /\ UNCHANGED <<view, token, reader>>
    /\ UNCHANGED <<outside, ssh, queue, task, gen, refresh, history>>
    /\ ui' = IF task # none THEN "poll" ELSE AfterPoll
-----------------------------------------------------------------------------
(* The queue of actions.                                                   *)

\* enqueue, as a confirmation or a key does it.
enqueue(kind, w) ==
    /\ queue.next < MaxActions
    /\ queue' = [queue EXCEPT
          !.next = @ + 1,
          !.queued = Append(@, [id |-> queue.next + 1, kind |-> kind, world |-> w])]

\* acknowledge: a failure clears the tail, unless a cancellation has.
acknowledged(q, succeeded) ==
    [q EXCEPT !.active = none, !.cleared = FALSE,
              !.queued = IF succeeded \/ q.cleared THEN @ ELSE <<>>]

\* activate_next: the head becomes the active entry.
activated ==
    IF queue.active # none \/ queue.queued = <<>> THEN queue
    ELSE [queue EXCEPT !.active = Head(queue.queued), !.queued = Tail(queue.queued),
                       !.cleared = FALSE]

\* begin_cancellation: the active entry stays, what waits behind it does not.
begin_cancellation == [queue EXCEPT !.cleared = TRUE, !.queued = <<>>]

\* Mutant: only the entry itself is taken out.
remove_one(i) == [queue EXCEPT !.queued = RemoveAt(@, i)]

\* remove: a waiting entry, with everything behind it.
remove(i) == [queue EXCEPT !.queued = SubSeq(@, 1, i - 1)]

is_active(id) == queue.active # none /\ queue.active.id = id

NewTask(entry, pc, w, t) ==
    [kind |-> entry.kind, id |-> entry.id, pc |-> pc, world |-> w, token |-> t,
     asked |-> 0, found |-> <<>>]

is_open(w) == w \in Played /\ SessionOf(w).open

\* pane_route: the target has a card and its world is listed.  Cards are replaced
\* only while no action waits or runs, so the card of an action is still there.
pane_route(w) == w \in ToSet(worlds)

\* The result of start_next for the entry at the head: a task, or a failure.
\* start_world takes a token and starts a session in a thread of its own.
CanStart(entry) ==
    CASE entry.kind \in {"create", "delete"} -> TRUE
      [] entry.kind = "open" -> pane_route(entry.world) /\ is_open(entry.world)
      [] entry.kind = "reconnect" -> entry.world \in ToSet(worlds)

start_next ==
    /\ ui = "start"
    /\ LET entry == activated.active
       IN \/ /\ CanStart(entry)
             /\ queue' = activated
             /\ task' = CASE entry.kind = "open" ->
                             NewTask(entry, "focus", entry.world,
                                     SessionOf(entry.world).token)
                        [] entry.kind = "reconnect" ->
                             NewTask(entry, "connect", entry.world, token)
                        [] OTHER -> NewTask(entry, "request", entry.world, 0)
             /\ token' = IF entry.kind = "reconnect" THEN token + 1 ELSE token
          \/ /\ entry.kind # "open" \/ ~CanStart(entry)
             /\ queue' = acknowledged(activated, FALSE)
             /\ UNCHANGED <<task, token>>
    /\ ui' = "turn"
    /\ UNCHANGED <<outside, ssh, view, sessions, reader, events, fetch, history>>
-----------------------------------------------------------------------------
(* poll: what the loop does with the news of the task.                     *)

Failed ==
    /\ task.pc = "failed"
    /\ queue' = acknowledged(queue, FALSE)
    /\ task' = none
    /\ UNCHANGED <<view, plays, gen, history>>

\* A server without room: the creation asks the user.
CapacityAsked ==
    /\ task.pc = "capacity"
    /\ task' = [task EXCEPT !.pc = "asking"]
    /\ UNCHANGED <<view, plays, queue, gen, history>>

\* The world exists: older listings are invalidated and its session is started,
\* unless there is no thread for it.
Created ==
    /\ task.pc = "created"
    /\ gen' = gen + 1
    /\ token' = token + 1
    /\ \/ task' = [task EXCEPT !.pc = "connect", !.token = token] /\ UNCHANGED queue
       \/ task' = none /\ queue' = acknowledged(queue, FALSE)
    /\ UNCHANGED <<view, sessions, reader, history>>

\* finish_add: the new world and its session go to the end of both lists.
Added ==
    /\ task.kind = "create" /\ task.pc = "connected"
    /\ LET succeeded == task.world \notin Played
       IN /\ IF succeeded
             THEN /\ sessions' = Append(sessions, NewSession(task.world, task.token))
                  /\ reconcile_worlds(Append(worlds, task.world))
                  /\ kept' = kept \union {task.world}
             ELSE UNCHANGED <<sessions, view, kept>>
          /\ queue' = acknowledged(queue, succeeded)
    /\ task' = none
    /\ UNCHANGED <<token, reader, gen, gone, happened>>

Deleted ==
    /\ task.pc = "deleted"
    /\ gen' = gen + 1
    /\ LET rest == Filter(worlds, Worlds \ {task.world})
       IN reconcile(sessions, rest) /\ reconcile_worlds(rest)
    /\ gone' = gone \union {task.world}
    /\ queue' = acknowledged(queue, TRUE)
    /\ task' = none
    /\ UNCHANGED <<kept, happened>>

\* finish_reconnect: the old session is dropped, and the drop of one that is
\* still attached to its reader kills its process and waits for that reader.
Reconnected ==
    /\ task.kind = "reconnect" /\ task.pc = "connected"
    /\ IF task.world \in Played
       THEN LET old == SessionOf(task.world)
            IN /\ sessions' = [sessions EXCEPT ![IndexOf(sessions, old)] =
                                  NewSession(task.world, task.token)]
               /\ reader' = IF old.open /\ reader[old.token] = "reading"
                            THEN [reader EXCEPT ![old.token] = "ending"]
                            ELSE reader
               /\ queue' = acknowledged(queue, TRUE)
               /\ IF old.open /\ reader[old.token] # "none"
                  THEN task' = [task EXCEPT !.token = old.token]
                  ELSE task' = none
       ELSE /\ queue' = acknowledged(queue, FALSE)
            /\ task' = none
            /\ UNCHANGED <<sessions, reader>>
    /\ UNCHANGED <<view, token, gen, history>>

\* The answer of the focus helper counts for the session it was asked through.
Focused ==
    /\ task.pc = "focused"
    /\ LET succeeded == /\ pane_route(task.world)
                        /\ is_open(task.world)
                        /\ SessionOf(task.world).token = task.token
       IN /\ IF succeeded
             THEN active' = IndexOf(worlds, task.world) /\ mode' = "world"
             ELSE UNCHANGED <<active, mode>>
          /\ queue' = acknowledged(queue, succeeded)
    /\ task' = none
    /\ UNCHANGED <<worlds, plays, gen, history>>

NoNews ==
    /\ task.pc \notin {"failed", "capacity", "created", "connected", "deleted", "focused"}
    /\ UNCHANGED <<view, plays, queue, task, gen, history>>

poll ==
    /\ ui = "poll"
    /\ is_active(task.id)
    /\ \/ Failed \/ CapacityAsked \/ Created \/ Added \/ Deleted
       \/ Reconnected \/ Focused \/ NoNews
    /\ ui' = AfterPoll
    /\ UNCHANGED <<outside, ssh, events, refresh, slot>>

\* The join in the drop of a session.
Joined ==
    /\ ui = "join"
    /\ reader[task.token] = "none"
    /\ task' = none
    /\ UNCHANGED <<outside, ssh, view, queue, plays, events,
                   fetch, history>>
    /\ ui' = AfterPoll
-----------------------------------------------------------------------------
(* dispatch_event: keys and clicks, by what they do.                       *)

Asking == task # none /\ task.pc = "asking"

\* Space on a session that has ended, in the view of a world.
KeyReconnect ==
    /\ mode = "world"
    /\ ~sessions[active].open
    /\ enqueue("reconnect", worlds[active])
    /\ UNCHANGED <<view, task>>

\* Enter or Esc while the creation asks: retry, or cancel and clear the tail.
AnswerCapacity ==
    /\ Asking
    /\ \/ /\ task' = [task EXCEPT !.pc = "request"]
          /\ UNCHANGED queue
       \/ /\ task' = [task EXCEPT !.pc = "cancelled"]
          /\ queue' = begin_cancellation
    /\ UNCHANGED <<view>>

\* F5 toggles the views; cards and keys select and open a world.
Navigate ==
    /\ worlds # <<>>
    /\ \/ mode' = (IF mode = "world" THEN "control" ELSE "world") /\ UNCHANGED active
       \/ /\ mode = "control"
          /\ mode' \in {"world", "control"}
          /\ active' \in DOMAIN worlds
    /\ UNCHANGED <<worlds, queue, task>>

\* A form or a card is confirmed.  The deletion holds a copy of its world, and a
\* card stays when its world leaves the list: both may name a world that is gone.
Confirm ==
    /\ \/ mode = "control" /\ enqueue("create", none)
       \/ mode = "control" /\ \E w \in born : enqueue("open", w)
       \/ \E w \in born : enqueue("delete", w)
    /\ UNCHANGED <<view, task>>

\* A click on the close mark of a waiting row.
RemoveWaiting ==
    /\ ~Asking
    /\ \E i \in DOMAIN queue.queued : queue' = remove(i)
    /\ UNCHANGED <<view, task>>

dispatch_event ==
    /\ ui = "turn"
    /\ \/ KeyReconnect \/ AnswerCapacity \/ Navigate \/ Confirm
       \/ RemoveWaiting
    /\ UNCHANGED <<outside, ssh, ui, plays, events, fetch, history>>

-----------------------------------------------------------------------------
(* The worker of the started task, and other clients of the servers.       *)

Working == task # none /\ ui # "join"
Goes(pc) == task' = [task EXCEPT !.pc = pc]

\* create::task::run, the request: a world may exist although the answer is lost.
create_request ==
    /\ task.kind = "create" /\ task.pc = "request"
    /\ \/ \E w \in Worlds \ born :
            /\ server' = Append(server, w)
            /\ born' = born \union {w}
            /\ \/ task' = [task EXCEPT !.pc = "list", !.world = w]
               \/ Goes("failed")
       \/ Goes("capacity") /\ UNCHANGED outside
       \/ Goes("failed") /\ UNCHANGED outside
    /\ UNCHANGED <<ssh, reader>>

create_cancelled ==
    /\ task.pc = "cancelled"
    /\ Goes("failed")
    /\ UNCHANGED <<outside, ssh, reader>>

\* sync_inventory_after_create: the complete inventory is read, one context after
\* the other, then written.
create_list ==
    /\ task.pc = "list"
    /\ \/ task' = [task EXCEPT !.asked = @ + 1,
             !.found = @ \o Filter(server, In(Contexts[task.asked + 1])),
             !.pc = IF task.asked + 1 < Len(Contexts) THEN "list" ELSE "sync"]
       \/ Goes("failed")
    /\ UNCHANGED <<outside, ssh, reader>>

create_sync ==
    /\ task.pc = "sync"
    /\ \/ /\ ssh' = ToSet(task.found)
          /\ task' = [task EXCEPT !.pc = "created", !.asked = 0, !.found = <<>>]
       \/ Goes("failed") /\ UNCHANGED ssh
    /\ UNCHANGED <<outside, reader>>

\* start_world: SSH finds the alias in the configuration or ends at once.
start_world ==
    /\ task.pc = "connect"
    /\ reader' = [reader EXCEPT ![task.token] =
                      IF task.world \in ssh THEN "reading" ELSE "ending"]
    /\ Goes("connecting")
    /\ UNCHANGED <<outside, ssh>>

\* The worker waits for the control master, and stops a session without one.
wait_for_control_master ==
    /\ task.pc = "connecting"
    /\ \/ /\ reader[task.token] = "reading"
          /\ Goes("connected")
          /\ UNCHANGED reader
       \/ /\ reader' = [reader EXCEPT ![task.token] = IF @ = "none" THEN @ ELSE "ending"]
          /\ Goes("failed")
    /\ UNCHANGED <<outside, ssh>>

\* The deletion of a world that is already gone is an error.
delete_request ==
    /\ task.kind = "delete" /\ task.pc = "request"
    /\ \/ /\ task.world \in ToSet(server)
          /\ server' = Filter(server, Worlds \ {task.world})
          /\ (Goes("deleted") \/ Goes("failed"))
       \/ Goes("failed") /\ UNCHANGED server
    /\ UNCHANGED <<born, ssh, reader>>

\* FocusWorker: the helper answers through the control master of the session.
focus ==
    /\ task.pc = "focus"
    /\ (Goes("focused") \/ Goes("failed"))
    /\ UNCHANGED <<outside, ssh, reader>>

Worker ==
    /\ Working
    /\ \/ create_request \/ create_cancelled \/ create_list \/ create_sync
       \/ start_world \/ wait_for_control_master \/ delete_request \/ focus
    /\ UNCHANGED <<ui, view, queue, sessions, token, events,
                   fetch, history>>

OtherClient ==
    /\ Happens
    /\ \/ \E w \in Worlds \ born :
            server' = Append(server, w) /\ born' = born \union {w}
       \/ \E w \in ToSet(server) :
            server' = Filter(server, Worlds \ {w}) /\ UNCHANGED born
    /\ UNCHANGED <<ssh, ui, view, queue, task, plays, events,
                   fetch, kept, gone>>
-----------------------------------------------------------------------------
Loop == turn \/ poll \/ Joined \/ start_next
Refresh == refresh_begin \/ refresh_list
           \/ refresh_sync \/ refresh_failed

\* Nothing is left of a shell that is closed.
Closed == ui = "closed" /\ UNCHANGED vars

Next == \/ run \/ Quit \/ Loop \/ dispatch_event \/ Worker \/ Refresh \/ OtherClient
        \/ Closed
        \/ \E t \in Tokens : SessionEnds(t) \/ read_output(t)

Spec == Init /\ [][Next]_vars
-----------------------------------------------------------------------------
(* Properties.                                                             *)

\* The n-th session is the one of the n-th world, whatever was created, deleted
\* or listed in between, so keys typed at the active world reach that world and
\* the view of a world always has one.
SessionsAligned ==
    /\ [i \in DOMAIN sessions |-> sessions[i].world] = worlds
    /\ mode = "world" => active \in DOMAIN sessions

\* A listing that began before this shell deleted or created a world does not
\* bring the deleted one back, nor hide the new one.
ListingNeverStale ==
    /\ gone \intersect ToSet(worlds) = {}
    /\ ui # "closed" => kept \intersect ToSet(server) \subseteq ToSet(worlds)

\* The queue keeps the promise of ActionOrder.
Order == INSTANCE ActionOrder
    WITH waiting <- {e.id : e \in ToSet(queue.queued)},
         running <- IF queue.active = none THEN 0 ELSE queue.active.id,
         last <- queue.next
ActionsInOrder == Order!Spec

\* The silent refusals of finish_add and finish_reconnect do not occur: when a
\* session has been started, its world is still missing or still listed.
FinishNeverRefused ==
    ui = "poll" /\ task.pc = "connected"
        => (task.kind = "create") = (task.world \notin Played)
=============================================================================
