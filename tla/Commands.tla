------------------------------ MODULE Commands ------------------------------
(***************************************************************************)
(* The commands of the client: processes of one user that share a managed  *)
(* SSH configuration and call the servers of their contexts.  A call is    *)
(* one step of the server; its answer may be lost.  The form of wt new     *)
(* shares nothing with other processes, so they start when it is closed.   *)
(***************************************************************************)
EXTENDS CreateForm

CONSTANTS
    FirstWorlds,        \* the inventories the servers may start with
    Names,              \* names of worlds
    Procs,              \* processes; New is the one that runs wt new
    New,
    MaxWorlds,          \* bound: worlds ever made
    MaxRetries,         \* bound: repeated creations of one command
    SSH_SYNC_ATTEMPTS

ContextSet == {Contexts[i] : i \in DOMAIN Contexts}

ASSUME CommandsAssumption ==
    /\ New \in Procs /\ none \notin Procs
    /\ \A first \in FirstWorlds : DOMAIN first = ContextSet
    /\ {MaxWorlds, MaxRetries} \subseteq Nat
    /\ SSH_SYNC_ATTEMPTS \in Nat \ {0}

VARIABLES
    worlds,     \* by context, the worlds of its server
    made,       \* history: the process that made a world, none for the first ones
    seen,       \* history: the aliases every context has offered
    replayed,   \* processes whose request of wt api its server has recorded
    proc,       \* the processes
    lock,       \* holder of inventory.lock, or none
    config,     \* ~/.ssh/wt/config
    hosts,      \* ~/.ssh/wt/known_hosts
    include,    \* ~/.ssh/config: absent, "global" with the include, or "other"
    torn        \* history: the last writer ended between the two files

servers == <<worlds, made, seen, replayed>>
files == <<lock, config, hosts, include, torn>>
vars == <<form, used, servers, proc, files>>

Operations == {"rm", "rename", "start", "stop"}

\* Running and offered over SSH.
has_alias(w) == w.up
aliases(inventory) == {[id |-> w.id, name |-> w.name] : w \in {v \in inventory : has_alias(v)}}

\* What sync writes of an inventory: every alias qualified, and without its
\* context where no other world, running or not, has the name.
Generated(report) ==
    LET Named(name) == {c \in ContextSet : \E w \in report[c] : w.name = name}
    IN [full |-> [c \in ContextSet |-> aliases(report[c])],
        short |-> {w.name : w \in UNION {aliases(report[c]) : c \in ContextSet}}
                    \intersect {name \in Names : Cardinality(Named(name)) = 1}]

Idle == [pc |-> "idle", cmd |-> none, then |-> none, ctx |-> none, short |-> FALSE,
         name |-> none, id |-> 0, at |-> 1, report |-> [c \in ContextSet |-> {}],
         failures |-> {}, rivals |-> {}, tries |-> 0]
Ended == [Idle EXCEPT !.pc = "ended"]

CommandsInit ==
    /\ worlds \in FirstWorlds
    /\ made = [i \in {w.id : w \in UNION {worlds[c] : c \in ContextSet}} |-> none]
    /\ seen = [c \in ContextSet |-> {aliases(worlds[c])}]
    /\ replayed = {}
    /\ proc = [p \in Procs |-> Idle]
    /\ lock = none
    /\ config = Generated(worlds)
    /\ hosts = config.full
    /\ include \in {"absent", "other"}
    /\ torn = FALSE

Init == FormInit /\ CommandsInit
-----------------------------------------------------------------------------
(* The servers.                                                            *)

At(p, pc) == form = none /\ proc[p].pc = pc /\ UNCHANGED <<form, used>>
Go(p, record) == proc' = [proc EXCEPT ![p] = record]

Serve(c, inventory) ==
    /\ worlds' = [worlds EXCEPT ![c] = inventory]
    /\ seen' = [seen EXCEPT ![c] = @ \union {aliases(inventory)}]

\* A name is free in a context, and the bound leaves a world to make.
CanMake(c, name) ==
    Cardinality(DOMAIN made) < MaxWorlds /\ \A w \in worlds[c] : w.name # name

Make(p, c, name) ==
    LET id == Cardinality(DOMAIN made) + 1
    IN /\ Serve(c, worlds[c] \union {[id |-> id, name |-> name, up |-> TRUE]})
       /\ made' = [i \in DOMAIN made \union {id} |-> IF i = id THEN p ELSE made[i]]

Remove(c, id) == Serve(c, {w \in worlds[c] : w.id # id})

\* The operation of a command on the world it found.
Operate(cmd, c, id) ==
    LET world == CHOOSE w \in worlds[c] : w.id = id
        others == worlds[c] \ {world}
    IN CASE cmd = "rm" -> Remove(c, id)
         [] cmd = "rename" -> \E name \in Names \ {w.name : w \in others} :
                                 Serve(c, others \union {[world EXCEPT !.name = name]})
         [] cmd = "start" -> Serve(c, others \union {[world EXCEPT !.up = TRUE]})
         [] cmd = "stop" -> Serve(c, others \union {[world EXCEPT !.up = FALSE]})
-----------------------------------------------------------------------------
(* Listing and resolving.                                                  *)

Listing(r, then) == [r EXCEPT !.pc = "list", !.then = then, !.at = 1,
                              !.report = Idle.report, !.failures = {}]

\* resolve: the only world of the name, or of the context and the name.
Matches(r) == {m \in UNION {{c} \X r.report[c] : c \in ContextSet} :
                 m[2].name = r.name /\ (r.short \/ m[1] = r.ctx)}

\* Exactly one world fits.
Resolved(r) == \E m \in Matches(r) : Matches(r) = {m}

\* Mutant: a context that did not answer counts as one without worlds.
Complete_ignored(r) == TRUE

\* A name is resolved only when every context answered.
Complete(r) == r.failures = {}

\* Mutant: the worlds that were listed are published all the same.
sync_complete_inventory_partial(r) == TRUE

\* An inventory is published only when it is complete.
sync_complete_inventory(r) == r.failures = {}

\* What may follow a listing: ls and the operations only warn when a context
\* failed; sync and new fail, new after a few attempts when the server's
\* database was locked; code, ssh and a short target need the whole list.
Listed(r) ==
    LET synced == [r EXCEPT !.pc = "lock"]
        chosen == CHOOSE m \in Matches(r) : TRUE
    IN CASE r.then = "resolve" ->
              IF Complete(r) /\ Resolved(r)
              THEN {[r EXCEPT !.pc = "get", !.ctx = chosen[1], !.report = Idle.report]}
              ELSE {Ended}
         [] r.then = "open" ->
              IF Complete(r) /\ Resolved(r) /\ has_alias(chosen[2])
              THEN {synced} ELSE {Ended}
         [] r.then = "new" ->
              IF sync_complete_inventory(r) THEN {synced}
              ELSE {Ended} \union
                   (IF r.tries < SSH_SYNC_ATTEMPTS
                    THEN {Listing([r EXCEPT !.tries = @ + 1], "new")} ELSE {})
         [] OTHER -> IF sync_complete_inventory(r) THEN {synced} ELSE {Ended}

\* One context of list_all after the other, in the order of the configuration.
list_all_inner(p) ==
    LET r == proc[p]
        c == Contexts[r.at]
        rivals == IF r.then = "resolve" /\ \E w \in worlds[c] : w.name = r.name
                  THEN r.rivals \union {c} ELSE r.rivals
        asked == [r EXCEPT !.at = @ + 1, !.rivals = rivals]
    IN /\ At(p, "list")
       /\ \E a \in {[asked EXCEPT !.report[c] = worlds[c]],
                    [asked EXCEPT !.failures = @ \union {c}]} :
             IF r.at < Len(Contexts) THEN Go(p, a)
             ELSE \E l \in Listed([a EXCEPT !.at = 1]) : Go(p, l)
       /\ UNCHANGED <<servers, files>>
-----------------------------------------------------------------------------
(* Commands.                                                               *)

\* Enter in the review starts the creation; Esc gives it up.
handle_key ==
    /\ form # none
    /\ form' = none /\ used' = {}
    /\ \/ /\ form.stage = "review" /\ input_valid(form)
          /\ \E name \in Names :
                Go(New, [Idle EXCEPT !.pc = "create", !.cmd = "new", !.name = name,
                                     !.ctx = Contexts[form.Context]])
       \/ Go(New, Ended)
    /\ UNCHANGED <<servers, files>>

\* Starting a command: a target is qualified by its context or not, and the
\* configuration may fail to load.
run_from(p) ==
    /\ At(p, "idle")
    /\ \/ Go(p, Ended)
       \/ \E then \in {"ls", "sync"} : Go(p, Listing(Idle, then))
       \/ \E name \in Names, c \in ContextSet \union {none}, cmd \in Operations \union {"open"} :
            LET r == [Idle EXCEPT !.cmd = cmd, !.name = name, !.ctx = c, !.short = (c = none)]
            IN Go(p, IF cmd = "open" THEN Listing(r, "open")
                     ELSE IF c # none THEN [r EXCEPT !.pc = "get"]
                     ELSE IF Len(Contexts) = 1 THEN [r EXCEPT !.pc = "get", !.ctx = Contexts[1]]
                     ELSE Listing(r, "resolve"))
       \/ \E name \in Names, c \in ContextSet :
            Go(p, [Idle EXCEPT !.pc = "api", !.cmd = "create", !.name = name, !.ctx = c])
       \/ \E c \in ContextSet : \E w \in worlds[c] :
            Go(p, [Idle EXCEPT !.pc = "api", !.cmd = "delete", !.id = w.id, !.ctx = c])
    /\ UNCHANGED <<servers, files>>

\* GetWorld: the name is looked up again, in the one context.
resolve_operation_target(p) ==
    LET r == proc[p]
        found == {w \in worlds[r.ctx] : w.name = r.name}
    IN /\ At(p, "get")
       /\ \/ \E w \in found : Go(p, [r EXCEPT !.pc = "operate", !.id = w.id])
          \/ Go(p, Ended)
       /\ UNCHANGED <<servers, files>>

\* rm, rename, start and stop: the call, and the listing when it was answered.
Command(p) ==
    LET r == proc[p]
    IN /\ At(p, "operate")
       /\ \/ /\ \E w \in worlds[r.ctx] : w.id = r.id
             /\ Operate(r.cmd, r.ctx, r.id)
             /\ Go(p, Listing([Idle EXCEPT !.cmd = r.cmd], "warn")) \/ Go(p, Ended)
          \/ /\ Go(p, Ended)
             /\ UNCHANGED <<worlds, seen>>
       /\ UNCHANGED <<made, replayed, files>>

\* Mutant: a creation without an answer is tried again.
run_retrying(p) ==
    LET r == proc[p]
    IN /\ At(p, "create")
       /\ \/ /\ CanMake(r.ctx, r.name)
             /\ Make(p, r.ctx, r.name)
             /\ \/ Go(p, Listing([Idle EXCEPT !.cmd = "new", !.tries = 1], "new"))
                \/ r.tries < MaxRetries /\ Go(p, [r EXCEPT !.tries = @ + 1])
          \/ /\ Go(p, [r EXCEPT !.pc = "capacity"]) \/ Go(p, Ended)
             /\ UNCHANGED <<worlds, seen, made>>
       /\ UNCHANGED <<replayed, files>>

\* run of the creation task: only an answer without capacity is asked again;
\* a lost or refused one ends the command.
run(p) ==
    LET r == proc[p]
    IN /\ At(p, "create")
       /\ \/ /\ CanMake(r.ctx, r.name)
             /\ Make(p, r.ctx, r.name)
             /\ Go(p, Listing([Idle EXCEPT !.cmd = "new", !.tries = 1], "new")) \/ Go(p, Ended)
          \/ /\ Go(p, [r EXCEPT !.pc = "capacity"]) \/ Go(p, Ended)
             /\ UNCHANGED <<worlds, seen, made>>
       /\ UNCHANGED <<replayed, files>>

\* The prompt that follows: Enter retries, Esc and a signal cancel.
retry(p) ==
    LET r == proc[p]
    IN /\ At(p, "capacity")
       /\ \/ r.tries < MaxRetries /\ Go(p, [r EXCEPT !.pc = "create", !.tries = @ + 1])
          \/ Go(p, Ended)
       /\ UNCHANGED <<servers, files>>

\* The server has recorded the request under its identity.
replayable(p) == p \in replayed

\* wt api: a mutation carries the identity of the request, under which the
\* server repeats its answer.  A reply without an answer is retryable, and the
\* caller may send the same request again.
call(p) ==
    LET r == proc[p]
    IN /\ At(p, "api")
       /\ \/ /\ ~replayable(p) /\ replayed' = replayed \union {p}
             /\ \/ r.cmd = "create" /\ CanMake(r.ctx, r.name) /\ Make(p, r.ctx, r.name)
                \/ r.cmd = "delete" /\ Remove(r.ctx, r.id) /\ UNCHANGED made
          \/ UNCHANGED servers
       /\ \/ Go(p, Ended)
          \/ r.tries < MaxRetries /\ Go(p, [r EXCEPT !.tries = @ + 1])
       /\ UNCHANGED files
-----------------------------------------------------------------------------
(* The managed SSH configuration.                                          *)

\* Mutant: nobody waits for the lock.
sync_unlocked(p) ==
    /\ At(p, "lock")
    /\ lock' = p
    /\ Go(p, [proc[p] EXCEPT !.pc = "include"])
    /\ UNCHANGED <<servers, config, hosts, include, torn>>

\* sync: the inventory was listed before the lock is taken.
sync(p) ==
    /\ At(p, "lock")
    /\ lock = none /\ lock' = p
    /\ Go(p, [proc[p] EXCEPT !.pc = "include"])
    /\ UNCHANGED <<servers, config, hosts, include, torn>>

\* The user's configuration must load the managed one; it is written only
\* when there is none.
ensure_managed_include(p) ==
    /\ At(p, "include")
    /\ include' = IF include = "absent" THEN "global" ELSE include
    /\ IF include = "other" THEN Go(p, Ended) /\ lock' = none
       ELSE Go(p, [proc[p] EXCEPT !.pc = "config"]) /\ UNCHANGED lock
    /\ UNCHANGED <<servers, config, hosts, torn>>

replace_config(p) ==
    /\ At(p, "config")
    /\ config' = Generated(proc[p].report)
    /\ Go(p, [proc[p] EXCEPT !.pc = "hosts"])
    /\ UNCHANGED <<servers, lock, hosts, include, torn>>

replace_known_hosts(p) ==
    /\ At(p, "hosts")
    /\ hosts' = Generated(proc[p].report).full
    /\ lock' = none /\ torn' = FALSE
    /\ Go(p, Ended)
    /\ UNCHANGED <<servers, config, include>>

\* A write fails, the keys of a world are incomplete, or the process is killed.
Fail(p) ==
    /\ \E pc \in {"include", "config", "hosts"} : At(p, pc)
    /\ lock' = none
    /\ torn' = (torn \/ proc[p].pc = "hosts")
    /\ Go(p, Ended)
    /\ UNCHANGED <<servers, config, hosts, include>>

Over == form = none /\ (\A p \in Procs : proc[p].pc = "ended") /\ UNCHANGED vars

Next == \/ FormNext /\ UNCHANGED <<servers, proc, files>>
        \/ handle_key
        \/ \E p \in Procs :
              \/ run_from(p) \/ list_all_inner(p) \/ resolve_operation_target(p)
              \/ Command(p) \/ run(p) \/ retry(p) \/ call(p)
              \/ sync(p) \/ ensure_managed_include(p) \/ replace_config(p)
              \/ replace_known_hosts(p) \/ Fail(p)
        \/ Over

Spec == Init /\ [][Next]_vars
-----------------------------------------------------------------------------
(* Properties.                                                             *)

\* Whatever the processes do at once, the two managed files tell of the same
\* inventory while no sync is running, unless the last writer was cut off
\* between them (sync_in_home holds inventory.lock over both replacements).
OneInventoryPublished == lock = none /\ ~torn => config.full = hosts

\* The published worlds of a context are ones it really had at some moment: a
\* context that does not answer is never published as an empty one.
PublishedWasTrue == \A c \in ContextSet : config.full[c] \in seen[c]

\* A command makes at most one world, with capacity retries, lost answers and
\* repeated requests of wt api.
OneWorldPerCommand ==
    \A p \in Procs : Cardinality({i \in DOMAIN made : made[i] = p}) <= 1

\* A name without a context is acted on only when no other context had a world
\* of that name as the command went through them, the silent ones included.
ActsUnambiguously ==
    \A p \in Procs : proc[p].pc \in {"get", "operate"} /\ proc[p].short
                       => proc[p].rivals \subseteq {proc[p].ctx}
=============================================================================
