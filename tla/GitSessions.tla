---------------------------- MODULE GitSessions ----------------------------
(***************************************************************************)
(* Git sessions of agents: the gateway serves a world, the proxy a client, *)
(* and both hand the stream to serve_git, which runs the provider's Git    *)
(* service as a child.  A pack, a request and an answer are counted in     *)
(* units of one pipe; the objects of a push are commits with their         *)
(* parents.  The provider and its other users are external.                *)
(***************************************************************************)
EXTENDS Integers, FiniteSets

CONSTANTS
    Mixes,         \* what runs: by process, "gateway" and "proxy" for sessions,
                   \* "tui" and "installer" for the administration of the proxy,
                   \* "github" and "gitlab" for a command of AgentTools
    Commits,       \* commits that exist anywhere
    Ancestors,     \* by commit, itself and its ancestors
    Requests,      \* what clients ask for: a service, a provider, a path safe or not
    Providers,     \* the configured ones
    Refs, Permitted,   \* refs of the repository, the ones the policy permits
    Pushes,        \* what clients push: by ref, the old and the new commit
    FirstRefs,     \* the refs at the start
    Moves,         \* what others do to the refs: pairs of a ref and a commit
    Keys,          \* keys of proxy clients
    Pipe,          \* bound: units in a pipe
    Units,         \* bound: units of a pack and of an answer
    MaxOutside,    \* bound: changes of the refs by others
    MaxEdits,      \* bound: edits of the proxy's keys
    none

ASSUME GitAssumption ==
    /\ {Pipe, Units} \subseteq Nat \ {0}
    /\ {MaxOutside, MaxEdits} \subseteq Nat
    /\ Permitted \subseteq Refs
    /\ none \notin UNION {DOMAIN mix : mix \in Mixes}
    /\ \A c \in Commits : c \in Ancestors[c] /\ Ancestors[c] \subseteq Commits

VARIABLES
    session,   \* the sessions and the administrators
    refs,      \* the refs of the provider's repository
    lock,      \* holder of /etc/wt-git-proxy.lock, or none
    moved,     \* history: what sessions changed, with the session and the values
    activity,  \* branch updates in the gateway's registry
    outside,   \* changes made by others
    files,     \* of the proxy: keys, a temporary left, credentials, config
    granted,   \* history: the keys as the acknowledged edits leave them
    edits,     \* edits begun
    broken     \* history: an installation was cut short

provider == <<refs, moved, activity, outside>>
proxy == <<files, granted, edits, broken>>
gitVars == <<session, lock, provider, proxy>>

\* A session: the client's connection, the child and what it is writing, the
\* staged objects, and the pipes: units to send, in the child's input, read by
\* it, left to say and to complain, in its output and in its errors, and
\* whether the request thread still runs.
Fresh == [pc |-> "start", kind |-> none, service |-> none, open |-> TRUE, child |-> none,
          writes |-> none, push |-> <<>>, todo |-> {}, accepted |-> {}, staged |-> {},
          send |-> 0, in |-> 0, read |-> 0, say |-> 0, complain |-> 0,
          out |-> 0, err |-> 0, request |-> FALSE,
          config |-> 0, entries |-> {}, edit |-> none, key |-> none]

GitInit(mix) ==
    LET processes == {s \in DOMAIN mix : mix[s] \notin {"github", "gitlab"}}
    IN /\ session = [s \in processes |-> [Fresh EXCEPT !.kind = mix[s]]]
       /\ refs \in FirstRefs
       /\ lock = none
       /\ moved = {} /\ activity = {}
       /\ outside = 0
       /\ files = [keys |-> {}, temporary |-> FALSE, credentials |-> 0, config |-> 0]
       /\ granted = {} /\ edits = 0
       /\ broken = FALSE
-----------------------------------------------------------------------------
Processes == UNION {DOMAIN mix : mix \in Mixes}
Sessions == DOMAIN session
Kind(s) == session[s].kind
At(s, pc) == session[s].pc = pc
Set(s, record) == session' = [session EXCEPT ![s] = record]
Reachable == UNION {Ancestors[refs[r]] : r \in {q \in Refs : refs[q] # none}}

\* The end of a session, with what became of its child.  The process of a
\* proxy ends with it and frees the lock; nobody else does.
End(s, child) ==
    /\ Set(s, [Fresh EXCEPT !.pc = "ended", !.kind = Kind(s), !.child = child])
    /\ lock' = IF lock = s THEN none ELSE lock

\* An error while the child is a PendingPush kills it and waits for it.
Dropped(s) == End(s, "reaped") /\ UNCHANGED <<provider, proxy>>

\* Mutant: the lock is shared.
acquire_shared(s) == TRUE

\* ProcessLock: every process of the proxy waits until it has the lock.
acquire(s) == Kind(s) # "gateway" => lock = none

\* A source with a safe path; the provider has to be one of the config.
parse_source(request) == request.safe
provider_known(request) == request.host \in Providers
resolve_command(request) == provider_known(request) /\ request.safe

Begun(s, pc, service) ==
    Set(s, [session[s] EXCEPT !.pc = pc, !.service = service, !.config = files.config])

\* The gateway serves an active world whose use of the service it can store.
serve_gateway(s) ==
    /\ At(s, "start") /\ Kind(s) = "gateway"
    /\ \/ End(s, none)
       \/ \E request \in Requests :
             /\ parse_source(request) /\ provider_known(request)
             /\ Begun(s, "spawn", request.service) /\ UNCHANGED lock
    /\ UNCHANGED <<provider, proxy>>

\* A process of the proxy has the lock from its start to its end, and reads the
\* config; a session goes on when the command is one the config resolves.
serve_proxy(s) ==
    /\ At(s, "start") /\ Kind(s) = "proxy" /\ acquire(s)
    /\ \E request \in Requests :
          IF resolve_command(request) THEN Begun(s, "spawn", request.service) /\ lock' = s
                                      ELSE End(s, none)
    /\ UNCHANGED <<provider, proxy>>

run_tui(s) ==
    /\ At(s, "start") /\ Kind(s) = "tui" /\ acquire(s)
    /\ Begun(s, "dashboard", none) /\ lock' = s
    /\ UNCHANGED <<provider, proxy>>

run_installer(s) ==
    /\ At(s, "start") /\ Kind(s) = "installer" /\ acquire(s)
    /\ Begun(s, "credentials", none) /\ lock' = s
    /\ UNCHANGED <<provider, proxy>>

\* The child of a session, a PendingPush until it is bridged.
spawn_git(s) ==
    /\ At(s, "spawn")
    /\ \/ /\ Set(s, [session[s] EXCEPT !.pc = "advertise", !.child = "runs"])
          /\ UNCHANGED <<lock, provider, proxy>>
       \/ End(s, none) /\ UNCHANGED <<provider, proxy>>

\* The refs the child advertises go to the client; a fetch is then bridged.
forward_advertisement(s) ==
    /\ At(s, "advertise")
    /\ \/ /\ session[s].open
          /\ Set(s, [session[s] EXCEPT
                        !.pc = IF session[s].service = "upload" THEN "bridge" ELSE "commands",
                        !.send = Units, !.say = Units, !.complain = Units,
                        !.request = TRUE])
          /\ UNCHANGED <<lock, provider, proxy>>
       \/ Dropped(s)

permits(ref) == ref \in Permitted

\* Mutant: a deletion of a permitted branch is let through.
push_violation_deletion(push) == \E r \in DOMAIN push : ~permits(r)

\* push_violation: every update is to a permitted branch, and none deletes.
push_violation(push) == \E r \in DOMAIN push : ~permits(r) \/ push[r].new = none

\* A push is refused: the client is told, and the child killed.
reject_push(s) == Dropped(s)

\* The commands of a push arrive, unless the client leaves or sends no push.
read_packet_section(s) ==
    /\ At(s, "commands")
    /\ \/ /\ session[s].open
          /\ \E push \in Pushes :
                IF push_violation(push) THEN reject_push(s)
                ELSE /\ Set(s, [session[s] EXCEPT !.pc = "stage", !.push = push])
                     /\ UNCHANGED <<lock, provider, proxy>>
       \/ Dropped(s)

\* fetch_objects: all the provider has, as another child sees it now.
fetch_objects(s) ==
    /\ At(s, "stage")
    /\ \/ /\ Set(s, [session[s] EXCEPT !.pc = "validate", !.staged = Reachable])
          /\ UNCHANGED <<lock, provider, proxy>>
       \/ Dropped(s)

\* Mutant: only the new commit is looked up.
FastForward_unchecked(update, objects) == update.new \in objects

\* The new commit is there, and the old one, when there is one, precedes it.
FastForward(update, objects) ==
    /\ update.new \in objects
    /\ update.old # none => update.old \in objects /\ update.old \in Ancestors[update.new]

\* copy_pack takes one pack from the client, who may leave instead, and
\* index_pack has it with what is staged: nothing may be missing.
copy_pack(s) == IF session[s].open THEN SUBSET Commits ELSE {}
index_pack(pack, staged) == \A c \in pack : Ancestors[c] \subseteq pack \union staged

\* validated_pack: each update must be a fast-forward of the commit the client
\* names, by the staged objects and the pack.
validated_pack(s) ==
    LET push == session[s].push
        staged == session[s].staged
    IN /\ At(s, "validate")
       /\ \/ /\ \E pack \in copy_pack(s) :
                   /\ index_pack(pack, staged)
                   /\ \A r \in DOMAIN push : FastForward(push[r], staged \union pack)
             /\ Set(s, [session[s] EXCEPT !.pc = "bridge", !.staged = {}, !.todo = DOMAIN push])
             /\ UNCHANGED <<lock, provider, proxy>>
          \/ reject_push(s)
-----------------------------------------------------------------------------
(* bridge_child: a thread sends the request or the staged pack, one drains *)
(* the errors, and the session's own thread takes the answer.              *)

Bridging(s) == At(s, "bridge")
Push(s) == session[s].service = "receive"
Pipes(s, record) == Set(s, record) /\ UNCHANGED <<lock, provider, proxy>>

\* The session's thread reads the answer whenever there is some.
CanAnswer(s) == session[s].out > 0

\* The thread copies the request to the child until its end, or until the
\* child is gone.  A client asks again only when it has its answer.
copy_unbuffered(s) ==
    LET r == session[s]
        asks == r.send > 0 /\ (Push(s) \/ (r.open /\ r.send = r.say + r.out))
    IN /\ Bridging(s) /\ r.request
       /\ \/ /\ asks /\ r.child = "runs" /\ r.in < Pipe
             /\ Pipes(s, [r EXCEPT !.send = @ - 1, !.in = @ + 1])
          \/ /\ \/ asks /\ r.child = "exited"
                \/ IF Push(s) THEN r.send = 0 ELSE ~r.open
             /\ Pipes(s, [r EXCEPT !.request = FALSE])

\* Mutant: the errors are read when the answer has ended.
capture_stderr_after(s) ==
    /\ Bridging(s) /\ session[s].err > 0 /\ session[s].child = "exited"
    /\ Pipes(s, [session[s] EXCEPT !.err = @ - 1])

\* The errors are drained while the session lasts, kept or not.
capture_stderr(s) ==
    /\ Bridging(s) /\ session[s].err > 0
    /\ Pipes(s, [session[s] EXCEPT !.err = @ - 1])

\* External: the child is one thread.  It reads, or begins to write a part of
\* the answer or of its errors and then waits for room.  The last part of an
\* answer follows the whole request; at the end of a request that is cut short
\* the child gives up.
ChildPipes(s) ==
    LET r == session[s]
        cut == r.in = 0 /\ ~r.request /\ r.read < Units
    IN /\ Bridging(s) /\ r.child = "runs"
       /\ \/ /\ r.writes = none
             /\ \/ r.in > 0 /\ Pipes(s, [r EXCEPT !.in = @ - 1, !.read = @ + 1])
                \/ /\ r.say > 0
                   /\ IF Push(s) THEN r.say = 1 => r.read = Units /\ r.todo = {}
                                 ELSE r.read > Units - r.say
                   /\ Pipes(s, [r EXCEPT !.writes = "out"])
                \/ r.complain > 0 /\ Pipes(s, [r EXCEPT !.writes = "err", !.complain = @ - 1])
                \/ (r.say = 0 \/ cut) /\ Pipes(s, [r EXCEPT !.child = "exited"])
          \/ /\ r.writes = "out" /\ r.out < Pipe
             /\ Pipes(s, [r EXCEPT !.say = @ - 1, !.out = @ + 1, !.writes = none])
          \/ /\ r.writes = "err" /\ r.err < Pipe
             /\ Pipes(s, [r EXCEPT !.err = @ + 1, !.writes = none])

\* External: with the whole pack the child moves the refs that are still at the
\* old commit, or refuses to.
ChildUpdates(s) ==
    LET r == session[s]
    IN /\ Bridging(s) /\ r.child = "runs" /\ r.read = Units /\ r.writes = none
       /\ \E ref \in r.todo :
             LET ok == refs[ref] = r.push[ref].old
             IN \/ /\ ok
                   /\ refs' = [refs EXCEPT ![ref] = r.push[ref].new]
                   /\ moved' = moved \union {[by |-> s, ref |-> ref, old |-> refs[ref],
                                              new |-> r.push[ref].new]}
                   /\ Set(s, [r EXCEPT !.todo = @ \ {ref}, !.accepted = @ \union {ref}])
                   /\ UNCHANGED <<lock, activity, outside, proxy>>
                \/ Pipes(s, [r EXCEPT !.todo = @ \ {ref}])

\* External: the connection to the provider is lost.
ChildDies(s) ==
    /\ Bridging(s) /\ session[s].child = "runs"
    /\ Pipes(s, [session[s] EXCEPT !.child = "exited", !.todo = {},
                                   !.accepted = {}])

\* A failed write to a client who is gone is an error of a closed stream.
tolerate_stream_close(s) == ~session[s].open

\* A unit of the answer: kept until the end in a push, given to the client in
\* a fetch.  When the client is gone the copy fails; the request is joined and
\* the tolerated error reaches the unreachable branch.
answer(s) ==
    LET r == session[s]
    IN /\ Bridging(s) /\ CanAnswer(s)
       /\ IF Push(s) \/ ~tolerate_stream_close(s)
          THEN Pipes(s, [r EXCEPT !.out = @ - 1])
          ELSE /\ ~r.request
               /\ End(s, "panicked")
               /\ UNCHANGED <<provider, proxy>>

\* Mutant: every command of the push is taken for done.
successful_push_updates_all(r) ==
    {[ref |-> ref, old |-> r.push[ref].old, new |-> r.push[ref].new] : ref \in DOMAIN r.push}

\* successful_push_updates: what the provider reported as done.
successful_push_updates(r) ==
    {[ref |-> ref, old |-> r.push[ref].old, new |-> r.push[ref].new] : ref \in r.accepted}

\* The whole answer of a push is written to the client at once.
forward_receive_pack_response(s) == session[s].open

\* The gateway stores the updates of a push that ended well; a failure to store
\* is only logged.
record_git_activity(s) ==
    \/ /\ Kind(s) = "gateway" /\ session[s].say = 0
       /\ activity' = activity \union
            {[by |-> s, ref |-> u.ref, old |-> u.old, new |-> u.new] :
                u \in successful_push_updates(session[s])}
    \/ UNCHANGED activity

\* The end of the answer.  When the answer of a push cannot be written the
\* session returns at once.  Otherwise the streams are shut down, which ends
\* the request of a gateway, and the threads and the child are waited for; a
\* proxy has to wait until its client leaves.
finish(s) ==
    LET r == session[s]
    IN /\ Bridging(s) /\ r.child = "exited" /\ r.out = 0
       /\ UNCHANGED <<refs, moved, outside, proxy>>
       /\ \/ /\ Push(s) /\ ~forward_receive_pack_response(s)
             /\ End(s, "left") /\ UNCHANGED activity
          \/ /\ Push(s) => forward_receive_pack_response(s)
             /\ r.request => ~Push(s) /\ (Kind(s) = "gateway" \/ r.say = 0)
             /\ r.err = 0
             /\ End(s, "reaped")
             /\ record_git_activity(s)

\* External: the client goes away.
Close(s) ==
    /\ session[s].open /\ session[s].service # none
    /\ Pipes(s, [session[s] EXCEPT !.open = FALSE])

\* External: others move refs as they like.
Outside ==
    /\ outside < MaxOutside /\ outside' = outside + 1
    /\ \E move \in Moves : refs' = [refs EXCEPT ![move[1]] = move[2]]
    /\ UNCHANGED <<session, lock, moved, activity, proxy>>
-----------------------------------------------------------------------------
(* The administration of the proxy, while it holds the lock.               *)

read_entries == files.keys

\* The entries to write: one more, of a key that is not there, or one less.
add_public_key(s, k) ==
    /\ k \notin read_entries
    /\ Set(s, [session[s] EXCEPT !.pc = "write", !.edit = "add", !.key = k,
                                 !.entries = read_entries \union {k}])
remove_key(s, k) ==
    /\ k \in read_entries
    /\ Set(s, [session[s] EXCEPT !.pc = "write", !.edit = "remove", !.key = k,
                                 !.entries = read_entries \ {k}])

\* The operator generates a client, revokes one, or quits.
dashboard(s) ==
    /\ At(s, "dashboard")
    /\ \/ /\ edits < MaxEdits /\ edits' = edits + 1
          /\ \E k \in Keys : add_public_key(s, k) \/ remove_key(s, k)
          /\ UNCHANGED <<lock, provider, files, granted, broken>>
       \/ End(s, none) /\ UNCHANGED <<provider, proxy>>

\* atomic_write: a temporary of a fixed name, which must not exist yet, and
\* the rename, after which the edit is acknowledged.
atomic_write(s) ==
    \/ /\ At(s, "write") /\ ~files.temporary
       /\ files' = [files EXCEPT !.temporary = TRUE]
       /\ Set(s, [session[s] EXCEPT !.pc = "rename"])
       /\ UNCHANGED <<lock, provider, granted, edits, broken>>
    \/ /\ At(s, "write") /\ files.temporary
       /\ End(s, none) /\ UNCHANGED <<provider, proxy>>
    \/ /\ At(s, "rename")
       /\ files' = [files EXCEPT !.temporary = FALSE, !.keys = session[s].entries]
       /\ granted' = IF session[s].edit = "add" THEN granted \union {session[s].key}
                                                ELSE granted \ {session[s].key}
       /\ Set(s, [session[s] EXCEPT !.pc = "dashboard"])
       /\ UNCHANGED <<lock, provider, edits, broken>>

\* install: the credentials of the providers, then the config that names them.
install(s) ==
    \/ /\ At(s, "credentials")
       /\ files' = [files EXCEPT !.credentials = 1]
       /\ Set(s, [session[s] EXCEPT !.pc = "config"])
       /\ UNCHANGED <<lock, provider, granted, edits, broken>>
    \/ /\ At(s, "config")
       /\ files' = [files EXCEPT !.config = 1]
       /\ End(s, none)
       /\ UNCHANGED <<provider, granted, edits, broken>>

\* A step of an administrator fails, or its process dies.
Fails(s) ==
    /\ session[s].pc \in {"write", "rename", "credentials", "config"}
    /\ End(s, none)
    /\ broken' = (broken \/ At(s, "config"))
    /\ UNCHANGED <<provider, files, granted, edits>>
-----------------------------------------------------------------------------

Step(s) ==
    \/ serve_gateway(s) \/ serve_proxy(s) \/ run_tui(s) \/ run_installer(s)
    \/ spawn_git(s) \/ forward_advertisement(s) \/ read_packet_section(s)
    \/ fetch_objects(s) \/ validated_pack(s) \/ copy_unbuffered(s) \/ capture_stderr(s)
    \/ ChildPipes(s) \/ ChildUpdates(s) \/ answer(s) \/ finish(s)
    \/ dashboard(s) \/ atomic_write(s) \/ install(s)

GitNext == \/ \E s \in Sessions : Step(s) \/ ChildDies(s) \/ Close(s) \/ Fails(s)
           \/ Outside

\* Every session goes on: its threads and the child are scheduled, and the
\* client asks, takes its answer and leaves.  Nothing is fair that fails.
GitFairness == \A s \in Processes : WF_gitVars(s \in Sessions /\ Step(s))
-----------------------------------------------------------------------------
GitTypeOK ==
    /\ lock \in Sessions \union {none}
    /\ files.keys \subseteq Keys
    /\ refs \in [Refs -> Commits \union {none}]
    /\ \A s \in Sessions : /\ DOMAIN session[s] = DOMAIN Fresh
                           /\ {session[s].in, session[s].out, session[s].err} \subseteq 0..Pipe

\* Whatever a session moves at the provider is a permitted branch, and keeps
\* every commit it had, though others move refs between the check of the
\* staged objects and the push (staging.rs, policy.rs).
PushesPreserveHistory ==
    \A m \in moved : /\ m.ref \in Permitted /\ m.new # none
                     /\ m.old # none => m.old \in Ancestors[m.new]

\* A branch update in the gateway's activity did happen, by that session, with
\* these commits, though a push may be accepted in part (gateway/service.rs).
ActivityTrue == activity \subseteq moved

\* A fetch through the proxy whose provider is gone before its answer was whole:
\* the session waits for the end of the request, since its stream cannot be shut
\* down, and the client waits for the rest of the answer.
CutShort(s) ==
    LET r == session[s]
    IN /\ Bridging(s) /\ Kind(s) = "proxy" /\ ~Push(s)
       /\ r.child = "exited" /\ r.out = 0 /\ r.request /\ r.open
       /\ r.say > 0 /\ r.send # r.say

\* Sessions end, although the provider may be lost at any time and the pipes are
\* small: no two of the threads, the child and the client wait for each other, and
\* the proxy's lock comes free for those that wait for it, unless a fetch through
\* the proxy was cut short and its client stays (bridge_child, ProcessLock).
SessionsEnd ==
    \A s \in Processes : \/ <>(s \in Sessions => At(s, "ended"))
                          \/ <>[](\E t \in Sessions : CutShort(t))

\* The lock of the proxy serializes: no acknowledged edit of the keys is lost,
\* and no session sees the credentials or the config change under it, unless an
\* installation was cut short before (config.rs ProcessLock, atomic_write).
LockSerializes ==
    /\ files.keys = granted
    /\ \A s \in Sessions :
          Kind(s) = "proxy" /\ session[s].service # none =>
             /\ session[s].config = files.config
             /\ files.credentials = files.config \/ broken
=============================================================================
