# A TLA+ verification of WT

WT runs disposable development worlds, libvirt virtual machines with a Byobu
session, on a server. `wts` is the daemon on that server, `wt` the client with
its shell, `wtg` the tools inside a world, and a gateway lets a world reach Git
hosts and report its terminal panes. This directory holds TLA+ modules
translated from that code, the TLC instances that check them, and TLAPS proofs.

## 1. The system

| Component | State | Operations | Interacts with |
|---|---|---|---|
| World service (`wt/server/src/service.rs`, `service/`, `operations.rs`) | operation keys in use, one handler per connection | create, list, get, start, stop, rename, delete, exec, reconcile | registry, worker, gateway |
| Registry and capacity (`shared/workload-registry`) | the `worlds` table: status, identity, reservation | insert with capacity check, reserve, release, mark, rename, delete, reconcile at start-up | SQLite |
| libvirt worker and guest setup (`shared/libvirt-kvm`, `wt/guest`) | domain, machine directory, overlay, host keys | create, inspect, start, stop, usage, delete | libvirt, guest agent, SSH |
| API mutations (`workload-registry/src/api.rs`, `server/src/service/api.rs`) | `api_mutation_results` | begin, finish, abort, clear | world service, clock |
| Pane observations (`agent-tools/gateway`) | snapshots, inactive worlds, generations | authorize, store, activate, deactivate | relay in the guest, world service, clock |
| Git through the gateway (`gateway`, `git-smart-protocol`) | the stages and pipes of a session, staged objects, the child, activity records | fetch, push with policy | Git hosts |
| Tools of agents (`agent-tools/tools`, `gateway`) | a command and what it has read | read, wait, open, set, edit, comment, reply, retry, cancel, report | GitHub, GitLab |
| Git proxy (`git-proxy`) | lock, keys, credentials, configuration | sessions, dashboard, installation | Git hosts |
| Images (`server-installer/src/image`, `server/src/image_generation.rs`) | build lock, downloads, tools cache, generations, pointer to the current one | build, probe, publish, verify, resolve | libvirt, world service |
| Server installer (`server-installer`) | installed files and services | install, restart | images, host |
| Shared files (`server/src/shared_files.rs`) | published copies, recorded versions | publish, watch | host, every world |
| Activity and reports (`workload-registry/src/activity.rs`, `reports.rs`) | append-only records | record, page | gateway, client |
| Shell (`wt/client/src/shell`) | list of worlds, sessions, action queue, refresh generation | confirm, cancel, start, poll, refresh, reconnect | transport, SSH |
| Commands, create form, inventory, SSH files (`wt/client/src`) | form, requests in flight, managed files and their lock | new, ls, rm, start, stop, rename, sync, api | servers |

What is hard here, and so what the properties are about: handlers of different
connections interleave at every registry transaction and every libvirt call;
each of those calls may fail half way; the guest powers itself off or changes
its keys; the daemon may die in any state and only the registry and the host
survive; a request may be repeated while its first execution is running or
after its record has expired; reports of a guest arrive after the run they
belong to; a listing arrives in a shell after the action that outdates it;
others move branches and change requests between a check and a write; commands
of one user replace the same files; installers of two commits share a host.
`PROJECT.json` lists each hazard at its line with the properties that would
notice it.

## 2. The modules

### The server

`Capacity`: the `worlds` table as operators, one for each statement of
`store.rs` and `capacity.rs`. Rows keep status, name, fingerprint, resources,
reservation and host identity; owners, times and error texts are left out.

`WorldService`: the daemon. A thread is a connection; `pc` is the step its
handler takes next and `call` its locals. A handler is cut at every point where
another thread may intervene: a key operation, a registry transaction, a call to
libvirt or the guest. `machine` is what exists on the host. Constants say
which operations are offered, which host calls may fail, and bound the crashes.
Two guest actions (power-off, new host keys) are external; `Restart` is a crash
followed by `run_server`, with `reconcile_interrupted`. Validation of a request
before any state is read, and faults of SQLite itself, are left out.
`RemoveWhileCreating = FALSE` takes out the one race that finding 1 is about.

`WorldLifecycle`: the abstract specification. A world is unborn, provisioning,
running, stopped, in error, destroying, removed; it never runs without holding
its processors and memory, holding is admitted against the limit, its identity
is fixed at the first contact, a removed id is never used again.
`WorldService!ImplementsLifecycle` states that the daemon implements it, with
the status, the reservation and the pinned keys of a row as refinement mapping.

`ApiMutations` extends `WorldService` with request ids. `execute_api_mutation`
reserves or answers from the table in one transaction, the handler then runs
through the steps of `WorldService`, `handler_returns` maps its outcome and
`record_outcome` stores or withdraws. The request hash is the operation itself.
`ClockJumps` says whether the clock may pass the 30 days while a request runs.

`SharedFiles`: the thread that publishes Codex authentication and authorized
keys, cut at each of its accesses to the host's file, against an administrator
who edits. A version is what the metadata tell apart.

### Gateway, tools and proxy

`PaneGateway`: the gateway's observations. A connection is accepted,
authorised (the generation is read under the lock), stamped (the clock is read
without it) and stored. `flips` and `source` are history: how often the activity
of a world changed, and at which count the shown report was authorised.
Reports name panes and fingerprints; frames are left out. The `Activity` calls
are the ones `WorldService` makes in `apply_world`, `record_stopped` and
`delete_mark`, where `inactive` is the same set. A report counts as one of the
run in which it is authorised; the time it may have spent in the accepted
socket before that is not visible to the gateway.

`GitSessions`: what the gateway and the proxy do with a Git stream. A session goes
through its source, the advertisement, the request; a push is then fetched for,
indexed and checked, and replayed to the provider's child with its old ids, while a
fetch is bridged as it comes. `bridge_child` is three copies over pipes of `Pipe`
units: requests, answers, errors. Commits are a small graph given by `Ancestors`.
The client may leave, the provider may fail or accept a push in part, its child may
die at any moment, under the gateway and under the proxy, and others move refs. The proxy adds its lock, the dashboard that edits the keys of clients,
and the installer.

`AgentTools` extends it with the commands of `wtg tools`. A command is a plan, the
sequence of calls that `execute_cli_command` of its provider makes; the plans of
GitHub and GitLab are given beside each other. A step reads and checks, writes, or
waits; every call may fail, and a write may be done although its answer is lost.
People open, close, merge, edit and delete between two calls, and they open and move
change requests of forks. A change request keeps its state, draft mark, branch,
project and head: an open one of this project has the head of its branch, one of a
fork its own. GitLab's snapshot finds a change request by branch and head, whatever
its project. Comments keep the marker of agents. `seen` is history: what the checks of a
command have read, against which its later writes are judged.

### The client

`CreateForm`: the form of `wt new`: pages, fields, resources within the totals of
the context with the width of the code's integers, the suggested name, review.

`Commands` extends it with the commands of one user as processes over several
contexts: each context may fail to answer, names are resolved, the complete
inventory is read and written to `~/.ssh/wt` under `inventory.lock`. A create may
lose its answer, be refused for capacity and repeated; `wt api` repeats by id.

`Shell`: the terminal workspace. Its loop is cut between draining the sessions,
taking a refresh, polling the worker, starting the next action and handling input;
the worker of the action, the refresh thread and one reader for each session are
the other threads. Both listings, of the refresh and after a creation, ask one
context after the other. Channels keep their bounds. The lists are sequences of worlds;
`retain`, `filter` and the stable `sort_by` of the contexts are one operator,
`Arranged`, which lists chosen positions by an order on them.

`ActionOrder`: the abstract specification of the shell's queue: one action at a
time, in the order of confirmation, none twice, and what leaves without being
started leaves with everything behind it. `Shell!ActionsInOrder` is the refinement.

### The installer

`Images`: installers that take the build lock, fetch sources, reuse or build the
tools cache, build, check, probe and publish an image as a generation behind one
pointer, and install the files of the server; every command may fail, cleanups too,
an installer may be killed anywhere, files may be damaged, and the server resolves
the pointer when it starts, or goes up on the configured path when there is none. A
checksum is the content it is of. The identity of the tools is that of a commit, a
source image and a disk size, as in `cache.rs`. The build lock is held inside
`image::ensure` only: installations run side by side otherwise, and a file is checked,
copied to its temporary name and moved in three steps. `met` is history: the installers
whose installation ran beside another.

`MC...` modules hold the constants of the runs. The proofs are in
`WorldServiceProofs`, `WorldLifecycleProofs`, `ApiMutationsProofs`,
`PaneGatewayProofs`, `ImagesProofs`, `AgentToolsProofs` (with `GitSessions`),
`CommandsProofs` (with `CreateForm`) and `ShellProofs`, each beside the module it
is about.

Definitions whose comment starts with "Mutant" are faulty versions of the
definition that follows them; no specification uses them. Each property of a
passing run has one that violates it.

## 3. The runs

| Run | Instance | Shows |
|---|---|---|
| `lifecycle` | one world, two connections, all operations, all faults, two host keys, one retry, one crash | exclusion, owners of rows in flight, accounting, cleanup, observability, pinned identity, who may change a status, refinement of `WorldLifecycle` |
| `contention` | two worlds and names, a limit with room for one, create/rename/list/start, power-offs | capacity is never exceeded, although `ensure_resources_reserved` checks nothing; names stay unique |
| `fair` | one world, create/list/start/delete, faults, one crash, weak fairness | every request is answered, every world settles |
| `replay` | one world, two ids, two connections, one crash | request ids: one execution, no leftover reservation, removals hold, records are final |
| `pane_runs` | one world, one pane, two connections, four changes of activity, clock set back, relay and gateway restarts | observations do not cross runs |
| `shell` | two worlds on two contexts, two actions, one event outside | worlds and sessions stay aligned, no stale listing is shown, no started session is refused, the queue implements `ActionOrder` |
| `client` | two contexts with one name in both, `wt new` with its form and one other command of any kind, three worlds | the reviewed form can be submitted, the managed files are one true inventory, short names are not guessed, one world for one command |
| `git` | one gateway session, one tool command of either provider, or two processes of the proxy; pipes of one unit, four commits, one move of a ref, one act of people; the provider may be lost anywhere | history is preserved, activity and answers are true, writes stay in scope, the lock serializes, sessions end unless a fetch of the proxy was cut short |
| `images` | two installers of two commits, five tasks, two runs, one crash, one damage, one start of the server | readers see whole generations, reported images and restarted servers fit, failures clean up |
| `removal_race`, `failed_inventory`, `shared_keys` | violations | the findings below |

Bounds. One world is enough for what concerns a single world, since worlds share
only keys (disjoint by construction), names and capacity; the run about those
two has two worlds. Two connections give every pairwise interleaving; a third
could only repeat the role of one of them under the same key. Two host keys
distinguish pinned from changed; one retry distinguishes zero, some and too many;
one crash at any step reaches every recovery, as a second one starts from a
reconciled table. Disk sizes are counted in half GiB, so that a used overlay is
rounded. Two ids and a retention of two ticks let a row expire before, at and
after a retry. In `shell`, two contexts make the order of the list differ from that
of creation, and two actions let one wait while the other ends, fails or is
cancelled, and let a session that ended be reconnected twice, the second time while
it is attached to its reader; sessions print nothing, so that the channel of the
readers does not fill up. In `git`, a gateway session shares nothing with another but the refs,
which `Outside` moves; pipes of one unit make every copy wait. In `client`, integers
are four bits wide, so that the sum of resources overflows. In `images`, two
runs let one installation follow or meet another; the tasks differ in commit, source
image, configuration and disk size, so a rebuild of one commit gives another generation
although there is one mark of an image. Threads and installers are
symmetric in the runs without liveness.

Deadlock is checked except where the system may stop: all sessions ended (`git`),
installers and server out of runs (`images`), and a server that ends because a
shared file is refused (`shared_keys`).

Fairness. `FairSpec` asks for weak fairness of the steps of every handler: each
is a thread of its own, and every wait in it (libvirt, guest agent, SSH, shutdown)
has a deadline in the code. Nothing is assumed of clients, of guests or of
crashes. `Served` leaves out the wait in `lock_create`, since `notify_all` on a
condition variable does not order the waiters. `GitFairness` asks for weak fairness
of the steps of every session together with its child and its client: the copies
are threads, the child a process, and a client that neither reads nor leaves is
not answered by any timeout of the code. No failure is fair. `SessionsEnd` excepts one
state for good, `CutShort`: a fetch of the proxy whose provider has ended while its
client still waits, which in the code does not end (see the observations) and holds the
lock against the others. `SharedFiles` asks for
weak fairness of the publisher, a thread that loops every two seconds.

## 4. Findings

1. `removal_race`: a removal takes the key of the world id, a create only that of
   the name. A removal during creation deletes the row, and the create goes on to
   boot a machine that no row names.
2. `failed_inventory`: a create that fails in boot removes its overlay and keeps
   its row; from then on every inventory fails on the missing overlay, where
   ADR 0043 expects the error on the card of that world.
3. `shared_keys`: an edit of the authorized keys between the second read of a
   publication and the record of its version is never published: every later
   pass finds the version it has recorded.

Observations made while modelling, which no run reports:

- after a start that fails while the guest is on, a guest that then powers off
  leaves a stopped row with its reservation until the next reconciliation
  (`database.md`: stopped worlds reserve no CPU or RAM);
- a clock that is set back stores a pane as changed after it was observed, which
  the shell rejects for its whole context: `TimesOrdered` needs its hypothesis;
- the shell's refresh writes the SSH configuration before the loop decides whether
  the listing is current, so an older listing may take a new world's alias away
  until the next one (ADR 0031 says it cannot);
- a client that leaves during a fetch takes `bridge_child` to its
  `unreachable!` (`transport.rs:399`) when the copy of the answer ends in a
  tolerated error; the panic ends that session only;
- a session that is reconnected twice is replaced while its reader is attached; the
  loop joins that reader, which waits for the loop when the channel is full
  (`world_session.rs`, drop);
- when the provider dies during a fetch of the proxy, `bridge_child` ends the copy of
  the answer and joins that of the requests (`transport.rs:388-394`); the answer's side
  is not closed (`shutdown_stream` of `git-proxy/src/service.rs:75-77` does nothing), so
  the client waits for the proxy and the proxy for the client, with the lock held, until
  the client leaves;
- GitLab's `open mr` finds the merge request it has created by branch names and head
  commit (`gitlab/client.rs:51-60`) and then sets the draft mark on what it found
  (`provider.rs:59-67`). It may be one of a fork with the same branch name and commit,
  which every other write refuses (`client.rs:464-475`, ADR 0075). `WritesInScope` allows
  this mark and nothing else;
- installations are serialized inside `image::ensure` only (`server.rs:53`). Two at
  once may mix the files of the server (`server.rs:272-329`), and each then restarts
  the server on what is there;
- an installed image is verified by its commit (`image.rs:415-437`), so an
  installation with another source image or disk size reuses what an earlier one built;
- a download of the source image that fails leaves a partial file, on which the
  next installation stops until it is removed (`image.rs:130`).

## 5. The proofs

Every safety invariant, action property and refinement of the passing runs has a
theorem, which holds for every value of the constants under the named assumptions
of the modules:

| Assumption | Says |
|---|---|
| `CapacityAssumption`, `ServiceAssumption`, `ApiAssumption` | limits, shapes and retention are positive, counts are natural, ids are finite, ids, names and shapes exist |
| `PaneAssumption` | fewer changes of activity than generations (`MaxFlips < GENERATIONS`) |
| `ImagesAssumption` | the flaws of an image are those the checks look for; the checksum of a source image is of a whole one |
| `GitAssumption`, `ToolsAssumption` | pipes hold something, permitted branches are branches, a commit is its own ancestor; commands are ones the tools have, and a job or run is named as what it is; those of forks are among the change requests |
| `FormAssumption`, `CommandsAssumption` | there are contexts, with distinct names; integers have a width, typed numbers fit it; a sync is tried at least once |
| `ShellAssumption` | finitely many worlds, each of a context of the list; channels hold something |

Some need more. Those marked (r) assume `RemoveWhileCreating = FALSE`: what
they say is false in the code when a removal meets the creation of the same world,
which is finding 1, and the assumption takes out that meeting and nothing else.
`ExecutedOnce` assumes `~ClockJumps`: a request that runs for longer than the 30
days of its record may be executed again.

`WorldServiceProofs`
- `TypeCorrect`: `TypeOK` is inductive: besides the types it says that a handler is
  at a step of its own operation and that an inspection is not repeated beyond its
  retries. One lemma for each group of steps.
- `MutualExclusion`: the property is not inductive, since it says nothing of who
  holds a key. `LockInv` adds that the guards of different threads are disjoint and
  recorded in the shared set, and that a thread inside a section owns the key of that
  section; the insertion into the set is then what keeps a second thread out. Lemmas
  `Enters`, `Leaves`, `StaysInWorld` say what a step may do to the sections.
- `UniqueNames`, from `IdsInv`: an id without a row has an empty one, and only issued
  ids have rows.
- `InFlightHasOwner`, from `OwnedInv`, which names the handler: a creation or a
  removal goes on until it settles its row, and a crash settles all of them.
- `IdentityPinned`, from `IdentityInv`: a row under provisioning has no keys, no two
  handlers provision one world, and whatever keys a handler remembers of a row are
  those of the row, or the row is gone for good.
- `HolderChangesStatus`, `RunningAccounted`, `RemovalComplete`, `RunningObserved` (r).
  `QuietInv` says which worlds nobody provisions any more: those whose status a
  handler has seen past creation. `MachineInv` ties the row to the machine and each
  step of a handler to both; `ObserveInv` does so for the gateway's view. The argument is
  rely and guarantee: a handler that may change status, machine or view of a world is
  alone there (from `LockInv` and `QuietInv`), and a step touches the world of its
  own handler only, so what a handler relies on between two steps stays.

`WorldLifecycleProofs` (r)
- `CapacityKept`, for processors and memory: `reserved_resources` is a sum over a set by recursion on subsets.
  That two tables which differ in one row have sums that differ by as much is proved
  without induction, from a smallest counterexample: the strict-subset order on a
  finite set is well founded. `ReserveInv` says what the steps that reserve without a
  check rely on: the row they ensure holds its share already.
- `LifecycleImplemented`: every step of the daemon is a step of `WorldLifecycle` or
  leaves status, reservation and identity alone, from the same invariants.

`ApiMutationsProofs`
- `ApiImplementsService`: every step with request ids is a step of the service or
  leaves it unchanged, so the theorems above hold behind the API.
- `ReservationsOwned`, by induction with the types of both modules. It needs no
  assumption on the clock: an expired reservation that is taken again is owned by its
  new execution, and a withdrawal by the old one takes the row away altogether.
- `RecordsFinal`, and `ExecutedOnce` from `ExecutionInv`: an execution and its
  reservation are of each other.
- `RemovalsHold`: `DeleteInv` says that a removal which returns success is of an issued id
  whose row is gone; `RemovedInv` carries this from the handler to the answer and to the
  record. It holds with any clock and with the race of finding 1, which leaves a
  machine behind and no row.

`PaneGatewayProofs`
- `RunsSeparated` and `CurrentReportsStored`: `RunInv` says that below the wrap the
  generation equals the number of changes of activity, and that a report of the
  current number is of a world that has stayed active.
- `TimesOrdered`: under a steady clock and a waiting relay, `[]ChangedBeforeObserved`.
  `TimeInv` adds that a world has one report under way, whose time is not before
  any stored one.

`ImagesProofs`: `PointerNamesWhole`, `ReportsFit`, `FailuresCleaned` from `ImagesInv`:
what is known of the disk of an installer at each of its steps; that whoever is inside the
lock is alone; that a generation is in place before it is named, and named only after
its probe; that what lies about has an owner or is recorded as left; that an installer
which builds has the tools of its own input under its image; and, while it has met no
other installation, that the files it has gone over are its own (`FilesInv`). Nothing is
said of the files of installations that met.

`AgentToolsProofs`
- `HistoryPreserved`, `RecordedPushes`, from `PushInv`: the old ids of a push are those
  of the advertisement against which its objects were checked, and the provider takes a
  command only if its ref still has that id.
- `ProxySerialized`, from `ProxyInv`: who is past the lock has it, and has read what is
  on disk.
- `AgentsStayInScope`, `AnswersHold`, from `ToolsInv`: a command has done the writes of
  its plan up to where it is, and the check before a write has held. The lemmas about
  the plans of both providers say which step comes before which. Only the search by
  branch and head reaches a change request of a fork, and the draft mark is the one
  write after it.

`CommandsProofs`: all from `ClientInv`. `ReviewsSubmittable` needs that a suggested name
is not in use, which the limit of the suggestion loop guarantees by counting;
`InventoryPublished` and `PublishedTrue` that a writer has the lock and that what it
writes was read from the servers; `CommandMakesOne` that a process which may still
create has made nothing; `NamesUnambiguous` (of `rm`, `rename`, `start` and `stop`) that a process remembers every context it
has gone through.

`ShellProofs`: all from `ShellInv`. Its heart is what listings owe: a listing of the
current generation names none of the worlds this shell deleted, and all those it has
shown or is about to show, of the contexts already asked. It is why `invalidate` has to come
between the action and its effect on the list. That `Arranged` keeps every chosen
position once is the lemma `ArrangedAll`: the rank of a position is an injection into
as many numbers. `OrderImplemented` shows each step to be one of `ActionOrder`, or a
stutter. `ShellTyped` is its type; the run leaves that to the theorem.

`LockInv`, `RunInv`, `TimeInv` and `ShellInv` were model-checked on small instances
before they were proved.
`ChangedBeforeObserved` with a steady clock has no run of its own, since the theorem
covers every instance.

Only model-checked: liveness (`Served`, `Settles`, `SessionsEnd`; fairness and ENABLED
are outside the prover), and what the counterexamples of the findings show.

## 6. Plan

1. The abstract specifications of the other parts: one inventory that is replaced as a
   whole, for the managed files; one image behind a pointer, for the generations.
   The proofs above hold most of what those refinements need.
2. The relay's polling loop and its retry of unacknowledged reports, composed with
   `PaneGateway`; Git and tool requests of worlds that are deactivated meanwhile.
3. Pure algorithms: paging of activity, validation of panes, order of cards.

## 7. Not modelled

Rendering, formatting, prompts, scrolling and wire types; the refresh of panes in
the shell and its clipboard; diagnostics and reports of the client; the commands
run on the host and in the guest and the documents they carry; pages and fields
of the answers of GitHub and GitLab; parsing of configuration; generated code;
authentication of the socket. `PROJECT.json` lists every component with the reason.
