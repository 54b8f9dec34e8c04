-------------------------- MODULE AgentToolsProofs --------------------------
(***************************************************************************)
(* Proofs about the gateway and the Git proxy: what agents push, what is   *)
(* recorded of it, what the lock of the proxy protects, and what the       *)
(* commands of agents write and answer, for any number of sessions,        *)
(* callers, refs, commits and commands.                                    *)
(***************************************************************************)
EXTENDS AgentTools, TLAPS

-----------------------------------------------------------------------------
(* The inductive invariant of the Git sessions *)

SessionFields == DOMAIN Fresh
FileFields == {"keys", "temporary", "credentials", "config"}

\* An update that a push may make, whatever the ref has become meanwhile.
Allowed(update, ref) ==
    /\ permits(ref) /\ update.new # none
    /\ update.old # none => update.old \in Ancestors[update.new]

\* What a session s with record r may push, and has pushed, given what was moved.
PushOK(s, r, done) ==
    /\ DOMAIN r = SessionFields
    /\ r.pc \in {"stage", "validate"} => ~push_violation(r.push)
    /\ r.pc = "bridge" => \A ref \in r.todo : Allowed(r.push[ref], ref)
    /\ r.pc # "bridge" => r.todo = {} /\ r.accepted = {}
    /\ \A ref \in r.accepted :
          [by |-> s, ref |-> ref, old |-> r.push[ref].old, new |-> r.push[ref].new] \in done

MoveOK(m) == Allowed([old |-> m.old, new |-> m.new], m.ref)

PushInv ==
    /\ \A s \in Sessions : PushOK(s, session[s], moved)
    /\ \A m \in moved : MoveOK(m)
    /\ activity \subseteq moved

AdminSteps == {"dashboard", "write", "rename", "credentials", "config"}

\* What a process s of the proxy with record r relies on, with the lock and the
\* files as they are.
ProxyOK(s, r, holder, now) ==
    /\ r.pc \in AdminSteps => holder = s
    /\ r.kind = "proxy" /\ r.service # none => holder = s /\ r.config = now.config
    /\ r.pc \in {"write", "rename"} =>
          \/ r.edit = "add" /\ r.entries = now.keys \cup {r.key}
          \/ r.edit = "remove" /\ r.entries = now.keys \ {r.key}
    /\ r.pc = "config" => now.credentials = 1
    /\ r.pc \in {"credentials", "config"} => r.kind = "installer"

ProxyInv ==
    /\ none \notin Sessions
    /\ DOMAIN files = FileFields /\ broken \in BOOLEAN
    /\ files.keys = granted
    /\ files.credentials \in {0, 1} /\ files.config \in {0, 1}
    /\ files.credentials = files.config \/ broken \/ \E s \in Sessions : At(s, "config")
    /\ \A s \in Sessions : DOMAIN session[s] = SessionFields /\ ProxyOK(s, session[s], lock, files)

-----------------------------------------------------------------------------
(* The inductive invariant of the commands *)

\* The run that a command on CI is about.
RunOf(k) == IF k.op \in {"retry_job", "cancel_job", "log_job"} THEN JobRun[k.item] ELSE k.item

\* What a call that goes on has met.
Checked(k, step) ==
    /\ step = "own" => /\ k.mr \notin Forks /\ permits(MrBranch[k.mr])
                       /\ mrs[k.mr].state # "absent" /\ (mrs[k.mr].state = "merged" => k.confirm)
    /\ step = "marked" => CommentMr[k.item] = k.mr /\ comments[k.item].marked
    /\ step = "thread" => ThreadMr[k.item] = k.mr
    /\ step \in {"own_run", "own_job"} => permits(RunBranch[RunOf(k)])
    /\ step = "head" => permits(k.ref)

\* What a command with record r has made sure of by an earlier call, whatever the
\* change request and the comment have become since.
Ensured(r, step) ==
    /\ step = "own" => /\ r.command.mr \notin Forks /\ permits(MrBranch[r.command.mr])
                       /\ r.seen.state # "absent"
                       /\ r.seen.state = "merged" => r.command.confirm
    /\ step = "marked" => CommentMr[r.command.item] = r.command.mr /\ r.seen.marked
    /\ step = "thread" => ThreadMr[r.command.item] = r.command.mr
    /\ step \in {"own_run", "own_job"} => permits(RunBranch[RunOf(r.command)])
    /\ step = "head" => permits(r.command.ref)

CallFields == {"pc", "command", "read", "head", "answer", "seen"}
SeenFields == {"state", "marked", "head"}

Underway(c) ==
    /\ call[c].command \in Commands
    /\ call[c].pc \in 1 .. Len(Plan(c))
    /\ \A i \in 1 .. call[c].pc - 1 : Ensured(call[c], Plan(c)[i])
    /\ WritesOf(c) = {Plan(c)[i] : i \in 1 .. call[c].pc - 1} \cap WriteSteps
    /\ call[c].answer \notin {"ok", "timeout"}
    /\ Plan(c)[call[c].pc] = "draft" =>
          MrBranch[call[c].read] = call[c].command.ref /\ call[c].seen.head = call[c].head

\* What holds of every caller.
CallOK(c) ==
    /\ DOMAIN call[c] = CallFields /\ DOMAIN call[c].seen = SeenFields
    /\ call[c].pc # 0 => Underway(c)
    /\ call[c].command = none =>
          call[c].pc = 0 /\ call[c].answer \notin {"ok", "timeout"} /\ WritesOf(c) = {}
    /\ call[c].answer = "ok" => \/ WritesOf(c) = Planned(c)
                                \/ call[c].command.op = "open_mr" /\ WritesOf(c) = {}

ToolsInv ==
    /\ forge \in {"github", "gitlab"}
    /\ \A c \in Callers : CallOK(c)
    /\ \A c \in recorded : c \in Callers /\ call[c].answer \in {"ok", "timeout"}
    /\ WritesInScope

-----------------------------------------------------------------------------
(* The sessions *)

LEMMA FieldNames ==
    SessionFields = {"pc", "kind", "service", "open", "child", "writes", "push", "todo", "accepted",
                     "staged", "send", "in", "read", "say", "complain", "out", "err", "request",
                     "config", "entries", "edit", "key"}
BY DEF SessionFields, Fresh

LEMMA SetEffect ==
    ASSUME NEW s \in Sessions, NEW r, Set(s, r)
    PROVE  /\ Sessions' = Sessions /\ session'[s] = r
           /\ \A t \in Sessions \ {s} : session'[t] = session[t]
BY DEF Set, Sessions

LEMMA EndEffect ==
    ASSUME NEW s \in Sessions, NEW child, End(s, child)
    PROVE  /\ Sessions' = Sessions /\ \A t \in Sessions \ {s} : session'[t] = session[t]
           /\ DOMAIN session'[s] = SessionFields
           /\ session'[s].pc = "ended" /\ session'[s].service = none /\ session'[s].kind = session[s].kind
           /\ session'[s].todo = {} /\ session'[s].accepted = {}
           /\ lock' = IF lock = s THEN none ELSE lock
<1> DEFINE r == [Fresh EXCEPT !.pc = "ended", !.kind = Kind(s), !.child = child]
<1>1. Set(s, r) /\ lock' = IF lock = s THEN none ELSE lock
  BY DEF End
<1>2. /\ DOMAIN r = SessionFields /\ r.pc = "ended" /\ r.service = none /\ r.kind = Kind(s)
      /\ r.todo = {} /\ r.accepted = {}
  BY DEF Fresh, SessionFields
<1> HIDE DEF r
<1> QED BY <1>1, <1>2, SetEffect DEF Kind

LEMMA EndPush ==
    ASSUME NEW s \in Sessions, NEW child, End(s, child)
    PROVE  PushOK(s, session'[s], moved')
BY EndEffect DEF PushOK

\* A step of s that is right about its own record is right.
LEMMA PushByStep ==
    ASSUME PushInv, NEW s \in Sessions, Sessions' = Sessions,
           \A t \in Sessions \ {s} : session'[t] = session[t],
           PushOK(s, session'[s], moved'),
           UNCHANGED <<moved, activity>>
    PROVE  PushInv'
BY DEF PushInv

\* The steps of a session that move nothing and record nothing.
LEMMA QuietPush ==
    ASSUME PushInv, NEW s \in Sessions, Step(s) \/ ChildDies(s) \/ Close(s) \/ Fails(s),
           ~ChildUpdates(s), ~finish(s)
    PROVE  PushInv'
<1> USE FieldNames
<1>0. PushOK(s, session[s], moved) /\ DOMAIN session[s] = SessionFields
  BY DEF PushInv, PushOK
<1>m. UNCHANGED <<moved, activity>>
  BY DEF Step, serve_gateway, serve_proxy, run_tui, run_installer, spawn_git, forward_advertisement,
     read_packet_section, reject_push, fetch_objects, validated_pack, copy_unbuffered, capture_stderr,
     ChildPipes, answer, dashboard, atomic_write, install, ChildDies, Close, Fails, Pipes, Dropped,
     provider
\* The end of a session, a step with nothing to push, and one over its pipes.
<1>e. ASSUME NEW child, End(s, child) PROVE PushInv'
  BY <1>e, <1>m, EndEffect, EndPush, PushByStep
<1>a. ASSUME NEW r, Set(s, r), DOMAIN r = SessionFields, r.pc \notin {"stage", "validate", "bridge"},
             r.todo = {}, r.accepted = {}
      PROVE  PushInv'
  <2>1. PushOK(s, r, moved')
    BY <1>a DEF PushOK
  <2> QED BY <1>a, <1>m, <2>1, SetEffect, PushByStep
<1>b. ASSUME NEW r, Set(s, r), DOMAIN r = SessionFields, r.pc = session[s].pc,
             r.push = session[s].push, r.todo = session[s].todo, r.accepted = session[s].accepted
      PROVE  PushInv'
  <2>1. PushOK(s, r, moved')
    BY <1>0, <1>b, <1>m DEF PushOK
  <2> QED BY <1>b, <1>m, <2>1, SetEffect, PushByStep
<1>1. CASE serve_gateway(s) \/ serve_proxy(s) \/ run_tui(s) \/ run_installer(s)
  <2>1. ASSUME NEW pc \in {"spawn", "dashboard", "credentials"}, NEW service, Begun(s, pc, service),
               At(s, "start")
        PROVE  PushInv'
    <3>1. PICK r : r = [session[s] EXCEPT !.pc = pc, !.service = service, !.config = files.config]
      OBVIOUS
    <3>2. /\ DOMAIN r = SessionFields /\ r.pc = pc /\ r.todo = session[s].todo
          /\ r.accepted = session[s].accepted
      BY <1>0, <3>1
    <3>3. session[s].todo = {} /\ session[s].accepted = {}
      BY <1>0, <2>1 DEF At, PushOK
    <3> QED BY <1>a, <2>1, <3>1, <3>2, <3>3 DEF Begun
  <2> QED BY <1>1, <1>e, <2>1 DEF serve_gateway, serve_proxy, run_tui, run_installer
<1>2. CASE spawn_git(s)
  <2>1. CASE Set(s, [session[s] EXCEPT !.pc = "advertise", !.child = "runs"])
    <3>1. PICK r : r = [session[s] EXCEPT !.pc = "advertise", !.child = "runs"]
      OBVIOUS
    <3>2. /\ DOMAIN r = SessionFields /\ r.pc = "advertise" /\ r.todo = {} /\ r.accepted = {}
      BY <1>0, <1>2, <3>1 DEF spawn_git, At, PushOK
    <3> QED BY <1>a, <2>1, <3>1, <3>2
  <2> QED BY <1>2, <1>e, <2>1 DEF spawn_git
<1>3. CASE forward_advertisement(s)
  <2>1. ASSUME NEW r, Set(s, r),
               r = [session[s] EXCEPT
                        !.pc = IF session[s].service = "upload" THEN "bridge" ELSE "commands",
                        !.send = Units, !.say = Units, !.complain = Units, !.request = TRUE]
        PROVE  PushInv'
    <3>1. /\ DOMAIN r = SessionFields /\ r.pc \in {"bridge", "commands"} /\ r.todo = {}
          /\ r.accepted = {}
      BY <1>0, <1>3, <2>1 DEF forward_advertisement, At, PushOK
    <3>2. PushOK(s, r, moved')
      BY <3>1 DEF PushOK
    <3> QED BY <1>m, <2>1, <3>2, SetEffect, PushByStep
  <2> QED BY <1>3, <1>e, <2>1 DEF forward_advertisement, Dropped
<1>4. CASE read_packet_section(s)
  <2>1. ASSUME NEW push, ~push_violation(push), NEW r, Set(s, r),
               r = [session[s] EXCEPT !.pc = "stage", !.push = push]
        PROVE  PushInv'
    <3>1. /\ DOMAIN r = SessionFields /\ r.pc = "stage" /\ r.push = push /\ r.todo = {}
          /\ r.accepted = {}
      BY <1>0, <1>4, <2>1 DEF read_packet_section, At, PushOK
    <3>2. PushOK(s, r, moved')
      BY <2>1, <3>1 DEF PushOK
    <3> QED BY <1>m, <2>1, <3>2, SetEffect, PushByStep
  <2> QED BY <1>4, <1>e, <2>1 DEF read_packet_section, reject_push, Dropped
<1>5. CASE fetch_objects(s)
  <2>1. ASSUME NEW r, Set(s, r), r = [session[s] EXCEPT !.pc = "validate", !.staged = Reachable]
        PROVE  PushInv'
    <3>1. /\ DOMAIN r = SessionFields /\ r.pc = "validate" /\ r.push = session[s].push /\ r.todo = {}
          /\ r.accepted = {}
      BY <1>0, <1>5, <2>1 DEF fetch_objects, At, PushOK
    <3>2. ~push_violation(session[s].push)
      BY <1>0, <1>5 DEF fetch_objects, At, PushOK
    <3>3. PushOK(s, r, moved')
      BY <3>1, <3>2 DEF PushOK
    <3> QED BY <1>m, <2>1, <3>3, SetEffect, PushByStep
  <2> QED BY <1>5, <1>e, <2>1 DEF fetch_objects, Dropped
\* Every update of a validated push is a fast-forward of the commit it names.
<1>6. CASE validated_pack(s)
  <2>1. ASSUME NEW pack, NEW r, Set(s, r),
               \A ref \in DOMAIN session[s].push :
                  FastForward(session[s].push[ref], session[s].staged \union pack),
               r = [session[s] EXCEPT !.pc = "bridge", !.staged = {},
                                      !.todo = DOMAIN session[s].push]
        PROVE  PushInv'
    <3>1. /\ DOMAIN r = SessionFields /\ r.pc = "bridge" /\ r.push = session[s].push
          /\ r.todo = DOMAIN session[s].push /\ r.accepted = {}
      BY <1>0, <1>6, <2>1 DEF validated_pack, At, PushOK
    <3>2. \A ref \in DOMAIN session[s].push : Allowed(session[s].push[ref], ref)
      BY <1>0, <1>6, <2>1 DEF validated_pack, At, PushOK, push_violation, FastForward, Allowed
    <3>3. PushOK(s, r, moved')
      BY <3>1, <3>2 DEF PushOK
    <3> QED BY <1>m, <2>1, <3>3, SetEffect, PushByStep
  <2> QED BY <1>6, <1>e, <2>1 DEF validated_pack, reject_push, Dropped
<1>7. CASE copy_unbuffered(s) \/ capture_stderr(s) \/ ChildPipes(s) \/ answer(s) \/ Close(s)
  <2>1. ASSUME NEW r, Pipes(s, r), DOMAIN r = SessionFields, r.pc = session[s].pc,
               r.push = session[s].push, r.todo = session[s].todo, r.accepted = session[s].accepted
        PROVE  PushInv'
    BY <1>b, <2>1 DEF Pipes
  <2>2. CASE copy_unbuffered(s)
    BY <1>0, <2>1, <2>2 DEF copy_unbuffered
  <2>3. CASE capture_stderr(s)
    BY <1>0, <2>1, <2>3 DEF capture_stderr
  <2>4. CASE ChildPipes(s)
    BY <1>0, <2>1, <2>4 DEF ChildPipes
  <2>5. CASE answer(s)
    BY <1>0, <1>e, <2>1, <2>5 DEF answer
  <2>6. CASE Close(s)
    BY <1>0, <2>1, <2>6 DEF Close
  <2> QED BY <1>7, <2>2, <2>3, <2>4, <2>5, <2>6
<1>8. CASE ChildDies(s)
  <2>1. PICK r : /\ Set(s, r)
                 /\ r = [session[s] EXCEPT !.child = "exited", !.todo = {}, !.accepted = {}]
    BY <1>8 DEF ChildDies, Pipes
  <2>2. DOMAIN r = SessionFields /\ r.pc = "bridge" /\ r.todo = {} /\ r.accepted = {}
    BY <1>0, <1>8, <2>1 DEF ChildDies, Bridging, At
  <2>3. PushOK(s, r, moved')
    BY <2>2 DEF PushOK
  <2> QED BY <1>m, <2>1, <2>3, SetEffect, PushByStep
<1>9. CASE dashboard(s) \/ atomic_write(s) \/ install(s) \/ Fails(s)
  <2>0. session[s].pc # "bridge" /\ session[s].todo = {} /\ session[s].accepted = {}
    BY <1>0, <1>9 DEF dashboard, atomic_write, install, Fails, At, PushOK
  <2>1. ASSUME NEW pc \in {"write", "rename", "dashboard", "config"}, NEW r, Set(s, r),
               DOMAIN r = SessionFields, r.pc = pc, r.todo = session[s].todo,
               r.accepted = session[s].accepted
        PROVE  PushInv'
    BY <1>a, <2>0, <2>1
  <2>2. CASE dashboard(s)
    BY <1>0, <1>e, <2>1, <2>2 DEF dashboard, add_public_key, remove_key
  <2>3. CASE atomic_write(s)
    BY <1>0, <1>e, <2>1, <2>3 DEF atomic_write
  <2>4. CASE install(s) \/ Fails(s)
    BY <1>0, <1>e, <2>1, <2>4 DEF install, Fails
  <2> QED BY <1>9, <2>2, <2>3, <2>4
<1> QED BY <1>1, <1>2, <1>3, <1>4, <1>5, <1>6, <1>7, <1>8, <1>9 DEF Step

\* A ref the child moves is one of the validated push, from the commit named.
LEMMA UpdatePush ==
    ASSUME PushInv, NEW s \in Sessions, ChildUpdates(s)
    PROVE  PushInv'
<1> USE FieldNames
<1>0. PushOK(s, session[s], moved) /\ DOMAIN session[s] = SessionFields /\ session[s].pc = "bridge"
  BY DEF PushInv, PushOK, ChildUpdates, Bridging, At
<1>1. PICK ref \in session[s].todo :
        \/ /\ refs[ref] = session[s].push[ref].old
           /\ moved' = moved \union {[by |-> s, ref |-> ref, old |-> refs[ref],
                                      new |-> session[s].push[ref].new]}
           /\ Set(s, [session[s] EXCEPT !.todo = @ \ {ref}, !.accepted = @ \union {ref}])
           /\ UNCHANGED activity
        \/ Pipes(s, [session[s] EXCEPT !.todo = @ \ {ref}])
  BY DEF ChildUpdates
<1>2. CASE Pipes(s, [session[s] EXCEPT !.todo = @ \ {ref}])
  <2>1. PICK r : r = [session[s] EXCEPT !.todo = @ \ {ref}]
    OBVIOUS
  <2>2. Set(s, r) /\ UNCHANGED <<moved, activity>>
    BY <1>2, <2>1 DEF Pipes, provider
  <2>3. /\ DOMAIN r = SessionFields /\ r.pc = "bridge" /\ r.push = session[s].push
        /\ r.todo \subseteq session[s].todo /\ r.accepted = session[s].accepted
    BY <1>0, <2>1
  <2>4. PushOK(s, r, moved')
    BY <1>0, <2>2, <2>3 DEF PushOK
  <2> QED BY <2>2, <2>4, SetEffect, PushByStep
<1>3. CASE /\ refs[ref] = session[s].push[ref].old
           /\ moved' = moved \union {[by |-> s, ref |-> ref, old |-> refs[ref],
                                      new |-> session[s].push[ref].new]}
           /\ Set(s, [session[s] EXCEPT !.todo = @ \ {ref}, !.accepted = @ \union {ref}])
           /\ UNCHANGED activity
  <2>1. PICK r : r = [session[s] EXCEPT !.todo = @ \ {ref}, !.accepted = @ \union {ref}]
    OBVIOUS
  <2>2. /\ DOMAIN r = SessionFields /\ r.pc = "bridge" /\ r.push = session[s].push
        /\ r.todo \subseteq session[s].todo /\ r.accepted = session[s].accepted \cup {ref}
    BY <1>0, <2>1
  <2>3. PushOK(s, r, moved')
    BY <1>0, <1>3, <2>2 DEF PushOK
  <2>4. /\ Sessions' = Sessions /\ session'[s] = r
        /\ \A t \in Sessions \ {s} : session'[t] = session[t]
    BY <1>3, <2>1, SetEffect
  <2>5. \A t \in Sessions' : PushOK(t, session'[t], moved')
    <3>1. ASSUME NEW t \in Sessions \ {s} PROVE PushOK(t, session[t], moved')
      BY <1>3 DEF PushInv, PushOK
    <3> QED BY <2>3, <2>4, <3>1
  <2>6. Allowed(session[s].push[ref], ref)
    BY <1>0 DEF PushOK
  <2>7. \A m \in moved' : MoveOK(m)
    BY <1>3, <2>6 DEF PushInv, MoveOK, Allowed
  <2> QED BY <1>3, <2>5, <2>7 DEF PushInv
<1> QED BY <1>1, <1>2, <1>3

\* What is recorded at the end is what the provider has moved for the session.
LEMMA FinishPush ==
    ASSUME PushInv, NEW s \in Sessions, finish(s)
    PROVE  PushInv'
<1>1. PICK child : End(s, child)
  BY DEF finish
<1>2. UNCHANGED moved /\ (UNCHANGED activity \/ record_git_activity(s))
  BY DEF finish
<1>3. \A t \in Sessions' : PushOK(t, session'[t], moved')
  BY <1>1, <1>2, EndEffect, EndPush DEF PushInv
<1>4. activity' \subseteq moved'
  <2>1. ASSUME NEW u \in successful_push_updates(session[s])
        PROVE  [by |-> s, ref |-> u.ref, old |-> u.old, new |-> u.new] \in moved
    BY <2>1 DEF successful_push_updates, PushInv, PushOK
  <2> QED BY <1>2, <2>1 DEF record_git_activity, PushInv
<1> QED BY <1>2, <1>3, <1>4 DEF PushInv

LEMMA GitPush ==
    ASSUME PushInv, GitNext
    PROVE  PushInv'
<1>1. CASE Outside
  BY <1>1 DEF Outside, PushInv, Sessions
<1> QED BY <1>1, QuietPush, UpdatePush, FinishPush DEF GitNext

-----------------------------------------------------------------------------
(* The proxy *)

\* A step of s over its own record, the lock its own before and after if it
\* changes, and the files unchanged.
LEMMA ProxyByStep ==
    ASSUME ProxyInv, NEW s \in Sessions, Sessions' = Sessions,
           \A t \in Sessions \ {s} : session'[t] = session[t],
           DOMAIN session'[s] = SessionFields, ProxyOK(s, session'[s], lock', files'),
           lock' = lock \/ lock \in {none, s},
           UNCHANGED <<files, granted, broken>>,
           session[s].pc = "config" => session'[s].pc = "config"
    PROVE  ProxyInv'
<1>1. \A t \in Sessions \ {s} : ProxyOK(t, session'[t], lock', files')
  <2> SUFFICES ASSUME NEW t \in Sessions \ {s} PROVE ProxyOK(t, session[t], lock', files)
    OBVIOUS
  <2>1. ProxyOK(t, session[t], lock, files) /\ t # none /\ t # s
    BY DEF ProxyInv
  <2> QED BY <2>1 DEF ProxyOK
<1>2. (\E t \in Sessions : At(t, "config")) => \E t \in Sessions : At(t, "config")'
  BY DEF At
<1> QED BY <1>1, <1>2 DEF ProxyInv

\* The holder of the lock may change the files: nobody else relies on them.
LEMMA ProxyByHolder ==
    ASSUME ProxyInv, NEW s \in Sessions, Sessions' = Sessions, lock = s,
           \A t \in Sessions \ {s} : session'[t] = session[t],
           DOMAIN session'[s] = SessionFields, ProxyOK(s, session'[s], lock', files'),
           lock' \in {none, s},
           DOMAIN files' = FileFields, files'.keys = granted', broken' \in BOOLEAN,
           files'.credentials \in {0, 1}, files'.config \in {0, 1},
           files'.credentials = files'.config \/ broken' \/ session'[s].pc = "config"
    PROVE  ProxyInv'
<1>1. \A t \in Sessions \ {s} : ProxyOK(t, session'[t], lock', files')
  <2> SUFFICES ASSUME NEW t \in Sessions \ {s} PROVE ProxyOK(t, session[t], lock', files')
    OBVIOUS
  <2>1. ProxyOK(t, session[t], lock, files) /\ t # none /\ t # s
    BY DEF ProxyInv
  <2> QED BY <2>1 DEF ProxyOK, AdminSteps
<1> QED BY <1>1 DEF ProxyInv, At

LEMMA ProxyEnds ==
    ASSUME ProxyInv, NEW s \in Sessions, NEW child, End(s, child), session[s].pc # "config",
           UNCHANGED <<files, granted, broken>>
    PROVE  ProxyInv'
<1>1. ProxyOK(s, session'[s], lock', files')
  BY EndEffect DEF ProxyOK, AdminSteps
<1>2. lock' = lock \/ lock \in {none, s}
  BY EndEffect
<1> QED BY <1>1, <1>2, EndEffect, ProxyByStep

\* A process that starts takes the lock, or needs none.
LEMMA ProxyStarts ==
    ASSUME ProxyInv, NEW s \in Sessions,
           serve_gateway(s) \/ serve_proxy(s) \/ run_tui(s) \/ run_installer(s)
    PROVE  ProxyInv'
<1>0. DOMAIN session[s] = SessionFields /\ session[s].pc = "start"
  BY DEF ProxyInv, serve_gateway, serve_proxy, run_tui, run_installer, At
<1>u. UNCHANGED <<files, granted, broken>>
  BY DEF serve_gateway, serve_proxy, run_tui, run_installer, proxy
<1>e. ASSUME NEW child, End(s, child) PROVE ProxyInv'
  BY <1>0, <1>e, <1>u, ProxyEnds
<1>b. ASSUME NEW pc \in {"spawn", "dashboard", "credentials"}, NEW service, Begun(s, pc, service),
             \/ session[s].kind = "gateway" /\ pc = "spawn" /\ UNCHANGED lock
             \/ lock = none /\ lock' = s,
             pc = "credentials" => session[s].kind = "installer"
      PROVE  ProxyInv'
  <2>1. PICK r : r = [session[s] EXCEPT !.pc = pc, !.service = service, !.config = files.config]
    OBVIOUS
  <2>2. /\ DOMAIN r = SessionFields /\ r.pc = pc /\ r.kind = session[s].kind
        /\ r.config = files.config
    BY <1>0, <2>1, FieldNames
  <2>3. ProxyOK(s, r, lock', files')
    BY <1>b, <1>u, <2>2 DEF ProxyOK, AdminSteps
  <2>4. Set(s, r)
    BY <1>b, <2>1 DEF Begun
  <2> QED BY <1>0, <1>b, <1>u, <2>2, <2>3, <2>4, SetEffect, ProxyByStep
<1> QED BY <1>b, <1>e DEF serve_gateway, serve_proxy, run_tui, run_installer, acquire, Kind

\* Between its start and its end a session keeps what it began with.
LEMMA ProxySession ==
    ASSUME ProxyInv, NEW s \in Sessions,
           \/ spawn_git(s) \/ forward_advertisement(s) \/ read_packet_section(s) \/ fetch_objects(s)
           \/ validated_pack(s) \/ copy_unbuffered(s) \/ capture_stderr(s) \/ ChildPipes(s)
           \/ ChildUpdates(s) \/ answer(s) \/ finish(s) \/ ChildDies(s) \/ Close(s)
    PROVE  ProxyInv'
<1> USE FieldNames
<1>0. DOMAIN session[s] = SessionFields /\ ProxyOK(s, session[s], lock, files)
  BY DEF ProxyInv
<1>u. UNCHANGED <<files, granted, broken>>
  BY DEF spawn_git, forward_advertisement, read_packet_section, fetch_objects, validated_pack,
     copy_unbuffered, capture_stderr, ChildPipes, ChildUpdates, answer, finish, ChildDies, Close,
     reject_push, Dropped, Pipes, proxy
<1>e. ASSUME NEW child, End(s, child), session[s].pc # "config" PROVE ProxyInv'
  BY <1>e, <1>u, ProxyEnds
<1>q. ASSUME NEW r, Set(s, r), UNCHANGED lock, DOMAIN r = SessionFields,
             \/ r.pc = session[s].pc
             \/ r.pc \notin AdminSteps /\ session[s].pc \notin AdminSteps,
             r.kind = session[s].kind, r.service = session[s].service, r.config = session[s].config,
             r.entries = session[s].entries, r.edit = session[s].edit, r.key = session[s].key
      PROVE  ProxyInv'
  <2>1. ProxyOK(s, r, lock', files')
    BY <1>0, <1>q, <1>u DEF ProxyOK, AdminSteps
  <2>2. session[s].pc = "config" => r.pc = "config"
    BY <1>q DEF AdminSteps
  <2> QED BY <1>q, <1>u, <2>1, <2>2, SetEffect, ProxyByStep
<1>p. ASSUME NEW r, Pipes(s, r), DOMAIN r = SessionFields, r.pc = session[s].pc,
             r.kind = session[s].kind, r.service = session[s].service, r.config = session[s].config,
             r.entries = session[s].entries, r.edit = session[s].edit, r.key = session[s].key
      PROVE  ProxyInv'
  BY <1>p, <1>q DEF Pipes
<1>1. CASE spawn_git(s)
  BY <1>0, <1>1, <1>e, <1>q DEF spawn_git, At, AdminSteps
<1>2. CASE forward_advertisement(s)
  <2>1. ASSUME NEW pc \in {"bridge", "commands"}, UNCHANGED lock,
               Set(s, [session[s] EXCEPT !.pc = pc, !.send = Units, !.say = Units,
                                         !.complain = Units, !.request = TRUE])
        PROVE  ProxyInv'
    BY <1>0, <1>2, <1>q, <2>1 DEF forward_advertisement, At, AdminSteps
  <2> QED BY <1>2, <1>e, <2>1 DEF forward_advertisement, Dropped, At
<1>3. CASE read_packet_section(s)
  <2>1. ASSUME NEW push, UNCHANGED lock, Set(s, [session[s] EXCEPT !.pc = "stage", !.push = push])
        PROVE  ProxyInv'
    BY <1>0, <1>3, <1>q, <2>1 DEF read_packet_section, At, AdminSteps
  <2> QED BY <1>3, <1>e, <2>1 DEF read_packet_section, reject_push, Dropped, At
<1>4. CASE fetch_objects(s)
  BY <1>0, <1>4, <1>e, <1>q DEF fetch_objects, Dropped, At, AdminSteps
<1>5. CASE validated_pack(s)
  <2>1. ASSUME NEW todo, UNCHANGED lock,
               Set(s, [session[s] EXCEPT !.pc = "bridge", !.staged = {}, !.todo = todo])
        PROVE  ProxyInv'
    BY <1>0, <1>5, <1>q, <2>1 DEF validated_pack, At, AdminSteps
  <2> QED BY <1>5, <1>e, <2>1 DEF validated_pack, reject_push, Dropped, At
<1>6. CASE copy_unbuffered(s)
  BY <1>0, <1>6, <1>p DEF copy_unbuffered
<1>7. CASE capture_stderr(s)
  BY <1>0, <1>7, <1>p DEF capture_stderr
<1>8. CASE ChildPipes(s)
  BY <1>0, <1>8, <1>p DEF ChildPipes
<1>9. CASE ChildUpdates(s)
  <2>1. PICK ref \in session[s].todo :
          \/ /\ UNCHANGED lock
             /\ Set(s, [session[s] EXCEPT !.todo = @ \ {ref}, !.accepted = @ \union {ref}])
          \/ Pipes(s, [session[s] EXCEPT !.todo = @ \ {ref}])
    BY <1>9 DEF ChildUpdates
  <2> QED BY <1>0, <1>p, <1>q, <2>1
<1>10. CASE answer(s)
  BY <1>0, <1>10, <1>e, <1>p DEF answer, Bridging, At
<1>11. CASE finish(s)
  BY <1>11, <1>e DEF finish, Bridging, At
<1>12. CASE ChildDies(s)
  BY <1>0, <1>12, <1>p DEF ChildDies
<1>13. CASE Close(s)
  BY <1>0, <1>13, <1>p DEF Close
<1> QED BY <1>1, <1>2, <1>3, <1>4, <1>5, <1>6, <1>7, <1>8, <1>9, <1>10, <1>11, <1>12, <1>13

\* An administrator works on the files it read under the lock.
LEMMA ProxyAdmin ==
    ASSUME ProxyInv, NEW s \in Sessions, dashboard(s) \/ atomic_write(s) \/ install(s) \/ Fails(s)
    PROVE  ProxyInv'
<1> USE FieldNames DEF At, FileFields
<1>0. /\ DOMAIN session[s] = SessionFields /\ ProxyOK(s, session[s], lock, files)
      /\ DOMAIN files = FileFields /\ files.keys = granted /\ broken \in BOOLEAN
      /\ files.credentials \in {0, 1} /\ files.config \in {0, 1}
      /\ files.credentials = files.config \/ broken \/ \E t \in Sessions : At(t, "config")
  BY DEF ProxyInv
<1>l. session[s].pc \in AdminSteps /\ lock = s
  BY <1>0 DEF dashboard, atomic_write, install, Fails, ProxyOK, AdminSteps
<1>c. session[s].pc # "config" => files.credentials = files.config \/ broken
  <2>1. \A t \in Sessions : At(t, "config") => lock = t
    BY DEF ProxyInv, ProxyOK, AdminSteps
  <2> QED BY <1>0, <1>l, <2>1
<1>1. CASE dashboard(s)
  <2>1. CASE \E child : End(s, child) /\ UNCHANGED <<files, granted, broken>>
    BY <1>1, <2>1, ProxyEnds DEF dashboard
  <2>2. ASSUME NEW k, add_public_key(s, k) \/ remove_key(s, k), UNCHANGED <<lock, files, granted, broken>>
        PROVE  ProxyInv'
    <3>1. PICK edit, entries :
            /\ Set(s, [session[s] EXCEPT !.pc = "write", !.edit = edit, !.key = k, !.entries = entries])
            /\ \/ edit = "add" /\ entries = files.keys \cup {k}
               \/ edit = "remove" /\ entries = files.keys \ {k}
      BY <2>2 DEF add_public_key, remove_key, read_entries
    <3>2. PICK r : r = [session[s] EXCEPT !.pc = "write", !.edit = edit, !.key = k, !.entries = entries]
      OBVIOUS
    <3>3. /\ DOMAIN r = SessionFields /\ r.pc = "write" /\ r.edit = edit /\ r.key = k
          /\ r.entries = entries /\ r.kind = session[s].kind /\ r.service = session[s].service
          /\ r.config = session[s].config
      BY <1>0, <3>2
    <3>4. ProxyOK(s, r, lock', files')
      BY <1>0, <1>l, <2>2, <3>1, <3>3 DEF ProxyOK
    <3>5. session[s].pc = "dashboard"
      BY <1>1 DEF dashboard
    <3>6. Set(s, r)
      BY <3>1, <3>2
    <3>7. /\ Sessions' = Sessions /\ session'[s] = r
          /\ \A t \in Sessions \ {s} : session'[t] = session[t]
      BY <3>6, SetEffect
    <3>8. /\ DOMAIN session'[s] = SessionFields /\ ProxyOK(s, session'[s], lock', files')
          /\ lock' = lock /\ session[s].pc # "config"
      BY <2>2, <3>3, <3>4, <3>5, <3>7
    <3> HIDE FieldNames DEF At, FileFields
    <3> QED BY <2>2, <3>7, <3>8, ProxyByStep
  <2> QED BY <1>1, <2>1, <2>2 DEF dashboard, proxy
<1>2. CASE atomic_write(s)
  <2>1. CASE End(s, none) /\ UNCHANGED proxy
    BY <1>2, <2>1, ProxyEnds DEF atomic_write, proxy
  <2>2. CASE /\ session[s].pc = "write"
             /\ files' = [files EXCEPT !.temporary = TRUE]
             /\ Set(s, [session[s] EXCEPT !.pc = "rename"])
             /\ UNCHANGED <<lock, granted, broken>>
    <3>1. PICK r : r = [session[s] EXCEPT !.pc = "rename"]
      OBVIOUS
    <3>2. /\ DOMAIN r = SessionFields /\ r.pc = "rename" /\ r.edit = session[s].edit
          /\ r.key = session[s].key /\ r.entries = session[s].entries /\ r.kind = session[s].kind
          /\ r.service = session[s].service /\ r.config = session[s].config
      BY <1>0, <3>1
    <3>3. /\ DOMAIN files' = FileFields /\ files'.keys = files.keys
          /\ files'.credentials = files.credentials /\ files'.config = files.config
      BY <1>0, <2>2
    <3>4. ProxyOK(s, r, lock', files')
      BY <1>0, <1>l, <2>2, <3>2, <3>3 DEF ProxyOK
    <3>5. files'.credentials = files'.config \/ broken'
      BY <1>c, <2>2, <3>3
    <3>6. /\ Sessions' = Sessions /\ session'[s] = r
          /\ \A t \in Sessions \ {s} : session'[t] = session[t]
      BY <2>2, <3>1, SetEffect
    <3>7. files'.keys = granted' /\ broken' \in BOOLEAN /\ lock' = s
      BY <1>0, <1>l, <2>2, <3>3
    <3> QED BY <1>0, <1>l, <3>2, <3>3, <3>4, <3>5, <3>6, <3>7, ProxyByHolder
  <2>3. CASE /\ session[s].pc = "rename"
             /\ files' = [files EXCEPT !.temporary = FALSE, !.keys = session[s].entries]
             /\ granted' = IF session[s].edit = "add" THEN granted \union {session[s].key}
                                                      ELSE granted \ {session[s].key}
             /\ Set(s, [session[s] EXCEPT !.pc = "dashboard"])
             /\ UNCHANGED <<lock, broken>>
    <3>1. PICK r : r = [session[s] EXCEPT !.pc = "dashboard"]
      OBVIOUS
    <3>2. /\ DOMAIN r = SessionFields /\ r.pc = "dashboard" /\ r.kind = session[s].kind
          /\ r.service = session[s].service /\ r.config = session[s].config
      BY <1>0, <3>1
    <3>3. /\ DOMAIN files' = FileFields /\ files'.keys = session[s].entries
          /\ files'.credentials = files.credentials /\ files'.config = files.config
      BY <1>0, <2>3
    <3>4. files'.keys = granted'
      BY <1>0, <2>3, <3>3 DEF ProxyOK
    <3>5. ProxyOK(s, r, lock', files')
      BY <1>0, <1>l, <2>3, <3>2, <3>3 DEF ProxyOK
    <3>6. files'.credentials = files'.config \/ broken'
      BY <1>c, <2>3, <3>3
    <3> QED BY <1>0, <1>l, <2>3, <3>1, <3>2, <3>3, <3>4, <3>5, <3>6, SetEffect, ProxyByHolder
  <2> QED BY <1>2, <2>1, <2>2, <2>3 DEF atomic_write
<1>3. CASE install(s)
  <2>1. CASE /\ session[s].pc = "credentials"
             /\ files' = [files EXCEPT !.credentials = 1]
             /\ Set(s, [session[s] EXCEPT !.pc = "config"])
             /\ UNCHANGED <<lock, granted, broken>>
    <3>1. PICK r : r = [session[s] EXCEPT !.pc = "config"]
      OBVIOUS
    <3>2. /\ DOMAIN r = SessionFields /\ r.pc = "config" /\ r.kind = session[s].kind
          /\ r.service = session[s].service /\ r.config = session[s].config
      BY <1>0, <3>1
    <3>3. /\ DOMAIN files' = FileFields /\ files'.keys = files.keys
          /\ files'.credentials = 1 /\ files'.config = files.config
      BY <1>0, <2>1
    <3>4. ProxyOK(s, r, lock', files')
      BY <1>0, <1>l, <2>1, <3>2, <3>3 DEF ProxyOK
    <3> QED BY <1>0, <1>l, <2>1, <3>1, <3>2, <3>3, <3>4, SetEffect, ProxyByHolder
  <2>2. CASE /\ session[s].pc = "config"
             /\ files' = [files EXCEPT !.config = 1]
             /\ End(s, none) /\ UNCHANGED <<granted, broken>>
    <3>1. files.credentials = 1
      BY <1>0, <2>2 DEF ProxyOK
    <3>2. /\ DOMAIN files' = FileFields /\ files'.keys = files.keys
          /\ files'.credentials = 1 /\ files'.config = 1
      BY <1>0, <2>2, <3>1
    <3>3. ProxyOK(s, session'[s], lock', files')
      BY <2>2, EndEffect DEF ProxyOK, AdminSteps
    <3> QED BY <1>0, <1>l, <2>2, <3>2, <3>3, EndEffect, ProxyByHolder
  <2> QED BY <1>3, <2>1, <2>2 DEF install
<1>4. CASE Fails(s)
  <2>1. CASE session[s].pc # "config"
    <3>1. broken' = broken
      BY <1>0, <1>4, <2>1 DEF Fails
    <3> QED BY <1>4, <2>1, <3>1, ProxyEnds DEF Fails
  <2>2. CASE session[s].pc = "config"
    <3>1. broken' /\ End(s, none) /\ UNCHANGED <<files, granted>>
      BY <1>4, <2>2 DEF Fails
    <3>2. ProxyOK(s, session'[s], lock', files')
      BY <3>1, EndEffect DEF ProxyOK, AdminSteps
    <3> QED BY <1>0, <1>l, <3>1, <3>2, EndEffect, ProxyByHolder
  <2> QED BY <2>1, <2>2
<1> QED BY <1>1, <1>2, <1>3, <1>4

LEMMA GitProxy ==
    ASSUME ProxyInv, GitNext
    PROVE  ProxyInv'
<1>1. CASE Outside
  BY <1>1 DEF Outside, ProxyInv, Sessions, At, proxy
<1> QED BY <1>1, ProxyStarts, ProxySession, ProxyAdmin DEF GitNext, Step

LEMMA GitStart ==
    ASSUME NEW mix \in Mixes, GitInit(mix)
    PROVE  PushInv /\ ProxyInv
<1>0. /\ Sessions \subseteq DOMAIN mix
      /\ \A s \in Sessions : session[s] = [Fresh EXCEPT !.kind = mix[s]]
  BY DEF GitInit, Sessions
<1>1. \A s \in Sessions : /\ DOMAIN session[s] = SessionFields /\ session[s].pc = "start"
                          /\ session[s].service = none
                          /\ session[s].todo = {} /\ session[s].accepted = {}
  BY <1>0 DEF Fresh, SessionFields
<1>2. PushInv
  BY <1>1 DEF GitInit, PushInv, PushOK
<1>3. none \notin Sessions
  BY <1>0, GitAssumption
<1>4. /\ DOMAIN files = FileFields /\ files.keys = granted /\ broken \in BOOLEAN
      /\ files.credentials = 0 /\ files.config = 0
  BY DEF GitInit, FileFields
<1>5. ProxyInv
  BY <1>1, <1>3, <1>4 DEF ProxyInv, ProxyOK, AdminSteps
<1> QED BY <1>2, <1>5

LEMMA ToolsLeaveGit ==
    ASSUME ToolsNext
    PROVE  UNCHANGED gitVars
BY DEF ToolsNext, ToolsStep, serve_cli, ReadStep, wait, find, WriteStep, record_agent_tool_report,
   record_wt_tools_activity, People, Reading, Keeps

LEMMA GitAlways == Spec => [](PushInv /\ ProxyInv)
<1>1. Init => PushInv /\ ProxyInv
  BY GitStart DEF Init
<1>2. (PushInv /\ ProxyInv) /\ [Next]_vars => (PushInv /\ ProxyInv)'
  <2> SUFFICES ASSUME PushInv, ProxyInv, [Next]_vars PROVE PushInv' /\ ProxyInv'
    OBVIOUS
  <2>1. CASE GitNext
    BY <2>1, GitPush, GitProxy
  <2>2. CASE UNCHANGED gitVars
    <3>1. UNCHANGED <<session, lock, moved, activity, files, granted, broken>>
      BY <2>2 DEF gitVars, provider, proxy
    <3> QED BY <3>1 DEF PushInv, ProxyInv, Sessions, At
  <2> QED BY <2>1, <2>2, ToolsLeaveGit DEF Next, vars
<1> QED BY <1>1, <1>2, PTL DEF Spec

\* Whatever a session moves at the provider is a permitted branch and keeps
\* every commit it had: push_violation and validated_pack check the commands
\* and the pack, and the child moves a ref only from the commit that was
\* checked, though others move refs in between.
THEOREM HistoryPreserved == Spec => []PushesPreserveHistory
<1>1. PushInv => PushesPreserveHistory
  BY DEF PushInv, MoveOK, Allowed, PushesPreserveHistory, permits
<1> QED BY <1>1, GitAlways, PTL

\* What record_git_activity stores of a push, accepted whole or in part, the
\* session really moved, from and to the commits it names.
THEOREM RecordedPushes == Spec => []ActivityTrue
<1>1. PushInv => ActivityTrue
  BY DEF PushInv, ActivityTrue
<1> QED BY <1>1, GitAlways, PTL

\* The lock that every process of the proxy holds from start to end keeps the
\* acknowledged edits of the keys and the config a session has read, through
\* failed writes and processes that die.
THEOREM ProxySerialized == Spec => []LockSerializes
<1>1. ProxyInv => LockSerializes
  <2> SUFFICES ASSUME ProxyInv PROVE LockSerializes
    OBVIOUS
  <2>1. ASSUME NEW s \in Sessions, Kind(s) = "proxy", session[s].service # none
        PROVE  session[s].config = files.config /\ (files.credentials = files.config \/ broken)
    <3>1. lock = s /\ session[s].config = files.config
      BY <2>1 DEF ProxyInv, ProxyOK, Kind
    <3>2. ASSUME NEW t \in Sessions, At(t, "config") PROVE files.credentials = files.config \/ broken
      <4>1. t = s
        BY <3>1, <3>2 DEF ProxyInv, ProxyOK, At, AdminSteps
      <4>2. session[s].kind = "installer"
        BY <3>2, <4>1 DEF ProxyInv, ProxyOK, At
      <4> QED BY <2>1, <4>2 DEF Kind
    <3> QED BY <3>1, <3>2 DEF ProxyInv
  <2> QED BY <2>1 DEF ProxyInv, LockSerializes
<1> QED BY <1>1, GitAlways, PTL

-----------------------------------------------------------------------------
(* The plans of the commands *)

\* What comes before a write, and before a step of open_mr, in the plan of op.
Shape(op, plan) ==
    /\ Len(plan) \in Nat \ {0}
    /\ op = "open_mr" => Len(plan) > 2 /\ plan[2] = "find"
    /\ \A i \in 1 .. Len(plan) :
          /\ plan[i] \in {"set", "edit", "add", "change", "delete", "reply", "resolve"} =>
                i > 1 /\ plan[1] = "own"
          /\ plan[i] \in {"change", "delete"} => i > 3 /\ plan[3] = "marked"
          /\ plan[i] \in {"reply", "resolve"} => i > 2 /\ plan[2] = "thread"
          /\ plan[i] \in {"retry", "cancel"} =>
                /\ i > 1 /\ plan[i - 1] \in {"own_run", "own_job"}
                /\ op \in {"retry_job", "cancel_job", "cancel_run"}
          /\ plan[i] \in {"own_run", "own_job"} => op \in {"retry_job", "cancel_job", "cancel_run"}
          /\ plan[i] = "head" => i = 1 /\ op = "open_mr"
          /\ plan[i] = "find" => i = 2 /\ plan[1] = "head" /\ op = "open_mr"
          /\ plan[i] \in {"create", "refresh", "draft"} =>
                i > 2 /\ plan[1] = "head" /\ op = "open_mr"
          /\ plan[i] = "draft" => plan[i - 1] = "refresh"

PlansOK(group) == \A op \in DOMAIN group : Shape(op, group[op])

LEMMA WithBoth ==
    ASSUME NEW f, NEW g, PlansOK(f), PlansOK(g)
    PROVE  PlansOK(With(f, g)) /\ DOMAIN With(f, g) = DOMAIN f \cup DOMAIN g
BY DEF PlansOK, With

LEMMA PlansOfGithub ==
    /\ PlansOK(Feedback) /\ PlansOK(Reads_github) /\ PlansOK(Waits_github) /\ PlansOK(Open_github)
    /\ PlansOK(Mr_github) /\ PlansOK(Comments_github) /\ PlansOK(Threads_github)
    /\ PlansOK(Ci_github)
<1>1. PlansOK(Feedback)
  BY DEF PlansOK, Shape, Feedback
<1>2. PlansOK(Reads_github)
  <2>1. ASSUME NEW op, op # "open_mr"
        PROVE  /\ Shape(op, <<"mr", "ci">>) /\ Shape(op, <<"branch", "found", "ci">>)
               /\ Shape(op, <<"threads">>) /\ Shape(op, <<"mr", "list">>)
               /\ Shape(op, <<"mr", "comment">>) /\ Shape(op, <<"ci">>) /\ Shape(op, <<"run">>)
               /\ Shape(op, <<"job">>)
    BY <2>1 DEF Shape
  <2> QED BY <2>1 DEF PlansOK, Reads_github
<1>3. PlansOK(Waits_github)
  <2>1. ASSUME NEW op, op # "open_mr"
        PROVE  Shape(op, <<"mr", "poll">>) /\ Shape(op, <<"poll">>)
    BY <2>1 DEF Shape
  <2> QED BY <2>1 DEF PlansOK, Waits_github
<1>4. PlansOK(Open_github)
  <2>1. Shape("open_mr", <<"head", "find", "create", "refresh">>)
    BY DEF Shape
  <2> QED BY <2>1 DEF PlansOK, Open_github
<1>5. PlansOK(Mr_github)
  BY DEF PlansOK, Shape, Mr_github
<1>6. PlansOK(Comments_github)
  BY DEF PlansOK, Shape, Comments_github
<1>7. PlansOK(Threads_github)
  BY DEF PlansOK, Shape, Threads_github
<1>8. PlansOK(Ci_github)
  <2>1. /\ Shape("retry_job", <<"job", "own_run", "retry">>)
        /\ Shape("cancel_job", <<"job", "own_run", "refuse">>)
        /\ Shape("cancel_run", <<"own_run", "cancel">>)
    BY DEF Shape
  <2> QED BY <2>1 DEF PlansOK, Ci_github
<1> QED BY <1>1, <1>2, <1>3, <1>4, <1>5, <1>6, <1>7, <1>8

LEMMA PlansOfGitlab ==
    /\ PlansOK(Reads_gitlab) /\ DOMAIN Reads_gitlab = DOMAIN Reads_github
    /\ PlansOK(Open_gitlab) /\ DOMAIN Open_gitlab = DOMAIN Open_github
    /\ PlansOK(Ci_gitlab) /\ DOMAIN Ci_gitlab = DOMAIN Ci_github
<1>1. PlansOK(Reads_gitlab) /\ DOMAIN Reads_gitlab = DOMAIN Reads_github
  <2>1. Shape("show_mr_for_branch", <<"branch", "ci">>)
    BY DEF Shape
  <2> QED BY <2>1, PlansOfGithub DEF PlansOK, Reads_gitlab
<1>2. PlansOK(Open_gitlab) /\ DOMAIN Open_gitlab = DOMAIN Open_github
  <2>1. Shape("open_mr", <<"head", "find", "create", "refresh", "draft", "refresh">>)
    BY DEF Shape
  <2> QED BY <2>1 DEF PlansOK, Open_gitlab, Open_github
<1>3. PlansOK(Ci_gitlab) /\ DOMAIN Ci_gitlab = DOMAIN Ci_github
  BY DEF PlansOK, Shape, Ci_gitlab, Ci_github
<1> QED BY <1>1, <1>2, <1>3

LEMMA GithubPlanned ==
    /\ PlansOK(execute_cli_command_github)
    /\ DOMAIN execute_cli_command_github =
          UNION {DOMAIN Feedback, DOMAIN Reads_github, DOMAIN Waits_github, DOMAIN Open_github,
                 DOMAIN Mr_github, DOMAIN Comments_github, DOMAIN Threads_github,
                 DOMAIN Ci_github}
<1>1. PICK g1 : /\ g1 = With(Threads_github, Ci_github) /\ PlansOK(g1)
                 /\ DOMAIN g1 = DOMAIN Threads_github \cup DOMAIN Ci_github
  BY WithBoth, PlansOfGithub
<1>2. PICK g2 : /\ g2 = With(Comments_github, g1) /\ PlansOK(g2)
                 /\ DOMAIN g2 = DOMAIN Comments_github \cup DOMAIN g1
  BY <1>1, WithBoth, PlansOfGithub
<1>3. PICK g3 : /\ g3 = With(Mr_github, g2) /\ PlansOK(g3)
                 /\ DOMAIN g3 = DOMAIN Mr_github \cup DOMAIN g2
  BY <1>2, WithBoth, PlansOfGithub
<1>4. PICK g4 : /\ g4 = With(Open_github, g3) /\ PlansOK(g4)
                 /\ DOMAIN g4 = DOMAIN Open_github \cup DOMAIN g3
  BY <1>3, WithBoth, PlansOfGithub
<1>5. PICK g5 : /\ g5 = With(Waits_github, g4) /\ PlansOK(g5)
                 /\ DOMAIN g5 = DOMAIN Waits_github \cup DOMAIN g4
  BY <1>4, WithBoth, PlansOfGithub
<1>6. PICK g6 : /\ g6 = With(Reads_github, g5) /\ PlansOK(g6)
                 /\ DOMAIN g6 = DOMAIN Reads_github \cup DOMAIN g5
  BY <1>5, WithBoth, PlansOfGithub
<1>7. PICK g7 : /\ g7 = With(Feedback, g6) /\ PlansOK(g7)
                 /\ DOMAIN g7 = DOMAIN Feedback \cup DOMAIN g6
  BY <1>6, WithBoth, PlansOfGithub
<1>8. g7 = execute_cli_command_github
  BY <1>1, <1>2, <1>3, <1>4, <1>5, <1>6, <1>7 DEF execute_cli_command_github
<1> QED BY <1>1, <1>2, <1>3, <1>4, <1>5, <1>6, <1>7, <1>8

LEMMA GitlabPlanned ==
    /\ PlansOK(execute_cli_command_gitlab)
    /\ DOMAIN execute_cli_command_gitlab =
          UNION {DOMAIN Feedback, DOMAIN Reads_gitlab, DOMAIN Waits_gitlab, DOMAIN Open_gitlab,
                 DOMAIN Mr_gitlab, DOMAIN Comments_gitlab, DOMAIN Threads_gitlab,
                 DOMAIN Ci_gitlab}
<1>0. /\ PlansOK(Waits_gitlab) /\ PlansOK(Mr_gitlab) /\ PlansOK(Comments_gitlab)
      /\ PlansOK(Threads_gitlab) /\ PlansOK(Feedback)
  BY PlansOfGithub DEF Waits_gitlab, Mr_gitlab, Comments_gitlab, Threads_gitlab
<1>1. PICK g1 : /\ g1 = With(Threads_gitlab, Ci_gitlab) /\ PlansOK(g1)
                 /\ DOMAIN g1 = DOMAIN Threads_gitlab \cup DOMAIN Ci_gitlab
  BY <1>0, WithBoth, PlansOfGitlab
<1>2. PICK g2 : /\ g2 = With(Comments_gitlab, g1) /\ PlansOK(g2)
                 /\ DOMAIN g2 = DOMAIN Comments_gitlab \cup DOMAIN g1
  BY <1>1, <1>0, WithBoth
<1>3. PICK g3 : /\ g3 = With(Mr_gitlab, g2) /\ PlansOK(g3)
                 /\ DOMAIN g3 = DOMAIN Mr_gitlab \cup DOMAIN g2
  BY <1>2, <1>0, WithBoth
<1>4. PICK g4 : /\ g4 = With(Open_gitlab, g3) /\ PlansOK(g4)
                 /\ DOMAIN g4 = DOMAIN Open_gitlab \cup DOMAIN g3
  BY <1>3, <1>0, WithBoth, PlansOfGitlab
<1>5. PICK g5 : /\ g5 = With(Waits_gitlab, g4) /\ PlansOK(g5)
                 /\ DOMAIN g5 = DOMAIN Waits_gitlab \cup DOMAIN g4
  BY <1>4, <1>0, WithBoth
<1>6. PICK g6 : /\ g6 = With(Reads_gitlab, g5) /\ PlansOK(g6)
                 /\ DOMAIN g6 = DOMAIN Reads_gitlab \cup DOMAIN g5
  BY <1>5, <1>0, WithBoth, PlansOfGitlab
<1>7. PICK g7 : /\ g7 = With(Feedback, g6) /\ PlansOK(g7)
                 /\ DOMAIN g7 = DOMAIN Feedback \cup DOMAIN g6
  BY <1>6, <1>0, WithBoth
<1>8. g7 = execute_cli_command_gitlab
  BY <1>1, <1>2, <1>3, <1>4, <1>5, <1>6, <1>7 DEF execute_cli_command_gitlab
<1> QED BY <1>1, <1>2, <1>3, <1>4, <1>5, <1>6, <1>7, <1>8

\* Every command of either provider is planned so.
LEMMA CommandsPlanned ==
    /\ PlansOK(execute_cli_command_github) /\ PlansOK(execute_cli_command_gitlab)
    /\ DOMAIN execute_cli_command_gitlab = DOMAIN execute_cli_command_github
BY GithubPlanned, GitlabPlanned, PlansOfGitlab
   DEF Waits_gitlab, Mr_gitlab, Comments_gitlab, Threads_gitlab

-----------------------------------------------------------------------------
(* The commands *)

\* What a step for c leaves of the others.
OthersKept(c) ==
    /\ forge' = forge /\ recorded' = recorded
    /\ \A t \in Callers \ {c} : WritesOf(t)' = WritesOf(t)

LEMMA BecomesEffect ==
    ASSUME NEW c \in Callers, NEW r, Becomes(c, r)
    PROVE  /\ Callers' = Callers /\ call'[c] = r
           /\ \A t \in Callers \ {c} : call'[t] = call[t]
BY DEF Becomes, Callers

LEMMA WrittenFields ==
    ASSUME NEW c, NEW does, NEW m, NEW w, w = Written(c, does, m)
    PROVE  /\ w.by = c /\ w.does = does /\ w.mr = m /\ w.item = call[c].command.item
           /\ w.confirm = call[c].command.confirm /\ w.head = call[c].head /\ w.seen = call[c].seen
BY DEF Written

\* A write of c is one of c only.
LEMMA WriteBy ==
    ASSUME NEW c, NEW w, w.by = c, writes' = writes \cup {w}
    PROVE  /\ WritesOf(c)' = WritesOf(c) \cup {w.does}
           /\ \A t : t # c => WritesOf(t)' = WritesOf(t)
BY DEF WritesOf

LEMMA PlanOf ==
    ASSUME ToolsInv, NEW c \in Callers, call[c].command \in Commands
    PROVE  Shape(call[c].command.op, Plan(c))
<1>1. call[c].command.op \in DOMAIN execute_cli_command_github
  BY ToolsAssumption
<1> QED BY <1>1, CommandsPlanned DEF Plan, PlansOK

\* A caller whose record and writes stay is as right as before.
LEMMA CallKept ==
    ASSUME NEW c \in Callers, CallOK(c), forge' = forge, call'[c] = call[c],
           WritesOf(c)' = WritesOf(c)
    PROVE  CallOK(c)'
<1>1. Plan(c)' = Plan(c)
  BY DEF Plan
<1>2. Underway(c) => Underway(c)'
  BY <1>1 DEF Underway, Ensured
<1>3. Planned(c)' = Planned(c)
  BY <1>1 DEF Planned
<1> QED BY <1>2, <1>3 DEF CallOK

\* A step for c that is right about c is right.
LEMMA ToolsByStep ==
    ASSUME ToolsInv, NEW c \in Callers, NEW r, Becomes(c, r), OthersKept(c), c \notin recorded,
           WritesInScope', CallOK(c)'
    PROVE  ToolsInv'
<1>1. /\ Callers' = Callers /\ \A t \in Callers \ {c} : call'[t] = call[t]
  BY BecomesEffect
<1>2. ASSUME NEW t \in Callers \ {c} PROVE CallOK(t)'
  BY <1>1, CallKept DEF ToolsInv, OthersKept
<1>3. \A t \in Callers' : CallOK(t)'
  BY <1>1, <1>2
<1>4. \A t \in recorded' : t \in Callers' /\ call'[t].answer \in {"ok", "timeout"}
  BY <1>1 DEF ToolsInv, OthersKept
<1> QED BY <1>3, <1>4 DEF ToolsInv, OthersKept

\* A command that is underway is not recorded, and its record is one.
LEMMA Active ==
    ASSUME ToolsInv, NEW c \in Callers, call[c].pc # 0
    PROVE  /\ Underway(c) /\ c \notin recorded /\ DOMAIN call[c] = CallFields
           /\ DOMAIN call[c].seen = SeenFields
           /\ call[c].command \in Commands /\ call[c].command # none
           /\ call[c].pc \in 1 .. Len(Plan(c)) /\ Shape(call[c].command.op, Plan(c))
<1>1. Underway(c) /\ DOMAIN call[c] = CallFields /\ DOMAIN call[c].seen = SeenFields
  BY DEF ToolsInv, CallOK
<1>2. c \notin recorded
  BY <1>1 DEF ToolsInv, Underway
<1> QED BY <1>1, <1>2, PlanOf, ToolsAssumption DEF Underway

\* A command that ends without ok.
LEMMA EndsWell ==
    ASSUME ToolsInv, NEW c \in Callers, call[c].pc # 0, NEW result, result # "ok", Ends(c, result),
           OthersKept(c), WritesInScope'
    PROVE  ToolsInv'
<1>1. PICK r : r = [call[c] EXCEPT !.pc = 0, !.read = none, !.answer = result]
  OBVIOUS
<1>2. /\ DOMAIN r = CallFields /\ r.pc = 0 /\ r.command = call[c].command /\ r.answer = result
      /\ r.seen = call[c].seen
  BY <1>1, Active DEF CallFields
<1>3. Becomes(c, r)
  BY <1>1 DEF Ends
<1>4. CallOK(c)'
  BY <1>2, <1>3, Active, BecomesEffect DEF CallOK
<1> QED BY <1>3, <1>4, Active, ToolsByStep

\* What is learned by a call adds to what the command is sure of.
LEMMA LearnedEnsures ==
    ASSUME NEW c \in Callers, call[c].pc > 0, DOMAIN call[c].seen = SeenFields, NEW read, NEW r,
           r.command = call[c].command, r.seen = Learned(c, read),
           Checked(call[c].command, Plan(c)[call[c].pc])
    PROVE  /\ DOMAIN r.seen = SeenFields
           /\ \A step : Ensured(call[c], step) => Ensured(r, step)
           /\ Ensured(r, Plan(c)[call[c].pc])
           /\ Plan(c)[call[c].pc] = "refresh" => r.seen.head = HeadOf(read)
<1> DEFINE step == Plan(c)[call[c].pc]
           k == call[c].command
           seen == call[c].seen
<1>1. CASE step = "own" /\ r.seen = [seen EXCEPT !.state = mrs[k.mr].state]
  <2>1. /\ DOMAIN r.seen = SeenFields /\ r.seen.state = mrs[k.mr].state
        /\ r.seen.marked = seen.marked
    BY <1>1 DEF SeenFields
  <2> QED BY <1>1, <2>1 DEF Ensured, Checked
<1>2. CASE step = "marked" /\ r.seen = [seen EXCEPT !.marked = comments[k.item].marked]
  <2>1. /\ DOMAIN r.seen = SeenFields /\ r.seen.marked = comments[k.item].marked
        /\ r.seen.state = seen.state
    BY <1>2 DEF SeenFields
  <2> QED BY <1>2, <2>1 DEF Ensured, Checked
<1>3. CASE step = "refresh" /\ r.seen = [seen EXCEPT !.head = HeadOf(read)]
  <2>1. /\ DOMAIN r.seen = SeenFields /\ r.seen.marked = seen.marked
        /\ r.seen.state = seen.state /\ r.seen.head = HeadOf(read)
    BY <1>3 DEF SeenFields
  <2> QED BY <1>3, <2>1 DEF Ensured
<1>4. CASE step \notin {"own", "marked", "refresh"} /\ r.seen = seen
  BY <1>4 DEF Ensured, Checked
<1>5. /\ Calls(c, {"own"}) <=> step = "own"
      /\ Calls(c, {"marked"}) <=> step = "marked"
      /\ Calls(c, {"refresh"}) <=> step = "refresh"
  BY DEF Calls
<1>6. \/ step = "own" /\ r.seen = [seen EXCEPT !.state = mrs[k.mr].state]
      \/ step = "marked" /\ r.seen = [seen EXCEPT !.marked = comments[k.item].marked]
      \/ step = "refresh" /\ r.seen = [seen EXCEPT !.head = HeadOf(read)]
      \/ step \notin {"own", "marked", "refresh"} /\ r.seen = seen
  <2>1. CASE step = "own"
    BY <1>5, <2>1 DEF Learned
  <2>2. CASE step = "marked"
    BY <1>5, <2>2 DEF Learned
  <2>3. CASE step = "refresh"
    BY <1>5, <2>3 DEF Learned
  <2>4. CASE step \notin {"own", "marked", "refresh"}
    BY <1>5, <2>4 DEF Learned
  <2> QED BY <2>1, <2>2, <2>3, <2>4
<1> QED BY <1>1, <1>2, <1>3, <1>4, <1>6

\* A command that goes on after a call that met what it is for.
LEMMA GoesWell ==
    ASSUME ToolsInv, NEW c \in Callers, call[c].pc # 0, NEW read, Goes(c, read),
           OthersKept(c), WritesInScope',
           WritesOf(c)' = WritesOf(c) \cup ({Plan(c)[call[c].pc]} \cap WriteSteps),
           Checked(call[c].command, Plan(c)[call[c].pc]),
           Plan(c)[call[c].pc] = "refresh" =>
              MrBranch[read] = call[c].command.ref /\ HeadOf(read) = call[c].head
    PROVE  ToolsInv'
<1> DEFINE pc == call[c].pc
           P == Plan(c)
           k == call[c].command
<1>0. /\ Underway(c) /\ DOMAIN call[c] = CallFields /\ Shape(k.op, P) /\ k \in Commands /\ k # none
      /\ pc \in 1 .. Len(P) /\ Len(P) \in Nat /\ DOMAIN call[c].seen = SeenFields
  BY Active DEF Shape
<1>w. WritesOf(c)' = {P[i] : i \in 1 .. pc} \cap WriteSteps
  BY <1>0 DEF Underway
<1>1. CASE pc = Len(P)
  <2>1. PICK r : r = [call[c] EXCEPT !.pc = 0, !.answer = "ok", !.read = none]
    OBVIOUS
  <2>2. /\ DOMAIN r = CallFields /\ r.pc = 0 /\ r.command = k /\ r.answer = "ok"
        /\ r.seen = call[c].seen
    BY <1>0, <2>1 DEF CallFields
  <2>3. Becomes(c, r)
    BY <1>1, <2>1 DEF Goes
  <2>4. call'[c] = r /\ Plan(c)' = Plan(c)
    BY <2>2, <2>3, BecomesEffect DEF Plan, OthersKept
  <2>5. WritesOf(c)' = Planned(c)'
    BY <1>1, <1>w, <2>4 DEF Planned
  <2>6. CallOK(c)'
    BY <1>0, <2>2, <2>4, <2>5 DEF CallOK
  <2> QED BY <2>3, <2>6, Active, ToolsByStep
<1>2. CASE pc # Len(P)
  <2>1. PICK r : r = [call[c] EXCEPT !.pc = @ + 1, !.read = read, !.seen = Learned(c, read)]
    OBVIOUS
  <2>2. /\ DOMAIN r = CallFields /\ r.pc = pc + 1 /\ r.command = k /\ r.answer = call[c].answer
        /\ r.read = read /\ r.head = call[c].head /\ r.seen = Learned(c, read)
    BY <1>0, <2>1 DEF CallFields
  <2>3. Becomes(c, r)
    BY <1>2, <2>1 DEF Goes
  <2>4. call'[c] = r /\ Plan(c)' = Plan(c)
    BY <2>2, <2>3, BecomesEffect DEF Plan, OthersKept
  <2>5. r.pc \in 1 .. Len(P) /\ r.pc - 1 = pc /\ r.pc # 0
    BY <1>0, <1>2, <2>2
  <2>l. /\ DOMAIN r.seen = SeenFields /\ \A step : Ensured(call[c], step) => Ensured(r, step)
        /\ Ensured(r, P[pc])
        /\ P[pc] = "refresh" => r.seen.head = HeadOf(read)
    <3>1. call[c].pc > 0
      BY <1>0
    <3> QED BY <1>0, <2>2, <3>1, LearnedEnsures
  <2>6. \A i \in 1 .. pc : Ensured(r, P[i])
    <3>1. \A i \in 1 .. pc - 1 : Ensured(call[c], P[i])
      BY <1>0 DEF Underway
    <3> HIDE DEF P
    <3> QED BY <1>0, <2>l, <3>1
  <2>7. P[r.pc] = "draft" => P[pc] = "refresh"
    BY <1>0, <2>5 DEF Shape
  <2>9. Underway(c)'
    <3>1. \A i \in 1 .. r.pc - 1 : Ensured(r, P[i])
      BY <2>5, <2>6
    <3>2. /\ call'[c].command = k /\ call'[c].pc = r.pc /\ call'[c].answer = call[c].answer
          /\ call'[c].read = read /\ call'[c] = r
      BY <2>2, <2>4
    <3>3. WritesOf(c)' = {P[i] : i \in 1 .. r.pc - 1} \cap WriteSteps
      BY <1>w, <2>5
    <3>4. call[c].answer \notin {"ok", "timeout"}
      BY <1>0 DEF Underway
    <3>5. P[r.pc] = "draft" => MrBranch[read] = k.ref /\ r.seen.head = r.head
      BY <2>2, <2>7, <2>l
    <3> HIDE DEF P, k, pc
    <3>6. Plan(c)' = P
      BY <2>4 DEF P
    <3> QED BY <1>0, <2>5, <3>1, <3>2, <3>3, <3>4, <3>5, <3>6 DEF Underway, Ensured
  <2>10. CallOK(c)'
    BY <1>0, <2>2, <2>4, <2>9, <2>l DEF CallOK, Underway
  <2> QED BY <2>3, <2>10, Active, ToolsByStep
<1> QED BY <1>1, <1>2

\* A command that starts, or is refused.
LEMMA ServeWell ==
    ASSUME ToolsInv, NEW c \in Callers, serve_cli(c)
    PROVE  ToolsInv'
<1>0. /\ call[c].command = none /\ WritesOf(c) = {} /\ c \notin recorded
  BY DEF serve_cli, ToolsInv, CallOK
<1>1. PICK k \in Commands :
        \/ Becomes(c, [Idle EXCEPT !.pc = 1, !.command = k])
        \/ Becomes(c, [Idle EXCEPT !.command = k, !.answer = "error"])
  BY DEF serve_cli
<1>2. OthersKept(c) /\ WritesOf(c)' = {} /\ WritesInScope'
  BY <1>0 DEF serve_cli, Reading, Keeps, OthersKept, WritesOf, WritesInScope, ToolsInv, permits
<1>3. k # none /\ none \notin {"ok", "timeout"}
  BY ToolsAssumption
<1>4. CASE Becomes(c, [Idle EXCEPT !.command = k, !.answer = "error"])
  <2>1. PICK r : r = [Idle EXCEPT !.command = k, !.answer = "error"]
    OBVIOUS
  <2>2. /\ DOMAIN r = CallFields /\ r.pc = 0 /\ r.command = k /\ r.answer = "error"
        /\ DOMAIN r.seen = SeenFields
    BY <2>1 DEF Idle, CallFields, Unseen, SeenFields
  <2>3. CallOK(c)'
    BY <1>3, <1>4, <2>1, <2>2, BecomesEffect DEF CallOK
  <2> QED BY <1>0, <1>2, <1>4, <2>3, ToolsByStep
<1>5. CASE Becomes(c, [Idle EXCEPT !.pc = 1, !.command = k])
  <2>1. PICK r : r = [Idle EXCEPT !.pc = 1, !.command = k]
    OBVIOUS
  <2>2. /\ DOMAIN r = CallFields /\ r.pc = 1 /\ r.command = k /\ r.answer = none
        /\ DOMAIN r.seen = SeenFields
    BY <2>1 DEF Idle, CallFields, Unseen, SeenFields
  <2>3. call'[c] = r
    BY <1>5, <2>1, BecomesEffect
  <2>4. PICK P : P = Plan(c)' /\ Shape(k.op, P)
    <3>1. k.op \in DOMAIN execute_cli_command_github
      BY ToolsAssumption
    <3> QED BY <2>2, <2>3, <3>1, CommandsPlanned DEF Plan, PlansOK
  <2>5. Underway(c)'
    <3>1. 1 \in 1 .. Len(P) /\ P[1] # "draft"
      BY <2>4 DEF Shape
    <3>2. {P[i] : i \in 1 .. 1 - 1} = {}
      OBVIOUS
    <3> QED BY <1>2, <1>3, <2>2, <2>3, <2>4, <3>1, <3>2 DEF Underway
  <2>6. CallOK(c)'
    BY <1>3, <2>2, <2>3, <2>5 DEF CallOK
  <2> QED BY <1>0, <1>2, <1>5, <2>6, ToolsByStep
<1> QED BY <1>1, <1>4, <1>5

\* A call that reads changes nothing but the command.
LEMMA ReadingKeeps ==
    ASSUME ToolsInv, NEW c \in Callers, Reading
    PROVE  OthersKept(c) /\ WritesInScope' /\ WritesOf(c)' = WritesOf(c)
BY DEF Reading, Keeps, OthersKept, WritesOf, WritesInScope, ToolsInv, permits

\* A call that reads has made sure of what it is for.
LEMMA ReadWell ==
    ASSUME ToolsInv, NEW c \in Callers, ReadStep(c)
    PROVE  ToolsInv'
<1> DEFINE step == Plan(c)[call[c].pc]
           k == call[c].command
<1>0. /\ call[c].pc # 0 /\ Reading
      /\ step \in {"mr", "own", "comment", "marked", "thread", "branch", "own_run", "own_job",
                   "found", "run", "job", "refuse", "threads", "list", "ci"}
  BY DEF ReadStep, Calls, read_workflow, read_review_threads, list_ci_for_commit
<1>1. CASE read_response(c)
  BY <1>0, <1>1, ReadingKeeps, EndsWell DEF read_response
<1>2. CASE ~read_response(c)
  <2>1. PICK read : Goes(c, read)
    BY <1>2 DEF ReadStep
  <2>2. step = "own" => /\ k.mr \notin Forks /\ permits(MrBranch[k.mr])
                       /\ mrs[k.mr].state # "absent" /\ (mrs[k.mr].state = "merged" => k.confirm)
    BY <1>0, <1>2 DEF ReadStep, Calls, require_writable_pull_request, require_writable_merge_request
  <2>3. step = "marked" => CommentMr[k.item] = k.mr /\ comments[k.item].marked
    BY <1>0, <1>2 DEF ReadStep, Calls, show_general_comment, show_general_comment_gitlab,
       require_project_comment_attribution
  <2>4. step = "thread" => ThreadMr[k.item] = k.mr
    BY <1>0, <1>2 DEF ReadStep, Calls, require_review_thread, discussion_id
  <2>5. step \in {"own_run", "own_job"} => permits(RunBranch[RunOf(k)])
    BY <1>0, <1>2 DEF ReadStep, Calls, require_writable_run, require_writable_ref, RunOf
  <2>6. Checked(k, step)
    BY <1>0, <2>2, <2>3, <2>4, <2>5 DEF Checked
  <2>7. WritesOf(c)' = WritesOf(c) \cup ({step} \cap WriteSteps)
    BY <1>0, ReadingKeeps DEF WriteSteps
  <2> QED BY <1>0, <2>1, <2>6, <2>7, ReadingKeeps, GoesWell
<1> QED BY <1>1, <1>2

LEMMA WaitWell ==
    ASSUME ToolsInv, NEW c \in Callers, wait(c)
    PROVE  ToolsInv'
<1>0. call[c].pc # 0 /\ Reading /\ Plan(c)[call[c].pc] = "poll"
  BY DEF wait, Calls
<1>1. Checked(call[c].command, "poll")
  BY DEF Checked
<1>2. WritesOf(c)' = WritesOf(c) \cup ({"poll"} \cap WriteSteps)
  BY <1>0, ReadingKeeps DEF WriteSteps
<1>3. \/ Goes(c, call[c].read) \/ Ends(c, "timeout") \/ Ends(c, "error")
  BY DEF wait, read_response
<1> QED BY <1>0, <1>1, <1>2, <1>3, ReadingKeeps, GoesWell, EndsWell

\* open_mr reads the commit of a branch of agents and goes on with a change request
\* that it found there at this commit.
LEMMA FindWell ==
    ASSUME ToolsInv, NEW c \in Callers, find(c)
    PROVE  ToolsInv'
<1> DEFINE step == Plan(c)[call[c].pc]
           k == call[c].command
           found == read_change_request_snapshot(k.ref, call[c].head)
<1>0. call[c].pc # 0 /\ Reading /\ step \in {"head", "find", "refresh"}
  BY DEF find, Calls
<1>1. /\ Underway(c) /\ c \notin recorded /\ DOMAIN call[c] = CallFields /\ Shape(k.op, Plan(c))
      /\ DOMAIN call[c].seen = SeenFields /\ k \in Commands /\ k # none /\ call[c].pc \in 1 .. Len(Plan(c))
  BY <1>0, Active
<1>2. CASE read_response(c)
  BY <1>0, <1>2, ReadingKeeps, EndsWell DEF read_response
<1>3. CASE /\ step = "head" /\ permits(k.ref)
           /\ Becomes(c, [call[c] EXCEPT !.pc = 2, !.head = refs[k.ref]])
  <2>1. PICK r : r = [call[c] EXCEPT !.pc = 2, !.head = refs[k.ref]]
    OBVIOUS
  <2>2. /\ DOMAIN r = CallFields /\ r.pc = 2 /\ r.command = k /\ r.answer = call[c].answer
        /\ r.seen = call[c].seen
    BY <1>1, <2>1 DEF CallFields
  <2>3. call'[c] = r /\ Plan(c)' = Plan(c)
    BY <1>0, <1>3, <2>1, <2>2, BecomesEffect, ReadingKeeps DEF Plan, OthersKept
  <2>4. /\ call[c].pc = 1 /\ k.op = "open_mr" /\ Len(Plan(c)) > 2 /\ Len(Plan(c)) \in Nat
        /\ Plan(c)[1] = "head" /\ Plan(c)[2] = "find"
    BY <1>1, <1>3 DEF Shape
  <2>5. \A i \in 1 .. 2 - 1 : Ensured(r, Plan(c)[i])
    BY <1>3, <2>2, <2>4 DEF Ensured
  <2>6. WritesOf(c) = {} /\ {Plan(c)[i] : i \in 1 .. 2 - 1} \cap WriteSteps = {}
    BY <1>1, <2>4 DEF Underway, WriteSteps
  <2>7. WritesOf(c)' = WritesOf(c) /\ call[c].answer \notin {"ok", "timeout"}
    BY <1>0, <1>1, ReadingKeeps DEF Underway
  <2>8. Underway(c)'
    BY <1>1, <2>2, <2>3, <2>4, <2>5, <2>6, <2>7 DEF Underway, Ensured
  <2>9. CallOK(c)'
    BY <1>1, <2>2, <2>3, <2>7, <2>8 DEF CallOK
  <2> QED BY <1>0, <1>1, <1>3, <2>9, ReadingKeeps, ToolsByStep
<1>4. CASE step = "find" /\ Ends(c, "ok")
  <2>1. PICK r : r = [call[c] EXCEPT !.pc = 0, !.read = none, !.answer = "ok"]
    OBVIOUS
  <2>2. /\ DOMAIN r = CallFields /\ r.pc = 0 /\ r.command = k /\ r.answer = "ok"
        /\ r.seen = call[c].seen
    BY <1>1, <2>1 DEF CallFields
  <2>3. Becomes(c, r)
    BY <1>4, <2>1 DEF Ends
  <2>4. call[c].pc = 2 /\ k.op = "open_mr" /\ Plan(c)[1] = "head"
    BY <1>1, <1>4 DEF Shape
  <2>5. WritesOf(c)' = {}
    BY <1>0, <1>1, <2>4, ReadingKeeps DEF Underway, WriteSteps
  <2>6. CallOK(c)'
    BY <1>1, <2>2, <2>3, <2>4, <2>5, BecomesEffect DEF CallOK
  <2> QED BY <1>0, <1>1, <2>3, <2>6, ReadingKeeps, ToolsByStep
<1>5. CASE step = "find" /\ Goes(c, none)
  <2>1. Checked(k, step) /\ WritesOf(c)' = WritesOf(c) \cup ({step} \cap WriteSteps)
    BY <1>0, <1>5, ReadingKeeps DEF Checked, WriteSteps
  <2> QED BY <1>0, <1>5, <2>1, ReadingKeeps, GoesWell
<1>6. ASSUME step = "refresh", NEW m \in found, Goes(c, m)
      PROVE  ToolsInv'
  <2>1. MrBranch[m] = k.ref /\ HeadOf(m) = call[c].head
    BY <1>6 DEF read_change_request_snapshot, Snapshot_github, Snapshot_gitlab
  <2>2. Checked(k, step) /\ WritesOf(c)' = WritesOf(c) \cup ({step} \cap WriteSteps)
    BY <1>0, <1>6, ReadingKeeps DEF Checked, WriteSteps
  <2> QED BY <1>0, <1>6, <2>1, <2>2, ReadingKeeps, GoesWell
<1> QED BY <1>2, <1>3, <1>4, <1>5, <1>6 DEF find, Calls

\* A write as it may be.
InScope(w) ==
    /\ w.mr # none => permits(MrBranch[w.mr])
    /\ w.mr \in Forks => w.does = "draft"
    /\ w.does = "draft" => w.seen.head = w.head
    /\ w.does \in {"set", "edit", "add", "change", "delete", "reply", "resolve"} =>
          w.seen.state # "absent" /\ (w.seen.state = "merged" => w.confirm)
    /\ w.does \in {"change", "delete"} => CommentMr[w.item] = w.mr /\ w.seen.marked
    /\ w.does \in {"reply", "resolve"} => ThreadMr[w.item] = w.mr
    /\ w.does \in {"retry", "cancel"} =>
          permits(RunBranch[IF w.item \in DOMAIN JobRun THEN JobRun[w.item] ELSE w.item])

\* What a command is about to write is in the scope of its earlier calls.
LEMMA TargetInScope ==
    ASSUME ToolsInv, NEW c \in Callers, call[c].pc # 0, NEW m,
           Plan(c)[call[c].pc] = "create" =>
              m \notin Forks /\ MrBranch[m] = call[c].command.ref,
           Plan(c)[call[c].pc] = "draft" => m = call[c].read,
           Plan(c)[call[c].pc] \in {"retry", "cancel"} => m = none,
           Plan(c)[call[c].pc] \in {"set", "edit", "add", "change", "delete", "reply", "resolve"} =>
              m = call[c].command.mr,
           Plan(c)[call[c].pc] \in {"create", "draft", "set", "edit", "add", "change", "delete",
                                    "reply", "resolve", "retry", "cancel"}
    PROVE  InScope(Written(c, Plan(c)[call[c].pc], m))
<1> DEFINE P == Plan(c)
           pc == call[c].pc
           k == call[c].command
           seen == call[c].seen
<1>0. /\ Underway(c) /\ Shape(k.op, P) /\ k \in Commands /\ pc \in 1 .. Len(P) /\ Len(P) \in Nat
  BY Active DEF Shape
<1>1. \A i \in 1 .. pc - 1 : Ensured(call[c], P[i])
  BY <1>0 DEF Underway
<1>2. P[pc] \in {"create", "draft"} => permits(MrBranch[m])
  <2>1. SUFFICES ASSUME P[pc] \in {"create", "draft"} PROVE permits(MrBranch[m])
    OBVIOUS
  <2>2. 1 \in 1 .. pc - 1 /\ P[1] = "head"
    BY <1>0, <2>1 DEF Shape
  <2>3. permits(k.ref)
    BY <1>1, <2>2 DEF Ensured
  <2> QED BY <1>0, <2>1, <2>3 DEF Underway
<1>3. P[pc] \in {"set", "edit", "add", "change", "delete", "reply", "resolve"} =>
        /\ m \notin Forks /\ permits(MrBranch[m])
        /\ seen.state # "absent" /\ (seen.state = "merged" => k.confirm)
  BY <1>0, <1>1 DEF Shape, Ensured
<1>4. P[pc] \in {"change", "delete"} => CommentMr[k.item] = m /\ seen.marked
  BY <1>0, <1>1 DEF Shape, Ensured
<1>5. P[pc] \in {"reply", "resolve"} => ThreadMr[k.item] = m
  BY <1>0, <1>1 DEF Shape, Ensured
<1>6. P[pc] \in {"retry", "cancel"} =>
        permits(RunBranch[IF k.item \in DOMAIN JobRun THEN JobRun[k.item] ELSE k.item])
  <2>1. SUFFICES ASSUME P[pc] \in {"retry", "cancel"}
                 PROVE  permits(RunBranch[IF k.item \in DOMAIN JobRun THEN JobRun[k.item] ELSE k.item])
    OBVIOUS
  <2>2. permits(RunBranch[RunOf(k)]) /\ k.op \in {"retry_job", "cancel_job", "cancel_run"}
    BY <1>0, <1>1, <2>1 DEF Shape, Ensured
  <2>3. RunOf(k) = IF k.item \in DOMAIN JobRun THEN JobRun[k.item] ELSE k.item
    BY <1>0, <2>2, ToolsAssumption DEF RunOf
  <2> QED BY <2>2, <2>3
<1>7. P[pc] = "draft" => seen.head = call[c].head
  BY <1>0 DEF Underway
<1>w. PICK w : w = Written(c, P[pc], m)
  OBVIOUS
<1>8. /\ w.does = P[pc] /\ w.mr = m /\ w.item = k.item
      /\ w.confirm = k.confirm /\ w.head = call[c].head /\ w.seen = seen
  BY <1>w, WrittenFields
<1> HIDE DEF P, pc, k, seen
<1>9. m # none => permits(MrBranch[m])
  BY <1>2, <1>3 DEF P, pc, k
<1>10. m \in Forks => P[pc] = "draft"
  BY <1>3, ToolsAssumption DEF P, pc, k
<1>11. InScope(w)
  BY <1>3, <1>4, <1>5, <1>6, <1>7, <1>8, <1>9, <1>10 DEF InScope
<1> QED BY <1>w, <1>11 DEF P, pc

\* A write is in scope.
LEMMA WriteWell ==
    ASSUME ToolsInv, NEW c \in Callers, WriteStep(c)
    PROVE  ToolsInv'
<1> DEFINE step == Plan(c)[call[c].pc]
           k == call[c].command
<1>0. /\ call[c].pc # 0 /\ Keeps /\ recorded' = recorded
      /\ step \in {"create", "draft", "set", "edit", "add", "change", "delete", "reply", "resolve",
                   "retry", "cancel"}
  BY DEF WriteStep, Calls
<1>1. CASE ensure_errors(c) /\ UNCHANGED <<mrs, comments, writes>>
  <2>1. OthersKept(c) /\ WritesInScope'
    BY <1>0, <1>1 DEF Keeps, OthersKept, WritesOf, WritesInScope, ToolsInv, permits
  <2> QED BY <1>0, <1>1, <2>1, EndsWell DEF ensure_errors
<1>2. CASE ~(ensure_errors(c) /\ UNCHANGED <<mrs, comments, writes>>)
  <2>1. PICK m :
          /\ \/ step = "create" /\ m \in Mrs \ Forks /\ MrBranch[m] = k.ref
             \/ step = "draft" /\ m = call[c].read
             \/ step \in {"retry", "cancel"} /\ m = none
             \/ /\ step \in {"set", "edit", "add", "change", "delete", "reply", "resolve"}
                /\ m = k.mr
          /\ writes' = writes \union {Written(c, step, m)}
    BY <1>0, <1>2 DEF WriteStep, Calls
  <2>w. PICK w : w = Written(c, step, m)
    OBVIOUS
  <2>2. w = Written(c, step, m) /\ w.by = c /\ w.does = step
    BY <2>w, WrittenFields
  <2>3. InScope(w)
    BY <1>0, <2>1, <2>2, TargetInScope
  <2>4. WritesInScope'
    <3>1. \A v \in writes : InScope(v)
      BY DEF ToolsInv, WritesInScope, InScope
    <3>2. \A v \in writes' : InScope(v)
      BY <2>1, <2>2, <2>3, <3>1
    <3> QED BY <3>2 DEF WritesInScope, InScope, permits
  <2>5. /\ WritesOf(c)' = WritesOf(c) \cup {step}
        /\ \A t : t # c => WritesOf(t)' = WritesOf(t)
    BY <2>1, <2>2, WriteBy
  <2>6. OthersKept(c)
    BY <1>0, <2>5 DEF OthersKept, Keeps
  <2>7. WritesOf(c)' = WritesOf(c) \cup ({step} \cap WriteSteps) /\ Checked(k, step)
    BY <1>0, <2>5 DEF WriteSteps, Checked
  <2>8. Goes(c, call[c].read) \/ Ends(c, "error")
    BY <1>2 DEF WriteStep, read_response
  <2> QED BY <1>0, <2>4, <2>6, <2>7, <2>8, GoesWell, EndsWell
<1> QED BY <1>1, <1>2

LEMMA ReportWell ==
    ASSUME ToolsInv, NEW c \in Callers, record_agent_tool_report(c)
    PROVE  ToolsInv'
<1>0. /\ call[c].pc # 0 /\ Plan(c)[call[c].pc] = "report" /\ Keeps
      /\ UNCHANGED <<mrs, comments, recorded>>
  BY DEF record_agent_tool_report, Calls
<1>2. CASE Ends(c, "error") /\ UNCHANGED writes
  <2>1. OthersKept(c) /\ WritesInScope'
    BY <1>0, <1>2 DEF Keeps, OthersKept, WritesOf, WritesInScope, ToolsInv, permits
  <2> QED BY <1>0, <1>2, <2>1, EndsWell
<1>3. CASE Goes(c, none) /\ writes' = writes \union {Written(c, "report", none)}
  <2>w. PICK w : w = Written(c, "report", none)
    OBVIOUS
  <2>0. w = Written(c, "report", none) /\ w.by = c /\ w.does = "report" /\ w.mr = none
    BY <2>w, WrittenFields
  <2>1. /\ WritesOf(c)' = WritesOf(c) \cup {"report"}
        /\ \A t : t # c => WritesOf(t)' = WritesOf(t)
    BY <1>3, <2>0, WriteBy
  <2>2. WritesOf(c)' = WritesOf(c) \cup ({"report"} \cap WriteSteps)
        /\ Checked(call[c].command, "report")
    BY <2>1 DEF WriteSteps, Checked
  <2>3. OthersKept(c)
    BY <1>0, <2>1 DEF OthersKept, Keeps
  <2>4. WritesInScope'
    <3>1. InScope(w)
      BY <2>0, ToolsAssumption DEF InScope
    <3>2. \A v \in writes' : InScope(v)
      BY <1>3, <2>0, <3>1 DEF ToolsInv, WritesInScope, InScope
    <3> QED BY <3>2 DEF WritesInScope, InScope, permits
  <2> QED BY <1>0, <1>3, <2>2, <2>3, <2>4, GoesWell
<1> QED BY <1>2, <1>3 DEF record_agent_tool_report

\* What is recorded, what people do and the Git sessions leave the commands.
LEMMA ToolsAround ==
    ASSUME ToolsInv,
           \/ \E c \in Callers : record_wt_tools_activity(c)
           \/ People
           \/ UNCHANGED toolsVars
    PROVE  ToolsInv'
<1>0. /\ UNCHANGED <<forge, call, writes>>
      /\ \A c \in recorded' : c \in recorded \/ (c \in Callers /\ call[c].answer \in {"ok", "timeout"})
  <2>1. CASE \E c \in Callers : record_wt_tools_activity(c)
    BY <2>1 DEF record_wt_tools_activity, Keeps
  <2>2. CASE UNCHANGED toolsVars
    BY <2>2 DEF toolsVars
  <2>3. CASE People
    BY <2>3 DEF People
  <2> QED BY <2>1, <2>2, <2>3
<1>1. Callers' = Callers /\ WritesInScope' /\ \A c : WritesOf(c)' = WritesOf(c)
  BY <1>0 DEF Callers, ToolsInv, WritesInScope, WritesOf, permits
<1>2. \A c \in Callers : CallOK(c)'
  BY <1>0, <1>1, CallKept DEF ToolsInv
<1> QED BY <1>0, <1>1, <1>2 DEF ToolsInv

LEMMA ToolsStart == Init => ToolsInv
<1> SUFFICES ASSUME NEW mix \in Mixes, ToolsInit(mix) PROVE ToolsInv
  BY DEF Init
<1>1. \A c \in Callers : call[c] = Idle
  BY DEF ToolsInit, Callers
<1>2. writes = {} /\ recorded = {} /\ mrs = FirstMrs /\ forge \in {"github", "gitlab"}
  BY DEF ToolsInit
<1>3. /\ DOMAIN Idle = CallFields /\ Idle.pc = 0 /\ Idle.answer = none
      /\ DOMAIN Idle.seen = SeenFields
  BY DEF Idle, CallFields, Unseen, SeenFields
<1>4. \A c \in Callers : CallOK(c)
  BY <1>1, <1>2, <1>3, ToolsAssumption DEF CallOK, WritesOf
<1> QED BY <1>2, <1>4, ToolsAssumption DEF ToolsInv, WritesInScope

LEMMA ToolsAlways == Spec => []ToolsInv
<1>1. ToolsInv /\ [Next]_vars => ToolsInv'
  <2> SUFFICES ASSUME ToolsInv, [Next]_vars PROVE ToolsInv'
    OBVIOUS
  <2>1. CASE UNCHANGED vars
    BY <2>1, ToolsAround DEF vars
  <2>2. CASE Next
    BY <2>2, ToolsAround, ServeWell, ReadWell, WaitWell, FindWell, WriteWell, ReportWell
       DEF Next, ToolsNext, ToolsStep
  <2> QED BY <2>1, <2>2
<1> QED BY <1>1, ToolsStart, PTL DEF Spec

\* Agents write only to what their command has checked, however commands interleave
\* with one another, with pushes and with what people do, in this project and in
\* forks, between the calls that check and the call that writes
\* (require_writable_*, show_general_comment, require_project_comment_attribution,
\* require_review_thread, require_change_request).  It rests on the order of the
\* calls of each plan, and says that a fork's change request gets a draft mark at most.
THEOREM AgentsStayInScope == Spec => []WritesInScope
<1>1. ToolsInv => WritesInScope
  BY DEF ToolsInv
<1> QED BY <1>1, ToolsAlways, PTL

\* An agent that is told ok has every write of its command done, except for an
\* open_mr that found its change request, and the activity names only commands
\* that ended so (serve_cli, ensure_errors, record_wt_tools_activity).
THEOREM AnswersHold == Spec => []AnswersTrue
<1>1. ToolsInv => AnswersTrue
  BY DEF ToolsInv, CallOK, AnswersTrue
<1> QED BY <1>1, ToolsAlways, PTL

=============================================================================
