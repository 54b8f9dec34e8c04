----------------------------- MODULE AgentTools -----------------------------
(***************************************************************************)
(* wtg tools: commands of agents on change requests and CI, which the      *)
(* gateway runs against GitHub or GitLab beside its Git sessions.  A       *)
(* command is a plan of calls to the provider; between two calls people    *)
(* and other agents go on.  The content of titles, bodies and logs is left *)
(* out; what is tied to what, and what was read before a write, is kept.   *)
(***************************************************************************)
EXTENDS GitSessions, Sequences

CONSTANTS
    Mrs,           \* change requests
    MrBranch,      \* by change request, its head branch
    Forks,         \* the ones whose head is in another project
    FirstMrs,      \* change requests at the start
    CommentMr,     \* by general comment, its change request
    FirstMarked,   \* comments that carry the marker of an agent at the start
    ThreadMr,      \* by review thread, its change request
    RunBranch,     \* by CI run, the branch it is for
    JobRun,        \* by CI job, its run
    Commands,      \* commands of agents: an operation and what it names
    MaxPeople      \* bound: what people do meanwhile

VARIABLES
    forge,     \* "github" or "gitlab"
    mrs,       \* change requests: state, draft, and the head that is not a branch here:
               \* of a fork, or of one that is closed or merged
    comments,  \* the comments there are, and if they carry the marker
    call,      \* the commands: plan step, command, what was read, answer; and, as
               \* history, what the checks saw of what the command names
    writes,    \* history: writes to the provider, by whom and to what
    recorded,  \* commands in the activity of the registry
    people     \* what people did

toolsVars == <<forge, mrs, comments, call, writes, recorded, people>>
vars == <<gitVars, toolsVars>>

Unseen == [state |-> "absent", marked |-> FALSE, head |-> none]
Idle == [pc |-> 0, command |-> none, read |-> none, head |-> none, answer |-> none,
         seen |-> Unseen]
Callers == DOMAIN call

ToolsInit(mix) ==
    /\ forge = IF \E s \in DOMAIN mix : mix[s] = "gitlab" THEN "gitlab" ELSE "github"
    /\ mrs = FirstMrs
    /\ comments = [c \in DOMAIN CommentMr |-> [there |-> TRUE, marked |-> c \in FirstMarked]]
    /\ call = [c \in {s \in DOMAIN mix : mix[s] \in {"github", "gitlab"}} |-> Idle]
    /\ writes = {} /\ recorded = {}
    /\ people = 0
-----------------------------------------------------------------------------
(* The plans, by operation: the calls a command makes, in order.           *)

Reads_github == [show_mr |-> <<"mr", "ci">>, show_mr_for_branch |-> <<"branch", "found", "ci">>,
    list_threads |-> <<"threads">>, list_comments |-> <<"mr", "list">>,
    show_comment |-> <<"mr", "comment">>, list_ci |-> <<"ci">>, list_jobs |-> <<"run">>,
    show_run |-> <<"run">>, show_job |-> <<"job">>, log_job |-> <<"job">>]
Waits_github == [wait_mr |-> <<"mr", "poll">>, wait_run |-> <<"poll">>, wait_job |-> <<"poll">>]
Open_github == [open_mr |-> <<"head", "find", "create", "refresh">>]
Mr_github == [set_mr |-> <<"own", "set", "mr">>, edit_mr |-> <<"own", "edit", "mr">>]
Comments_github == [comment_mr |-> <<"own", "add">>,
    edit_comment |-> <<"own", "mr", "marked", "change">>,
    delete_comment |-> <<"own", "mr", "marked", "delete">>]
Threads_github == [reply_thread |-> <<"own", "thread", "reply">>,
    set_thread |-> <<"own", "thread", "resolve">>]
\* One job cannot be cancelled at GitHub.
Ci_github == [retry_job |-> <<"job", "own_run", "retry">>,
    cancel_job |-> <<"job", "own_run", "refuse">>, cancel_run |-> <<"own_run", "cancel">>]

Reads_gitlab == [Reads_github EXCEPT !.show_mr_for_branch = <<"branch", "ci">>]
Waits_gitlab == Waits_github
Open_gitlab == [open_mr |-> <<"head", "find", "create", "refresh", "draft", "refresh">>]
Mr_gitlab == Mr_github
Comments_gitlab == Comments_github
Threads_gitlab == Threads_github
Ci_gitlab == [retry_job |-> <<"own_job", "retry">>, cancel_job |-> <<"own_job", "cancel">>,
    cancel_run |-> <<"own_run", "cancel">>]

Feedback == [report |-> <<"report">>]

\* The commands of two groups.
With(f, g) == [op \in DOMAIN f \union DOMAIN g |-> IF op \in DOMAIN f THEN f[op] ELSE g[op]]

execute_cli_command_github ==
    With(Feedback, With(Reads_github, With(Waits_github, With(Open_github,
        With(Mr_github, With(Comments_github, With(Threads_github, Ci_github)))))))

execute_cli_command_gitlab ==
    With(Feedback, With(Reads_gitlab, With(Waits_gitlab, With(Open_gitlab,
        With(Mr_gitlab, With(Comments_gitlab, With(Threads_gitlab, Ci_gitlab)))))))

\* A command is one of these, a job and a run are not the same, and none is not a
\* change request.
ASSUME ToolsAssumption ==
    /\ none \notin Commands /\ none \notin {"ok", "timeout"}
    /\ \A k \in Commands :
          /\ k.op \in DOMAIN execute_cli_command_github
          /\ k.op \in {"retry_job", "cancel_job"} => k.item \in DOMAIN JobRun
          /\ k.op = "cancel_run" => k.item \notin DOMAIN JobRun
    /\ DOMAIN FirstMrs = Mrs /\ Forks \subseteq Mrs /\ none \notin Mrs

Plan(c) == (IF forge = "github" THEN execute_cli_command_github
                                ELSE execute_cli_command_gitlab)[call[c].command.op]
Calls(c, steps) == call[c].pc > 0 /\ Plan(c)[call[c].pc] \in steps
-----------------------------------------------------------------------------
\* The head of a change request follows its branch while it is open; a fork's
\* branch is in its own project, whatever its name.
HeadOf(m) == IF mrs[m].state = "open" /\ m \notin Forks THEN refs[MrBranch[m]] ELSE mrs[m].head

\* A change request in scope is of this project, from a branch of agents, and
\* not merged unless the command confirms that.
require_writable_pull_request(m, read, confirm) ==
    /\ read.state = "merged" => confirm
    /\ m \notin Forks /\ permits(MrBranch[m])
require_writable_merge_request(m, read, confirm) ==
    require_writable_pull_request(m, read, confirm)
require_writable_run(run) == permits(RunBranch[run])
require_writable_ref(run) == permits(RunBranch[run])

\* Mutant: the comment is looked up in the project only.
show_general_comment_anywhere(m, k) == comments[k].there

\* The comment is there and of that change request.
show_general_comment(m, k) == comments[k].there /\ CommentMr[k] = m
show_general_comment_gitlab(m, k) == comments[k].there /\ CommentMr[k] = m
require_project_comment_attribution(k) == comments[k].marked
require_review_thread(m, thread) == ThreadMr[thread] = m
discussion_id(m, thread) == ThreadMr[thread] = m

\* The change requests of a branch in the state open, at GitHub not of forks.
read_open_pull_request_for_branch(ref) ==
    {m \in Mrs \ Forks : mrs[m].state = "open" /\ MrBranch[m] = ref}
read_open_merge_request_for_branch(ref) ==
    {m \in Mrs : mrs[m].state = "open" /\ MrBranch[m] = ref}
open_for_branch(ref) == IF forge = "github" THEN read_open_pull_request_for_branch(ref)
                                            ELSE read_open_merge_request_for_branch(ref)

\* The change requests of a branch, in any state, whose head is the commit read:
\* at GitHub of this project; at GitLab of any project with a branch of that name,
\* but only while the branch here is at that commit.  The latest is taken.
Snapshot_github(ref, head) ==
    {m \in Mrs \ Forks : mrs[m].state # "absent" /\ MrBranch[m] = ref /\ HeadOf(m) = head}
Snapshot_gitlab(ref, head) ==
    {m \in Mrs : mrs[m].state # "absent" /\ MrBranch[m] = ref /\ HeadOf(m) = head}
read_change_request_snapshot(ref, head) ==
    IF forge = "github" THEN Snapshot_github(ref, head) ELSE Snapshot_gitlab(ref, head)
SnapshotRefused(ref, head) == forge = "gitlab" /\ refs[ref] # head

\* Calls that want nothing of what they read.
read_workflow == {"found", "run", "job", "refuse"}
read_review_threads == {"threads", "list"}
list_ci_for_commit == {"ci"}
-----------------------------------------------------------------------------
(* The steps.                                                              *)

Becomes(c, record) == call' = [call EXCEPT ![c] = record]
\* History: what a check of this step saw.
Learned(c, read) ==
    LET k == call[c].command
        seen == call[c].seen
    IN CASE Calls(c, {"own"}) -> [seen EXCEPT !.state = mrs[k.mr].state]
         [] Calls(c, {"marked"}) -> [seen EXCEPT !.marked = comments[k.item].marked]
         [] Calls(c, {"refresh"}) -> [seen EXCEPT !.head = HeadOf(read)]
         [] OTHER -> seen
Goes(c, read) ==
    Becomes(c, IF call[c].pc = Len(Plan(c))
               THEN [call[c] EXCEPT !.pc = 0, !.answer = "ok", !.read = none]
               ELSE [call[c] EXCEPT !.pc = @ + 1, !.read = read, !.seen = Learned(c, read)])
Ends(c, result) == Becomes(c, [call[c] EXCEPT !.pc = 0, !.read = none, !.answer = result])
Keeps == UNCHANGED <<gitVars, forge, people>>
Reading == Keeps /\ UNCHANGED <<mrs, comments, writes, recorded>>

\* A command names what it is about, and a provider that is configured.
validate(command) ==
    command.op \in DOMAIN Feedback \/ {command.mr, command.item, command.ref} # {none}
cli_provider(command) == command.op \in DOMAIN Feedback \/ command.host \in Providers

\* An agent's command is parsed and its provider found, or it is refused.
serve_cli(c) ==
    /\ call[c].command = none
    /\ \E command \in Commands :
          IF validate(command) /\ cli_provider(command)
          THEN Becomes(c, [Idle EXCEPT !.pc = 1, !.command = command])
          ELSE Becomes(c, [Idle EXCEPT !.command = command, !.answer = "error"])
    /\ Reading

\* A call fails: no connection, a status, an answer that cannot be decoded, or
\* the errors of a query.
read_response(c) == Ends(c, "error")

\* A call that reads fails, or has what it wants.
ReadStep(c) ==
    LET k == call[c].command
        run == IF k.op \in {"retry_job", "cancel_job", "log_job"} THEN JobRun[k.item] ELSE k.item
        fine == CASE Calls(c, {"mr"}) -> mrs[k.mr].state # "absent"
                  [] Calls(c, {"own"}) ->
                       mrs[k.mr].state # "absent" /\
                       IF forge = "github"
                       THEN require_writable_pull_request(k.mr, mrs[k.mr], k.confirm)
                       ELSE require_writable_merge_request(k.mr, mrs[k.mr], k.confirm)
                  [] Calls(c, {"comment", "marked"}) ->
                       /\ IF forge = "github" THEN show_general_comment(k.mr, k.item)
                                              ELSE show_general_comment_gitlab(k.mr, k.item)
                       /\ Calls(c, {"marked"}) => require_project_comment_attribution(k.item)
                  [] Calls(c, {"thread"}) -> IF forge = "github" THEN require_review_thread(k.mr, k.item)
                                           ELSE discussion_id(k.mr, k.item)
                  [] Calls(c, {"branch"}) -> Cardinality(open_for_branch(k.ref)) = 1
                  [] Calls(c, {"own_run"}) -> IF forge = "github" THEN require_writable_run(run)
                                            ELSE require_writable_ref(run)
                  [] Calls(c, {"own_job"}) -> require_writable_ref(run)
                  [] OTHER -> TRUE
    IN /\ Calls(c, {"mr", "own", "comment", "marked", "thread", "branch", "own_run", "own_job"}
                   \union read_workflow \union read_review_threads \union list_ci_for_commit)
       /\ \/ /\ fine /\ ~Calls(c, {"refuse"})
             /\ Goes(c, IF Calls(c, {"mr", "own"}) THEN mrs[k.mr] ELSE call[c].read)
          \/ read_response(c)
       /\ Reading

\* wait: the change request differs from what was first read, or the deadline
\* passes; a closed one is answered at once.  A run or a job is in a last state,
\* or the deadline passes, which a run's answer does not tell.
wait(c) ==
    LET k == call[c].command
        first == call[c].read
    IN /\ Calls(c, {"poll"})
       /\ \/ k.op = "wait_mr" /\ (first.state \in {"closed", "merged"} \/ mrs[k.mr] # first)
             /\ Goes(c, first)
          \/ k.op = "wait_mr" /\ first.state = "open" /\ Ends(c, "timeout")
          \/ k.op # "wait_mr" /\ Goes(c, first)
          \/ k.op = "wait_job" /\ Ends(c, "timeout")
          \/ read_response(c)
       /\ Reading

\* open_mr: a branch of agents; its commit, then what there is for it.
find(c) ==
    LET k == call[c].command
        head == call[c].head
        found == read_change_request_snapshot(k.ref, head)
    IN /\ Reading
       /\ \/ Calls(c, {"head"}) /\ permits(k.ref) /\ refs[k.ref] # none
             /\ Becomes(c, [call[c] EXCEPT !.pc = 2, !.head = refs[k.ref]])
          \/ Calls(c, {"find"}) /\ ~SnapshotRefused(k.ref, head)
             /\ IF found = {} THEN Goes(c, none) ELSE Ends(c, "ok")
          \/ Calls(c, {"refresh"}) /\ ~SnapshotRefused(k.ref, head)
             /\ \E m \in found : Goes(c, m)
          \/ Calls(c, {"head", "find", "refresh"}) /\ read_response(c)

\* Mutant: the errors of an answer are not looked at.
ensure_errors_ignored(c) == Goes(c, call[c].read)

\* A write the provider refuses, in its status or in the errors of its answer.
ensure_errors(c) == Ends(c, "error")

\* What set_mr asks for; the provider does not open what is merged.
SetMr(m, to) ==
    CASE to \in {"draft", "ready"} -> [mrs EXCEPT ![m].draft = (to = "draft")]
      [] mrs[m].state # "merged" -> [mrs EXCEPT ![m].state = to, ![m].head = HeadOf(m)]
      [] OTHER -> mrs

\* History: a write, with what the command had seen and what it confirms.
Written(c, does, m) ==
    [by |-> c, does |-> does, mr |-> m, item |-> call[c].command.item,
     confirm |-> call[c].command.confirm, head |-> call[c].head, seen |-> call[c].seen]

\* A write is refused, is done, or is done and its answer lost.
WriteStep(c) ==
    LET k == call[c].command
        does == Plan(c)[call[c].pc]
        target == CASE Calls(c, {"create"}) -> {m \in Mrs \ Forks : mrs[m].state = "absent"
                           /\ MrBranch[m] = k.ref /\ read_open_pull_request_for_branch(k.ref) = {}}
                    [] Calls(c, {"draft"}) -> {call[c].read}
                    [] Calls(c, {"retry", "cancel"}) -> {none}
                    [] OTHER -> {k.mr}
        next == Goes(c, call[c].read) \/ read_response(c)
    IN /\ Calls(c, {"create", "draft", "set", "edit", "add", "change", "delete", "reply",
                  "resolve", "retry", "cancel"})
       /\ Keeps /\ UNCHANGED recorded
       /\ \/ ensure_errors(c) /\ UNCHANGED <<mrs, comments, writes>>
          \/ /\ Calls(c, {"change", "delete"}) => comments[k.item].there
             /\ next
             /\ \E m \in target :
                /\ writes' = writes \union {Written(c, does, m)}
                /\ mrs' = CASE Calls(c, {"create"}) -> [mrs EXCEPT ![m] =
                                 [state |-> "open", draft |-> forge = "github", head |-> none]]
                            [] Calls(c, {"draft"}) -> [mrs EXCEPT ![m].draft = TRUE]
                            [] Calls(c, {"set"}) -> SetMr(m, k.to)
                            [] OTHER -> mrs
             /\ comments' = CASE Calls(c, {"change"}) -> [comments EXCEPT ![k.item].marked = TRUE]
                              [] Calls(c, {"delete"}) -> [comments EXCEPT ![k.item].there = FALSE]
                              [] OTHER -> comments

\* A report of an agent about its tools goes to the registry.
record_agent_tool_report(c) ==
    /\ Calls(c, {"report"})
    /\ \/ Goes(c, none) /\ writes' = writes \union {Written(c, "report", none)}
       \/ Ends(c, "error") /\ UNCHANGED writes
    /\ Keeps /\ UNCHANGED <<mrs, comments, recorded>>

\* A command that ended well goes to the activity, unless that fails.
record_wt_tools_activity(c) ==
    /\ call[c].answer \in {"ok", "timeout"} /\ c \notin recorded
    /\ call[c].command.op \notin DOMAIN Feedback
    /\ recorded' = recorded \union {c}
    /\ Keeps /\ UNCHANGED <<mrs, comments, call, writes>>

\* External: people open, merge or close change requests, move the branch of a fork
\* to any commit, and edit or delete comments, which only commands see.
People ==
    /\ Callers # {}
    /\ people < MaxPeople /\ people' = people + 1
    /\ \/ /\ \E m \in Mrs, state \in {"closed", "merged"} :
                /\ mrs[m].state = "open"
                /\ mrs' = [mrs EXCEPT ![m].state = state, ![m].head = HeadOf(m)]
          /\ UNCHANGED comments
       \/ /\ \E m \in Mrs \cap Forks, head \in Commits :
                /\ mrs[m].state \in {"absent", "open"}
                /\ mrs' = [mrs EXCEPT ![m].state = "open", ![m].head = head]
          /\ UNCHANGED comments
       \/ /\ \E m \in Mrs \ Forks :
                /\ mrs[m].state = "absent" /\ refs[MrBranch[m]] # none
                /\ read_open_pull_request_for_branch(MrBranch[m]) = {}
                /\ mrs' = [mrs EXCEPT ![m].state = "open"]
          /\ UNCHANGED comments
       \/ /\ \E k \in DOMAIN comments, there \in BOOLEAN :
                comments' = [comments EXCEPT ![k] = [there |-> there, marked |-> FALSE]]
          /\ UNCHANGED mrs
    /\ UNCHANGED <<gitVars, forge, call, writes, recorded>>

ToolsStep(c) == serve_cli(c) \/ ReadStep(c) \/ wait(c) \/ find(c) \/ WriteStep(c)
                \/ record_agent_tool_report(c)
ToolsNext == \/ \E c \in Callers : ToolsStep(c) \/ record_wt_tools_activity(c)
             \/ People

Init == \E mix \in Mixes : GitInit(mix) /\ ToolsInit(mix)
Next == (GitNext /\ UNCHANGED toolsVars) \/ ToolsNext
Spec == Init /\ [][Next]_vars /\ GitFairness
-----------------------------------------------------------------------------
ToolsTypeOK ==
    /\ \A m \in Mrs : mrs[m].state \in {"absent", "open", "closed", "merged"}
    /\ \A c \in Callers : call[c].answer \in {none, "ok", "error", "timeout"}

\* Agents write only to what their command has checked, whatever people do before,
\* between and after the checks: to change requests from a branch of their name,
\* which they saw not merged or confirm; to comments of it, which they saw marked,
\* and to its threads; to CI of their branches.  A change request of a fork gets
\* no more than the draft mark of open_mr, and only if it was seen at the commit
\* the command is about (require_writable_*, show_general_comment,
\* require_project_comment_attribution, require_review_thread, require_change_request).
WritesInScope ==
    \A w \in writes :
        /\ w.mr # none => permits(MrBranch[w.mr])
        /\ w.mr \in Forks => w.does = "draft"
        /\ w.does = "draft" => w.seen.head = w.head
        /\ w.does \in {"set", "edit", "add", "change", "delete", "reply", "resolve"} =>
              w.seen.state # "absent" /\ (w.seen.state = "merged" => w.confirm)
        /\ w.does \in {"change", "delete"} => CommentMr[w.item] = w.mr /\ w.seen.marked
        /\ w.does \in {"reply", "resolve"} => ThreadMr[w.item] = w.mr
        /\ w.does \in {"retry", "cancel"} =>
              permits(RunBranch[IF w.item \in DOMAIN JobRun THEN JobRun[w.item] ELSE w.item])

WriteSteps == {"create", "draft", "set", "edit", "add", "change", "delete", "reply",
               "resolve", "retry", "cancel", "report"}
WritesOf(c) == {w.does : w \in {x \in writes : x.by = c}}
Planned(c) == {Plan(c)[i] : i \in 1..Len(Plan(c))} \intersect WriteSteps

\* An agent that is told ok, and the activity that names its command, have the
\* whole command done, and none of it is done in a wait that timed out; only
\* open_mr may find that there is nothing to do (ensure_errors, serve_cli).
AnswersTrue ==
    \A c \in Callers :
        /\ call[c].answer = "ok" => \/ WritesOf(c) = Planned(c)
                                    \/ call[c].command.op = "open_mr" /\ WritesOf(c) = {}
        /\ c \in recorded => call[c].answer \in {"ok", "timeout"}
=============================================================================
