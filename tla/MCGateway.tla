----------------------------- MODULE MCGateway ---------------------------
(* Commits c0 <- c1 <- c2 and c0 <- d1; agents push an update, a rewrite, a *)
(* deletion, a ref they may not touch, and two branches at once.            *)
EXTENDS AgentTools, TLC
CONSTANTS c0, c1, c2, d1, agent, other, main, p, q, hub, unknown,
          m1, m2, m3, m4, k1, k2, k3, t1, t2, r1, r2, j1, j2

MCCommits == {c0, c1, c2, d1}
MCAncestors == (c0 :> {c0}) @@ (c1 :> {c0, c1}) @@ (c2 :> {c0, c1, c2}) @@ (d1 :> {c0, d1})
MCFirstRefs == {(agent :> c1) @@ (other :> c0) @@ (main :> c0)}
MCMoves == {<<agent, c2>>, <<other, none>>}
MCMixes == {p :> "gateway", p :> "github", p :> "gitlab"} \union
           {(p :> "proxy") @@ (q :> b) : b \in {"proxy", "tui", "installer"}} \union
           {(p :> "tui") @@ (q :> b) : b \in {"tui", "installer"}}
MCRequests == [service : {"upload", "receive"}, host : {hub, unknown}, safe : BOOLEAN]
Up(old, new) == [old |-> old, new |-> new]
MCPushes == {agent :> Up(c1, c2), agent :> Up(c1, d1), agent :> Up(c1, none),
             main :> Up(c0, c1), other :> Up(none, d1),
             (agent :> Up(c1, c2)) @@ (other :> Up(c0, d1))}

\* m1 is an agent's, m2 a person's, m3 of a fork with a branch of the same name,
\* m4 yet to be opened.
MCMrBranch == (m1 :> agent) @@ (m2 :> main) @@ (m3 :> other) @@ (m4 :> other)
Mr(state) == [state |-> state, draft |-> FALSE, head |-> d1]
MCFirstMrs == (m1 :> Mr("open")) @@ (m2 :> Mr("open")) @@ (m3 :> Mr("open")) @@ (m4 :> Mr("absent"))
MCCommentMr == (k1 :> m1) @@ (k2 :> m2) @@ (k3 :> m1)
MCThreadMr == (t1 :> m1) @@ (t2 :> m2)
MCRunBranch == (r1 :> agent) @@ (r2 :> main)
MCJobRun == (j1 :> r1) @@ (j2 :> r2)

Cmd(op, mr, item) == [op |-> op, mr |-> mr, item |-> item, confirm |-> FALSE, ref |-> none, to |-> none,
                      host |-> hub]
MCCommands ==
    {Cmd(op, m, none) : op \in {"show_mr", "list_threads", "list_comments", "wait_mr", "edit_mr",
                                "comment_mr"}, m \in {m1, m2, m3}}
    \union {[Cmd("set_mr", m1, none) EXCEPT !.to = to, !.confirm = confirm] :
               to \in {"draft", "ready", "open", "closed"}, confirm \in BOOLEAN}
    \union {Cmd(op, m, k) : op \in {"show_comment", "edit_comment", "delete_comment"},
                            m \in {m1, m2}, k \in {k1, k2, k3}}
    \union {Cmd(op, m, t) : op \in {"reply_thread", "set_thread"}, m \in {m1, m2}, t \in {t1, t2}}
    \union {Cmd(op, none, j) : op \in {"show_job", "log_job", "wait_job", "retry_job", "cancel_job"}, j \in {j1, j2}}
    \union {Cmd(op, none, r) : op \in {"show_run", "list_jobs", "wait_run", "cancel_run"}, r \in {r1, r2}}
    \union {Cmd("list_ci", none, c1), Cmd("list_ci", none, none), Cmd("report", none, none),
            [Cmd("edit_mr", m1, none) EXCEPT !.host = unknown]}
    \union {[Cmd(op, none, none) EXCEPT !.ref = ref] : op \in {"show_mr_for_branch", "open_mr"},
                                                       ref \in {agent, other, main}}
=============================================================================
