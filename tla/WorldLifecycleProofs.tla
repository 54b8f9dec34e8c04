------------------------ MODULE WorldLifecycleProofs ------------------------
(***************************************************************************)
(* The capacity of the host is never exceeded, and WorldService implements *)
(* WorldLifecycle, if no client removes a world that is being created.     *)
(*                                                                         *)
(* reserved_resources is a sum over a set, defined by recursion on its     *)
(* subsets.  What the proof needs of it is one lemma: two tables that      *)
(* differ in one row have sums that differ by as much.  It is proved from  *)
(* the well-foundedness of the strict-subset ordering, by the smallest     *)
(* counterexample.                                                         *)
(***************************************************************************)
EXTENDS WorldServiceProofs, FiniteSetTheorems, WellFoundedInduction

-----------------------------------------------------------------------------
(* Sums over the subsets of a finite set *)

\* Every non-empty collection of subsets of a finite set has a minimal member.
LEMMA MinimalSubset ==
    ASSUME NEW S, IsFiniteSet(S), NEW T \in SUBSET (SUBSET S), T # {}
    PROVE  \E x \in T : \A y \in T : y \subseteq x => y = x
<1> DEFINE R == StrictSubsetOrdering(S)
<1>1. IsWellFoundedOn(R, SUBSET S)
  BY FS_StrictSubsetOrderingWellFounded, FS_FiniteSubsetsOfFinite
<1>2. T \subseteq SUBSET S
  OBVIOUS
<1> HIDE DEF R
<1>3. PICK x \in T : \A y \in T : ~(<<y, x>> \in R)
  BY <1>1, <1>2, WFMin
<1>4. ASSUME NEW y \in T, y \subseteq x, y # x PROVE <<y, x>> \in R
  BY <1>2, <1>4 DEF R, StrictSubsetOrdering
<1>5. \A y \in T : y \subseteq x => y = x
  BY ONLY <1>3, <1>4
<1> QED BY <1>5

Pick(s) == CHOOSE x \in s : TRUE

LEMMA PickIn == ASSUME NEW s, s # {} PROVE Pick(s) \in s
BY DEF Pick

\* g sums f over every subset of S, one element after the other.
Summand(f, g, s) == IF s = {} THEN 0 ELSE f[Pick(s)] + g[s \ {Pick(s)}]
Sums(g, f, S) == g = [s \in SUBSET S |-> Summand(f, g, s)]

LEMMA SumsExist == ASSUME NEW S, IsFiniteSet(S), NEW f PROVE \E g : Sums(g, f, S)
<1> DEFINE P == SUBSET S
           Closed(D) == \A s \in D : s # {} => s \ {Pick(s)} \in D
           On(D) == \E g : g = [s \in D |-> Summand(f, g, s)]
           Open == {E \in SUBSET P : Closed(P \ E) /\ On(P \ E)}
<1>1. P \in Open
  <2>1. Closed(P \ P)
    OBVIOUS
  <2>2. On(P \ P)
    <3> DEFINE h == [s \in {} |-> 0]
    <3>1. h = [s \in {} |-> Summand(f, h, s)]
      OBVIOUS
    <3>2. P \ P = {}
      OBVIOUS
    <3> QED BY <3>1, <3>2
  <2> QED BY <2>1, <2>2
<1>2. IsFiniteSet(P)
  BY FS_SUBSET
<1>3. PICK E \in Open : \A y \in Open : y \subseteq E => y = E
  <2>1. Open \in SUBSET (SUBSET P) /\ Open # {}
    BY <1>1
  <2> HIDE DEF P, Open
  <2> QED BY <1>2, <2>1, MinimalSubset
<1>4. CASE E = {}
  <2>1. P \ E = P
    BY <1>4
  <2>2. On(P)
    BY <2>1
  <2> QED BY <2>2 DEF Sums
<1>5. CASE E # {}
  <2>0. E \in SUBSET P
    OBVIOUS
  <2>1. PICK s \in E : \A y \in E : y \subseteq s => y = s
    BY <1>5, <2>0, MinimalSubset
  <2> DEFINE D == P \ E
             r == s \ {Pick(s)}
  <2>2. s \in P /\ s \notin D /\ (s # {} => r \in D)
    <3>1. s # {} => r \subseteq s /\ r # s /\ r \in P
      BY <2>0, PickIn
    <3> QED BY <2>0, <2>1, <3>1
  <2>3. PICK g : g = [x \in D |-> Summand(f, g, x)]
    OBVIOUS
  <2> DEFINE h == [x \in D \cup {s} |-> IF x = s THEN Summand(f, g, s) ELSE g[x]]
  <2>4. ASSUME NEW x \in D \cup {s} PROVE h[x] = Summand(f, h, x)
    <3>1. x # {} => x \ {Pick(x)} \in D
      BY <2>2
    <3>2. x # {} => h[x \ {Pick(x)}] = g[x \ {Pick(x)}]
      BY <2>2, <3>1
    <3>3. Summand(f, h, x) = Summand(f, g, x)
      BY <3>2 DEF Summand
    <3>4. x # s => g[x] = Summand(f, g, x)
      BY <2>3
    <3> QED BY <3>3, <3>4
  <2>5. h = [x \in D \cup {s} |-> Summand(f, h, x)]
    <3> HIDE DEF h
    <3>1. h = [x \in D \cup {s} |-> h[x]]
      BY DEF h
    <3> QED BY <2>4, <3>1
  <2>6. D \cup {s} = P \ (E \ {s})
    BY <2>0, <2>1
  <2>7. E \ {s} \in Open
    <3>1. Closed(D \cup {s})
      BY <2>2
    <3>2. On(D \cup {s})
      <4> HIDE DEF h
      <4> QED BY <2>5
    <3>3. Closed(P \ (E \ {s})) /\ On(P \ (E \ {s}))
      BY <2>6, <3>1, <3>2
    <3> QED BY <2>0, <3>3
  <2> QED BY <1>3, <2>1, <2>7
<1> QED BY <1>4, <1>5

LEMMA SumsAt ==
    ASSUME NEW S, NEW f, NEW g, Sums(g, f, S), NEW s \in SUBSET S
    PROVE  /\ s = {} => g[s] = 0
           /\ s # {} => Pick(s) \in s /\ g[s] = f[Pick(s)] + g[s \ {Pick(s)}]
<1>1. g[s] = Summand(f, g, s)
  BY DEF Sums
<1> QED BY <1>1, PickIn DEF Summand

LEMMA SumsTyped ==
    ASSUME NEW S, IsFiniteSet(S), NEW f \in [S -> Nat], NEW g, Sums(g, f, S)
    PROVE  \A s \in SUBSET S : g[s] \in Nat
<1> DEFINE Bad == {s \in SUBSET S : g[s] \notin Nat}
<1> SUFFICES ASSUME Bad # {} PROVE FALSE
  OBVIOUS
<1>1. PICK s \in Bad : \A y \in Bad : y \subseteq s => y = s
  <2>1. Bad \in SUBSET (SUBSET S)
    OBVIOUS
  <2> HIDE DEF Bad
  <2> QED BY <2>1, MinimalSubset
<1>2. /\ s # {} => Pick(s) \in s /\ g[s] = f[Pick(s)] + g[s \ {Pick(s)}]
      /\ s = {} => g[s] = 0
  <2>1. s \in SUBSET S
    OBVIOUS
  <2> HIDE DEF Bad
  <2> QED BY <2>1, SumsAt
<1>3. g[s] \notin Nat
  OBVIOUS
<1>4. s # {} => s \ {Pick(s)} \subseteq s /\ s \ {Pick(s)} # s
  BY <1>2
<1>5. s # {} => g[s \ {Pick(s)}] \in Nat
  BY <1>1, <1>4
<1> QED BY <1>2, <1>3, <1>5

\* Two functions that differ in one argument have sums that differ by as much.
LEMMA SumsDiffer ==
    ASSUME NEW S, IsFiniteSet(S), NEW w \in S, NEW f \in [S -> Nat], NEW e \in [S -> Nat],
           \A x \in S \ {w} : e[x] = f[x],
           NEW g, Sums(g, f, S), NEW h, Sums(h, e, S)
    PROVE  h[S] + f[w] = g[S] + e[w]
<1> DEFINE Right(s) == IF w \in s THEN h[s] + f[w] = g[s] + e[w] ELSE h[s] = g[s]
           Bad == {s \in SUBSET S : ~Right(s)}
<1>1. Bad = {}
  <2> SUFFICES ASSUME Bad # {} PROVE FALSE
    OBVIOUS
  <2>1. PICK s \in Bad : \A y \in Bad : y \subseteq s => y = s
    <3>1. Bad \in SUBSET (SUBSET S)
      OBVIOUS
    <3> HIDE DEF Bad
    <3> QED BY <3>1, MinimalSubset
  <2>2. s # {}
    BY SumsAt
  <2> DEFINE x == Pick(s)
             r == s \ {x}
  <2>3. x \in s /\ g[s] = f[x] + g[r] /\ h[s] = e[x] + h[r]
    BY <2>2, SumsAt
  <2>4. g[r] \in Nat /\ h[r] \in Nat /\ f[x] \in Nat /\ e[x] \in Nat /\ f[w] \in Nat /\ e[w] \in Nat
    <3>1. r \in SUBSET S /\ x \in S
      BY <2>3
    <3> QED BY <3>1, SumsTyped
  <2> HIDE DEF x
  <2>5. Right(r)
    BY <2>1, <2>3
  <2>6. CASE x = w
    BY <2>3, <2>4, <2>5, <2>6
  <2>7. CASE x # w
    <3>1. f[x] = e[x] /\ (w \in r <=> w \in s)
      BY <2>3, <2>7
    <3> QED BY <2>3, <2>4, <2>5, <3>1
  <2> QED BY <2>6, <2>7
<1>2. S \in SUBSET S
  OBVIOUS
<1> QED BY <1>1, <1>2

\* The sum of zeroes.
LEMMA SumsOfNothing ==
    ASSUME NEW S, IsFiniteSet(S), NEW f \in [S -> Nat], \A x \in S : f[x] = 0,
           NEW g, Sums(g, f, S)
    PROVE  g[S] = 0
<1> DEFINE Bad == {s \in SUBSET S : g[s] # 0}
<1>1. Bad = {}
  <2> SUFFICES ASSUME Bad # {} PROVE FALSE
    OBVIOUS
  <2>1. PICK s \in Bad : \A y \in Bad : y \subseteq s => y = s
    <3>1. Bad \in SUBSET (SUBSET S)
      OBVIOUS
    <3> HIDE DEF Bad
    <3> QED BY <3>1, MinimalSubset
  <2>2. s # {}
    BY SumsAt
  <2>3. Pick(s) \in s /\ g[s] = f[Pick(s)] + g[s \ {Pick(s)}]
    BY <2>2, SumsAt
  <2>4. g[s \ {Pick(s)}] = 0
    BY <2>1, <2>3
  <2> QED BY <2>3, <2>4
<1>2. S \in SUBSET S
  OBVIOUS
<1> QED BY <1>1, <1>2

\* What is reserved is such a sum.
LEMMA SumsOfReserved ==
    ASSUME NEW ws, NEW r
    PROVE  \E g : /\ Sums(g, [w \in WorldIds |-> Held(ws[w], r)], WorldIds)
                  /\ reserved_resources(ws, r) = g[WorldIds]
<1> DEFINE f == [w \in WorldIds |-> Held(ws[w], r)]
           Table(g) == g = [s \in SUBSET WorldIds |->
                              IF s = {} THEN 0
                              ELSE Held(ws[CHOOSE x \in s : TRUE], r) + g[s \ {CHOOSE x \in s : TRUE}]]
<1>1. \A g : Sums(g, f, WorldIds) <=> Table(g)
  <2>1. ASSUME NEW s \in SUBSET WorldIds, NEW g
        PROVE  Summand(f, g, s) = IF s = {} THEN 0
                                  ELSE Held(ws[CHOOSE x \in s : TRUE], r) + g[s \ {CHOOSE x \in s : TRUE}]
    <3>1. s # {} => f[Pick(s)] = Held(ws[Pick(s)], r)
      BY PickIn
    <3> QED BY <3>1 DEF Summand, Pick
  <2> QED BY <2>1 DEF Sums
<1>2. \E g : Table(g)
  <2>1. \E g : Sums(g, f, WorldIds)
    BY SumsExist, CapacityAssumption
  <2> HIDE DEF f, Table
  <2> QED BY <1>1, <2>1
<1>3. \E g : Table(g) /\ reserved_resources(ws, r) = g[WorldIds]
  BY <1>2 DEF reserved_resources, MapThenSumSet, MapThenFoldSet
<1> QED BY <1>1, <1>3

\* What a row holds is a number, and so is what all rows hold.
LEMMA HeldTyped ==
    ASSUME NEW row \in Row, NEW r \in Compute
    PROVE  Held(row, r) \in Nat
BY DEF Row, Held, Compute, Resource

\* A change of one row changes what is reserved by what that row holds more.
LEMMA ReservedDiffers ==
    ASSUME NEW ws \in [WorldIds -> Row], NEW vs \in [WorldIds -> Row], NEW w \in WorldIds,
           OnlyRow(ws, vs, w), NEW r \in Compute
    PROVE  /\ reserved_resources(ws, r) \in Nat /\ reserved_resources(vs, r) \in Nat
           /\ reserved_resources(vs, r) + Held(ws[w], r) = reserved_resources(ws, r) + Held(vs[w], r)
<1> DEFINE f == [x \in WorldIds |-> Held(ws[x], r)]
           e == [x \in WorldIds |-> Held(vs[x], r)]
<1>1. f \in [WorldIds -> Nat] /\ e \in [WorldIds -> Nat] /\ IsFiniteSet(WorldIds)
  BY HeldTyped, CapacityAssumption
<1>2. PICK g : Sums(g, f, WorldIds) /\ reserved_resources(ws, r) = g[WorldIds]
  BY SumsOfReserved
<1>3. PICK h : Sums(h, e, WorldIds) /\ reserved_resources(vs, r) = h[WorldIds]
  BY SumsOfReserved
<1>4. \A x \in WorldIds \ {w} : e[x] = f[x]
  BY DEF OnlyRow
<1>5. f[w] = Held(ws[w], r) /\ e[w] = Held(vs[w], r)
  OBVIOUS
<1> HIDE DEF f, e
<1>6. g[WorldIds] \in Nat /\ h[WorldIds] \in Nat
  BY <1>1, <1>2, <1>3, SumsTyped
<1>7. h[WorldIds] + f[w] = g[WorldIds] + e[w]
  BY <1>1, <1>2, <1>3, <1>4, SumsDiffer
<1> QED BY <1>2, <1>3, <1>5, <1>6, <1>7

\* Tables whose rows hold the same have the same reserved.
LEMMA ReservedSame ==
    ASSUME NEW ws \in [WorldIds -> Row], NEW vs \in [WorldIds -> Row], NEW r \in Compute,
           \A x \in WorldIds : Held(vs[x], r) = Held(ws[x], r)
    PROVE  reserved_resources(vs, r) = reserved_resources(ws, r)
<1> DEFINE f == [x \in WorldIds |-> Held(ws[x], r)]
           e == [x \in WorldIds |-> Held(vs[x], r)]
<1>1. f \in [WorldIds -> Nat] /\ e = f /\ IsFiniteSet(WorldIds)
  BY HeldTyped, CapacityAssumption
<1>2. PICK g : Sums(g, f, WorldIds) /\ reserved_resources(ws, r) = g[WorldIds]
  BY SumsOfReserved
<1>3. PICK h : Sums(h, e, WorldIds) /\ reserved_resources(vs, r) = h[WorldIds]
  BY SumsOfReserved
<1>4. PICK w \in WorldIds : TRUE
  BY ServiceAssumption
<1> HIDE DEF f, e
<1>6. g[WorldIds] \in Nat /\ h[WorldIds] \in Nat /\ f[w] \in Nat
  BY <1>1, <1>2, <1>3, SumsTyped
<1>7. h[WorldIds] + f[w] = g[WorldIds] + f[w]
  BY <1>1, <1>2, <1>3, SumsDiffer
<1> QED BY <1>2, <1>3, <1>6, <1>7

-----------------------------------------------------------------------------
(* The resources that the worlds hold *)

\* A world is reserved again when it was found running, which it only can be if
\* it holds its resources already, or when it was found stopped.  What is not in
\* the table holds nothing.
ReserveInv ==
    /\ \A t \in Threads : pc[t] = "reconcile_reserve" => worlds[W(t)].compute_reserved = TRUE
    /\ \A t \in Threads : pc[t] = "start_reserve" => worlds[W(t)].status = "stopped"
    /\ \A t \in Threads : pc[t] = "create_running" => call[t].key # NoKey
    /\ \A w \in WorldIds : Stored(worlds, w) => worlds[w].want \in Shapes
    /\ \A w \in WorldIds : ~Stored(worlds, w) =>
          worlds[w].compute_reserved = FALSE /\ worlds[w].ssh = NoKey

\* What a thread has just done when it comes to one of these steps.
LEMMA ReserveFollows ==
    ASSUME TypeOK, NEW t \in Threads, Moves(t)
    PROVE  /\ pc'[t] = "reconcile_reserve" =>
                 /\ pc[t] = "inspect" /\ Inspection(machine[W(t)]) = "running"
                 /\ RegistryUnchanged /\ call'[t].w = W(t)
           /\ pc'[t] = "start_reserve" =>
                 /\ pc[t] = "start_check" /\ worlds[W(t)].status = "stopped"
                 /\ RegistryUnchanged /\ call'[t].w = W(t)
<1> USE Locals
<1>0. call \in [Threads -> Call] /\ pc \in [Threads -> Steps]
  BY DEF TypeOK
<1> SUFFICES ASSUME pc'[t] \in {"reconcile_reserve", "start_reserve"}
             PROVE  /\ pc'[t] = "reconcile_reserve" =>
                          /\ pc[t] = "inspect" /\ Inspection(machine[W(t)]) = "running"
                          /\ RegistryUnchanged /\ call'[t].w = W(t)
                    /\ pc'[t] = "start_reserve" =>
                          /\ pc[t] = "start_check" /\ worlds[W(t)].status = "stopped"
                          /\ RegistryUnchanged /\ call'[t].w = W(t)
  OBVIOUS
<1>a. pc'[t] \in Undisturbed
  BY DEF Undisturbed, ReconcilePoints
<1>b. ~\E out : Finish(t, out)
  BY <1>a, ArrivesBy
<1>1. CASE inspect(t)
  <2>1. /\ pc[t] = "inspect" /\ Inspection(machine[W(t)]) = "running" /\ RegistryUnchanged
        /\ pc'[t] = "reconcile_reserve" /\ call' = [call EXCEPT ![t].key = machine[W(t)].key]
    BY <1>0, <1>1 DEF inspect, retry, Goto, At, LocalStep
  <2>2. call'[t].w = W(t)
    BY <1>0, <2>1 DEF Call, W
  <2> QED BY <2>1, <2>2
<1>2. CASE start_check(t)
  <2>1. /\ pc[t] = "start_check" /\ worlds[W(t)].status = "stopped" /\ RegistryUnchanged
        /\ pc'[t] = "start_reserve" /\ call' = [call EXCEPT ![t].stored = Seen(worlds[W(t)])]
    BY <1>0, <1>b, <1>2 DEF start_check, Goto, At, LocalStep
  <2>2. call'[t].w = W(t)
    BY <1>0, <2>1 DEF Call, W
  <2> QED BY <2>1, <2>2
<1>3. CASE try_lock_world(t) \/ list_next(t)
  <2>1. pc[t] \in {"lock", "list_next"}
    BY <1>3 DEF try_lock_world, list_next, At
  <2>2. pc[t] \notin Undisturbed
    BY <2>1 DEF Undisturbed, ReconcilePoints
  <2>3. worlds[W(t)].status \in {"stopped", "running"} /\ pc'[t] = "start_reserve"
    BY <1>a, <2>2, Arrives
  <2>4. CASE try_lock_world(t)
    <3>1. pc'[t] = StepUnderLock(call[t]) /\ pc[t] = "lock"
      BY <1>0, <1>b, <2>4 DEF try_lock_world, Goto, At
    <3>2. call[t].op \in {"get", "start", "stop", "rename", "delete", "exec"}
      BY <3>1, OpOfStep
    <3> QED BY <2>3, <3>1, <3>2, AfterReconcileLeaves DEF StepUnderLock, ReconcileStep
  <2>5. CASE list_next(t)
    <3>1. pc'[t] = "list_reread" \/ pc'[t] = "list_next" \/ \E row : pc'[t] = ReconcileStep("list", row)
      BY <1>0, <2>5 DEF list_next, Goto, At
    <3> QED BY <2>3, <3>1, AfterReconcileLeaves DEF ReconcileStep
  <2> QED BY <1>3, <2>4, <2>5
<1>4. ~(reconcile_reserve(t) \/ start_reserve(t) \/ start_boot(t) \/ start_ready(t) \/ stop_check(t)
        \/ stop_shutdown(t))
  BY <1>0, <1>b DEF reconcile_reserve, start_reserve, start_boot, start_ready, stop_check,
     stop_shutdown, Goto, At
<1> QED BY <1>a, <1>1, <1>2, <1>3, <1>4, ArrivesBy

\* The creation that comes to record its world has a key of the guest.
LEMMA RunningKeyed ==
    ASSUME TypeOK, NEW t \in Threads, Moves(t), pc'[t] = "create_running"
    PROVE  call'[t].key # NoKey
<1> USE Locals
<1>0. call \in [Threads -> Call] /\ pc \in [Threads -> Steps]
  BY DEF TypeOK
<1>1. ~(\E out : Finish(t, out)) /\ ~Inserted(t)
  BY <1>0 DEF Finish, Goto, Inserted
<1>2. call'[t].op \in Operation /\ pc'[t] \in {"idle", "return"} \cup StepsOf[call'[t].op]
  <2>1. TypeOK'
    BY TypeStep DEF Next, Moves
  <2> QED BY <2>1 DEF TypeOK, Call
<1>3. call'[t].op = "create"
  BY <1>2 DEF StepsOf, Operation, CreateSteps, ReconcilePoints
<1>4. Provisions(t)
  <2>1. Provisions(t)'
    BY <1>3 DEF Provisions, ProvisionSteps
  <2> QED BY <1>1, <2>1, ProvisionStarts
<1>5. create_setup(t) /\ call' = [call EXCEPT ![t].key = 1]
  <2>1. CASE pc[t] \in {"create_overlay", "create_directory", "create_define", "create_boot", "create_wait"}
    BY <1>0, <2>1, Dispatch DEF create_overlay, create_directory, create_define, create_boot,
       create_wait, Goto
  <2>2. CASE pc[t] \in {"create_running", "create_failed"}
    BY <1>0, <1>1, <2>2, Dispatch DEF create_running, create_failed, Goto
  <2>3. CASE pc[t] \in {"remove_domain", "remove_files"}
    BY <1>0, <2>3, Dispatch DEF remove_domain, remove_files, AfterCleanup, Goto
  <2>4. CASE pc[t] = "create_setup"
    BY <1>0, <2>4, Dispatch DEF create_setup, Goto
  <2> QED BY <1>4, <2>1, <2>2, <2>3, <2>4 DEF Provisions, ProvisionSteps
<1>6. call'[t].key = 1
  BY <1>0, <1>5 DEF Call
<1> QED BY <1>6 DEF NoKey

LEMMA ReserveMove ==
    ASSUME BaseInv, QuietInv, MachineInv, ReserveInv, NEW t \in Threads, Moves(t)
    PROVE  ReserveInv'
<1> USE Locals DEF BaseInv
<1>1. ASSUME NEW u \in Threads, pc'[u] \in {"reconcile_reserve", "start_reserve"}
      PROVE  /\ pc'[u] = "reconcile_reserve" => worlds'[call'[u].w].compute_reserved = TRUE
             /\ pc'[u] = "start_reserve" => worlds'[call'[u].w].status = "stopped"
  <2>1. CASE u # t
    <3>1. pc'[u] = pc[u] /\ call'[u].w = W(u)
      BY <2>1, OthersKept DEF W
    <3>2. Exclusive(u)
      BY <1>1, <3>1 DEF Exclusive, Undisturbed, ReconcilePoints
    <3>3. W(u) \in issued /\ ~(Exclusive(t) /\ W(t) = W(u)) /\ W(u) \in WorldIds
      BY <2>1, <3>2, ExclusiveQuiet, Alone
    <3>4. SameRow(worlds, worlds', W(u))
      BY <3>3, Touches
    <3> QED BY <3>1, <3>4 DEF SameRow, ReserveInv
  <2>2. CASE u = t
    <3>1. RegistryUnchanged /\ call'[t].w = W(t)
      BY <1>1, <2>2, ReserveFollows
    <3>2. pc'[t] = "start_reserve" => worlds[W(t)].status = "stopped"
      BY ReserveFollows
    <3>3. ASSUME pc'[t] = "reconcile_reserve" PROVE worlds[W(t)].compute_reserved = TRUE
      <4>1. machine[W(t)].domain = "on"
        BY <3>3, ReserveFollows DEF Inspection
      <4> QED BY <4>1 DEF MachineInv, WorldSound, NoMachine
    <3> QED BY <2>2, <3>1, <3>2, <3>3 DEF RegistryUnchanged
  <2> QED BY <2>1, <2>2
<1>2. ASSUME NEW u \in Threads, pc'[u] = "create_running" PROVE call'[u].key # NoKey
  BY <1>2, RunningKeyed, OthersKept DEF ReserveInv
<1>3. ASSUME NEW w \in WorldIds
      PROVE  /\ Stored(worlds', w) => worlds'[w].want \in Shapes
             /\ ~Stored(worlds', w) => worlds'[w].compute_reserved = FALSE /\ worlds'[w].ssh = NoKey
  <2>1. CASE RegistryUnchanged
    BY <2>1 DEF RegistryUnchanged, ReserveInv, Stored
  <2>2. CASE Inserted(t)
    BY <2>2 DEF Inserted, OnlyRow, ReserveInv, Stored
  <2>3. CASE Reserves(t) \/ Errs(t) \/ Stops(t) \/ Dooms(t) \/ Runs(t)
    BY <2>3 DEF Reserves, Errs, Stops, Dooms, Runs, KeepsIdentity, OnlyRow, ReserveInv, Stored
  <2>4. CASE Renamed(t)
    BY <2>4 DEF Renamed, SameRow, OnlyRow, ReserveInv, Stored
  <2>5. CASE Deleted(t)
    BY <2>5, NoRowFields DEF Deleted, OnlyRow, ReserveInv, Stored
  <2> QED BY <2>1, <2>2, <2>3, <2>4, <2>5, Effects DEF RowEffect
<1> QED BY <1>1, <1>2, <1>3 DEF ReserveInv, W

LEMMA ReserveStep == BaseInv /\ QuietInv /\ MachineInv /\ ReserveInv /\ [Next]_vars => ReserveInv'
<1> SUFFICES ASSUME BaseInv, QuietInv, MachineInv, ReserveInv, [Next]_vars PROVE ReserveInv'
  OBVIOUS
<1>1. CASE UNCHANGED <<worlds, pc, call>>
  BY <1>1 DEF ReserveInv, W, Stored
<1>2. CASE \E t \in Threads : Moves(t)
  BY <1>2, ReserveMove
<1>3. CASE Restart
  <2>0. worlds \in [WorldIds -> Row]
    BY DEF BaseInv, TypeOK
  <2>1. \A t \in Threads : pc'[t] = "idle"
    BY <1>3 DEF Restart
  <2>2. \A w \in WorldIds :
          /\ worlds'[w].compute_reserved = worlds[w].compute_reserved /\ worlds'[w].ssh = worlds[w].ssh
          /\ worlds'[w].want = worlds[w].want
          /\ Stored(worlds', w) <=> Stored(worlds, w)
    BY <1>3, <2>0, Interrupts DEF Restart, Stored
  <2> QED BY <2>1, <2>2 DEF ReserveInv, W
<1> QED BY <1>1, <1>2, <1>3
    DEF Next, Moves, vars, GuestPowersOff, GuestRekeys, RegistryUnchanged

LEMMA ReserveInit == Init => ReserveInv
BY NoRowFields DEF Init, ReserveInv, Stored

\* The amounts of the rows and of the limits.
LEMMA Amounts ==
    ASSUME NEW r \in Compute
    PROVE  Limit[r] \in Nat /\ \A want \in Shapes : want[r] \in Nat \ {0}
BY CapacityAssumption DEF Compute, Resource

LEMMA CapacityMove ==
    ASSUME BaseInv, ReserveInv, WithinCapacity, NEW t \in Threads, Moves(t), TypeOK'
    PROVE  WithinCapacity'
<1> USE Locals DEF BaseInv
<1>0. worlds \in [WorldIds -> Row] /\ worlds' \in [WorldIds -> Row]
  BY DEF TypeOK
<1> SUFFICES ASSUME NEW r \in Compute PROVE reserved_resources(worlds', r) <= Limit[r]
  BY DEF WithinCapacity
<1>a. Limit[r] \in Nat /\ reserved_resources(worlds, r) <= Limit[r]
  BY Amounts DEF WithinCapacity
<1>b. r \in Resource /\ r # "disk"
  BY DEF Compute, Resource
<1>1. CASE RegistryUnchanged
  BY <1>1, <1>a DEF RegistryUnchanged
<1>2. CASE Inserted(t)
  <2>1. PICK w \in WorldIds \ issued :
           /\ OnlyRow(worlds, worlds', w) /\ worlds'[w].compute_reserved = TRUE
           /\ ensure_capacity(worlds, worlds'[w].want)
    BY <1>2 DEF Inserted
  <2>2. Held(worlds[w], r) = 0
    BY <1>b, <2>1 DEF IdsInv, ReserveInv, Held
  <2>3. Held(worlds'[w], r) = worlds'[w].want[r]
    BY <1>b, <2>1 DEF Held
  <2>4. reserved_resources(worlds, r) + worlds'[w].want[r] <= Limit[r]
    BY <1>b, <2>1 DEF ensure_capacity
  <2>5. Held(worlds'[w], r) \in Nat
    BY <1>0, HeldTyped
  <2> QED BY <1>0, <1>a, <2>1, <2>2, <2>3, <2>4, <2>5, ReservedDiffers
<1>3. CASE Reserves(t)
  <2>1. OnlyRow(worlds, worlds', W(t)) /\ worlds'[W(t)].want = worlds[W(t)].want
        /\ worlds'[W(t)].compute_reserved = TRUE
    BY <1>3 DEF Reserves, KeepsIdentity
  <2>2. CASE worlds[W(t)].compute_reserved
    <3>1. Held(worlds'[W(t)], r) = Held(worlds[W(t)], r) /\ Held(worlds[W(t)], r) \in Nat
      BY <1>0, <1>b, <2>1, <2>2, HeldTyped DEF Held
    <3> QED BY <1>0, <1>a, <2>1, <3>1, ReservedDiffers
  <2>3. CASE ~worlds[W(t)].compute_reserved
    <3>1. pc[t] = "start_reserve" /\ reserve_fits(worlds, W(t))
      BY <1>3, <2>3 DEF Reserves, ReserveInv, At
    <3>2. reserved_resources(worlds, r) + worlds[W(t)].want[r] <= Limit[r]
      BY <1>b, <2>3, <3>1 DEF reserve_fits, ReserveRequest
    <3>3. Held(worlds'[W(t)], r) = worlds[W(t)].want[r] /\ Held(worlds[W(t)], r) = 0
      BY <1>b, <2>1, <2>3 DEF Held
    <3>4. Held(worlds'[W(t)], r) \in Nat
      BY <1>0, HeldTyped
    <3> QED BY <1>0, <1>a, <2>1, <3>2, <3>3, <3>4, ReservedDiffers
  <2> QED BY <2>2, <2>3
<1>4. CASE Errs(t) \/ Stops(t) \/ Dooms(t) \/ Runs(t) \/ Renamed(t) \/ Deleted(t)
  <2>1. OnlyRow(worlds, worlds', W(t))
    BY <1>4 DEF Errs, Stops, Dooms, Runs, Renamed, Deleted, KeepsIdentity
  <2>2. \/ worlds'[W(t)].compute_reserved = FALSE
        \/ /\ worlds'[W(t)].compute_reserved = worlds[W(t)].compute_reserved
           /\ worlds'[W(t)].want = worlds[W(t)].want
    BY <1>4, NoRowFields DEF Errs, Stops, Dooms, Runs, Renamed, Deleted, KeepsIdentity, SameRow
  <2>3. Held(worlds'[W(t)], r) \in Nat /\ Held(worlds[W(t)], r) \in Nat
    BY <1>0, HeldTyped
  <2>4. Held(worlds'[W(t)], r) <= Held(worlds[W(t)], r)
    <3>1. Held(worlds'[W(t)], r) = 0 \/ Held(worlds'[W(t)], r) = Held(worlds[W(t)], r)
      BY <1>b, <2>2 DEF Held
    <3> QED BY <2>3, <3>1
  <2>5. /\ reserved_resources(worlds, r) \in Nat /\ reserved_resources(worlds', r) \in Nat
        /\ reserved_resources(worlds', r) + Held(worlds[W(t)], r)
              = reserved_resources(worlds, r) + Held(worlds'[W(t)], r)
    BY <1>0, <2>1, ReservedDiffers
  <2> QED BY <1>a, <2>3, <2>4, <2>5
<1> QED BY <1>1, <1>2, <1>3, <1>4, Effects DEF RowEffect

LEMMA CapacityStep == BaseInv /\ ReserveInv /\ WithinCapacity /\ [Next]_vars => WithinCapacity'
<1> SUFFICES ASSUME BaseInv, ReserveInv, WithinCapacity, [Next]_vars PROVE WithinCapacity'
  OBVIOUS
<1>0. TypeOK' /\ worlds \in [WorldIds -> Row] /\ worlds' \in [WorldIds -> Row]
  <2>1. TypeOK'
    BY TypeStep DEF BaseInv
  <2> QED BY <2>1 DEF TypeOK, BaseInv
<1>1. CASE UNCHANGED worlds
  BY <1>1 DEF WithinCapacity
<1>2. CASE \E t \in Threads : Moves(t)
  BY <1>0, <1>2, CapacityMove
<1>3. CASE Restart
  <2>1. \A w \in WorldIds : /\ worlds'[w].compute_reserved = worlds[w].compute_reserved
                            /\ worlds'[w].want = worlds[w].want
    BY <1>0, <1>3, Interrupts DEF Restart
  <2>2. \A r \in Compute : reserved_resources(worlds', r) = reserved_resources(worlds, r)
    <3> TAKE r \in Compute
    <3>1. \A w \in WorldIds : Held(worlds'[w], r) = Held(worlds[w], r)
      BY <2>1 DEF Held, Compute
    <3> QED BY <1>0, <3>1, ReservedSame
  <2> QED BY <2>2 DEF WithinCapacity
<1> QED BY <1>1, <1>2, <1>3
    DEF Next, Moves, vars, GuestPowersOff, GuestRekeys, RegistryUnchanged

LEMMA CapacityInit == Init => WithinCapacity
<1> SUFFICES ASSUME Init, NEW r \in Compute PROVE reserved_resources(worlds, r) <= Limit[r]
  BY DEF WithinCapacity
<1> DEFINE f == [w \in WorldIds |-> Held(worlds[w], r)]
<1>1. \A w \in WorldIds : Held(worlds[w], r) = 0
  BY NoRowFields DEF Init, Held, Compute
<1>2. PICK g : Sums(g, f, WorldIds) /\ reserved_resources(worlds, r) = g[WorldIds]
  BY SumsOfReserved
<1>3. f \in [WorldIds -> Nat] /\ \A w \in WorldIds : f[w] = 0
  BY <1>1
<1> HIDE DEF f
<1>4. g[WorldIds] = 0
  BY <1>2, <1>3, SumsOfNothing, CapacityAssumption
<1> QED BY <1>2, <1>4, Amounts

CapacityInv == SafeInv /\ OwnedInv /\ ReserveInv /\ WithinCapacity

LEMMA CapacityHolds == ASSUME RemoveWhileCreating = FALSE PROVE Spec => []CapacityInv
<1>1. Init => CapacityInv
  BY BaseHolds, QuietInit, MachineInit, ObserveInit, OwnedInit, ReserveInit, CapacityInit
  DEF CapacityInv, SafeInv
<1>2. CapacityInv /\ [Next]_vars => CapacityInv'
  <2>1. BaseInv => TypeOK
    BY DEF BaseInv
  <2> QED BY <2>1, BaseStep, QuietStep, MachineStepKeeps, ObserveStep, OwnedStep, ReserveStep, CapacityStep
      DEF CapacityInv, SafeInv
<1> QED BY <1>1, <1>2, PTL DEF Spec

\* ensure_resources_reserved takes no limit, a start checks what its row lacks,
\* and an errored world keeps what it holds: whatever threads and crashes come
\* between an inspection and the reservation it leads to, the processors and
\* the memory reserved stay within the configured limits.
THEOREM CapacityKept == ASSUME RemoveWhileCreating = FALSE PROVE Spec => []WithinCapacity
<1>1. CapacityInv => WithinCapacity
  BY DEF CapacityInv
<1> QED BY <1>1, CapacityHolds, PTL

-----------------------------------------------------------------------------
(* The refinement of WorldLifecycle *)

\* The state of WorldLifecycle that a state of the server stands for.
StatusOf(w) == IF Stored(worlds, w) THEN worlds[w].status
               ELSE IF w \in issued THEN "removed" ELSE "unborn"
HeldBy(w) == [r \in Compute |-> Held(worlds[w], r)]

LEMMA HoldsNothing ==
    ASSUME NEW row
    PROVE  row.compute_reserved = FALSE => [r \in Compute |-> Held(row, r)] = Lifecycle!Nothing
BY DEF Held, Compute, Lifecycle!Nothing, Lifecycle!Compute

\* A world of some shape that holds its resources holds something.
LEMMA HoldsSomething ==
    ASSUME NEW row, row.want \in Shapes, row.compute_reserved = TRUE
    PROVE  [r \in Compute |-> Held(row, r)] # Lifecycle!Nothing
<1> DEFINE h == [r \in Compute |-> Held(row, r)]
<1>1. "cpu" \in Compute /\ "cpu" \in Lifecycle!Compute
  BY DEF Compute, Lifecycle!Compute
<1>2. h["cpu"] = row.want["cpu"]
  BY <1>1 DEF Held
<1>3. Lifecycle!Nothing["cpu"] = 0
  BY <1>1 DEF Lifecycle!Nothing
<1> HIDE DEF h
<1>4. h # Lifecycle!Nothing
  BY <1>1, <1>2, <1>3, Amounts
<1> QED BY <1>4 DEF h

LEMMA SumsOfTotal ==
    ASSUME NEW h, NEW r
    PROVE  \E g : /\ Sums(g, [w \in WorldIds |-> h[w][r]], WorldIds)
                  /\ Lifecycle!Total(h, r) = g[WorldIds]
<1> DEFINE f == [w \in WorldIds |-> h[w][r]]
           Table(g) == g = [s \in SUBSET WorldIds |->
                              IF s = {} THEN 0
                              ELSE h[CHOOSE x \in s : TRUE][r] + g[s \ {CHOOSE x \in s : TRUE}]]
<1>1. \A g : Sums(g, f, WorldIds) <=> Table(g)
  <2>1. ASSUME NEW s \in SUBSET WorldIds, NEW g
        PROVE  Summand(f, g, s) = IF s = {} THEN 0
                                  ELSE h[CHOOSE x \in s : TRUE][r] + g[s \ {CHOOSE x \in s : TRUE}]
    <3>1. s # {} => f[Pick(s)] = h[Pick(s)][r]
      BY PickIn
    <3> QED BY <3>1 DEF Summand, Pick
  <2> QED BY <2>1 DEF Sums
<1>2. \E g : Table(g)
  <2>1. \E g : Sums(g, f, WorldIds)
    BY SumsExist, CapacityAssumption
  <2> HIDE DEF f, Table
  <2> QED BY <1>1, <2>1
<1>3. \E g : Table(g) /\ Lifecycle!Total(h, r) = g[WorldIds]
  BY <1>2 DEF Lifecycle!Total, Lifecycle!MapThenSumSet, Lifecycle!MapThenFoldSet
<1> QED BY <1>1, <1>3

\* What the abstract worlds hold is what the registry has reserved.
LEMMA TotalIsReserved ==
    ASSUME NEW ws \in [WorldIds -> Row], NEW r \in Compute
    PROVE  Lifecycle!Total([w \in WorldIds |-> [q \in Compute |-> Held(ws[w], q)]], r)
              = reserved_resources(ws, r)
<1> DEFINE h == [w \in WorldIds |-> [q \in Compute |-> Held(ws[w], q)]]
           f == [w \in WorldIds |-> Held(ws[w], r)]
           e == [w \in WorldIds |-> h[w][r]]
<1>1. f \in [WorldIds -> Nat] /\ e = f /\ IsFiniteSet(WorldIds)
  BY HeldTyped, CapacityAssumption
<1>2. PICK g : Sums(g, f, WorldIds) /\ reserved_resources(ws, r) = g[WorldIds]
  BY SumsOfReserved
<1>3. PICK k : Sums(k, e, WorldIds) /\ Lifecycle!Total(h, r) = k[WorldIds]
  BY SumsOfTotal
<1>4. PICK w \in WorldIds : TRUE
  BY ServiceAssumption
<1> HIDE DEF f, e, h
<1>5. g[WorldIds] \in Nat /\ k[WorldIds] \in Nat /\ f[w] \in Nat
  BY <1>1, <1>2, <1>3, SumsTyped
<1>6. k[WorldIds] + f[w] = g[WorldIds] + f[w]
  BY <1>1, <1>2, <1>3, SumsDiffer
<1>7. Lifecycle!Total(h, r) = reserved_resources(ws, r)
  BY <1>2, <1>3, <1>5, <1>6
<1> QED BY <1>7 DEF h

AbsStatus == [w \in WorldIds |-> StatusOf(w)]
AbsHeld == [w \in WorldIds |-> HeldBy(w)]
AbsIdentity == [w \in WorldIds |-> worlds[w].ssh]

\* A step that changes one row changes one abstract world.
LEMMA OneWorld ==
    ASSUME NEW w \in WorldIds, OnlyRow(worlds, worlds', w), issued \subseteq issued',
           issued' \subseteq issued \cup {w}
    PROVE  /\ AbsStatus' = [AbsStatus EXCEPT ![w] = StatusOf(w)']
           /\ AbsHeld' = [AbsHeld EXCEPT ![w] = HeldBy(w)']
           /\ AbsIdentity' = [AbsIdentity EXCEPT ![w] = worlds'[w].ssh]
           /\ AbsStatus[w] = StatusOf(w) /\ AbsHeld[w] = HeldBy(w) /\ AbsIdentity[w] = worlds[w].ssh
           /\ AbsHeld'[w] = HeldBy(w)' /\ AbsIdentity'[w] = worlds'[w].ssh
<1>1. ASSUME NEW x \in WorldIds, x # w
      PROVE  StatusOf(x)' = StatusOf(x) /\ HeldBy(x)' = HeldBy(x) /\ worlds'[x].ssh = worlds[x].ssh
  <2>1. worlds'[x] = worlds[x] /\ (x \in issued' <=> x \in issued)
    BY <1>1 DEF OnlyRow
  <2> QED BY <2>1 DEF StatusOf, HeldBy, Stored
<1> QED BY <1>1 DEF AbsStatus, AbsHeld, AbsIdentity

\* What is kept of a row keeps its part of the abstract state.
LEMMA KeptPart ==
    ASSUME NEW w \in WorldIds, issued \subseteq issued', issued' \subseteq issued
    PROVE  /\ worlds'[w].status = worlds[w].status => StatusOf(w)' = StatusOf(w)
           /\ worlds'[w].status # "absent" => StatusOf(w)' = worlds'[w].status
           /\ worlds[w].status # "absent" => StatusOf(w) = worlds[w].status
           /\ /\ worlds'[w].compute_reserved = worlds[w].compute_reserved
              /\ worlds'[w].want = worlds[w].want
              => HeldBy(w)' = HeldBy(w)
BY DEF StatusOf, HeldBy, Held, Stored, Compute

\* A handler that works on a settled world under its key finds it settled.
LEMMA FindsSettled ==
    ASSUME BaseInv, QuietInv, OwnedInv, NEW t \in Threads, Exclusive(t), ~Provisions(t), ~Destroys(t)
    PROVE  worlds[W(t)].status \notin {"provisioning", "destroying"}
<1>1. W(t) \in WorldIds
  BY Locals DEF BaseInv
<1> SUFFICES ASSUME NEW u \in Threads, Provisions(u) \/ Destroys(u), W(u) = W(t) PROVE FALSE
  BY <1>1 DEF OwnedInv
<1>2. u # t /\ Exclusive(u)
  BY DEF Exclusive
<1> QED BY <1>2, Alone

Abs == <<AbsStatus, AbsHeld, AbsIdentity>>

LEMMA MapsInsert ==
    ASSUME CapacityInv, WithinCapacity', TypeOK', NEW t \in Threads, Inserted(t)
    PROVE  \E w \in WorldIds : Lifecycle!Admit(w)
<1> USE DEF CapacityInv, SafeInv, BaseInv
<1>1. PICK w \in WorldIds \ issued :
         /\ issued' = issued \cup {w}
         /\ OnlyRow(worlds, worlds', w)
         /\ worlds'[w].status = "provisioning" /\ worlds'[w].ssh = NoKey
         /\ worlds'[w].compute_reserved = TRUE /\ worlds'[w].want \in Shapes
  BY DEF Inserted
<1>2. ~Stored(worlds, w) /\ worlds[w].compute_reserved = FALSE /\ worlds[w].ssh = NoKey
  BY <1>1 DEF IdsInv, ReserveInv
<1>3. StatusOf(w) = "unborn" /\ StatusOf(w)' = "provisioning"
  BY <1>1, <1>2 DEF StatusOf, Stored
<1>4. HeldBy(w) = Lifecycle!Nothing
  BY <1>2, HoldsNothing DEF HeldBy
<1>5. HeldBy(w)' # Lifecycle!Nothing
  BY <1>1, HoldsSomething DEF HeldBy
<1>6. /\ AbsStatus' = [AbsStatus EXCEPT ![w] = "provisioning"] /\ AbsStatus[w] = "unborn"
      /\ AbsHeld' = [AbsHeld EXCEPT ![w] = AbsHeld'[w]]
      /\ AbsHeld[w] = Lifecycle!Nothing /\ AbsHeld'[w] # Lifecycle!Nothing
      /\ AbsIdentity' = AbsIdentity
  <2>1. /\ AbsStatus' = [AbsStatus EXCEPT ![w] = StatusOf(w)'] /\ AbsStatus[w] = StatusOf(w)
        /\ AbsHeld' = [AbsHeld EXCEPT ![w] = HeldBy(w)'] /\ AbsHeld'[w] = HeldBy(w)'
        /\ AbsHeld[w] = HeldBy(w)
        /\ AbsIdentity' = [AbsIdentity EXCEPT ![w] = worlds'[w].ssh] /\ AbsIdentity[w] = worlds[w].ssh
    BY <1>1, OneWorld
  <2>2. AbsIdentity' = AbsIdentity
    BY <1>1, <1>2, <2>1 DEF AbsIdentity
  <2> QED BY <1>3, <1>4, <1>5, <2>1, <2>2
<1>7. \A r \in Compute : Lifecycle!Total(AbsHeld', r) <= Limit[r]
  BY TotalIsReserved DEF WithinCapacity, TypeOK, AbsHeld, HeldBy
<1>8. Lifecycle!Admit(w)
  BY <1>6, <1>7 DEF Lifecycle!Admit, Lifecycle!Hold, Lifecycle!Compute, Compute, AbsStatus, AbsHeld,
     AbsIdentity, StatusOf, HeldBy
<1> QED BY <1>8

\* A row that is reserved again holds what it held, or what a start may hold.
LEMMA MapsReserve ==
    ASSUME CapacityInv, WithinCapacity', TypeOK', NEW t \in Threads, Reserves(t)
    PROVE  UNCHANGED Abs \/ \E w \in WorldIds : Lifecycle!Reserve(w)
<1> USE Locals DEF CapacityInv, SafeInv, BaseInv
<1>0. PICK w \in WorldIds : w = W(t)
  OBVIOUS
<1>1. /\ w \in WorldIds /\ OnlyRow(worlds, worlds', w) /\ UNCHANGED issued /\ Stored(worlds, w)
      /\ worlds'[w].want = worlds[w].want /\ worlds'[w].ssh = worlds[w].ssh
      /\ worlds'[w].status = worlds[w].status /\ worlds'[w].compute_reserved = TRUE
  BY <1>0 DEF Reserves, KeepsIdentity
<1>2. StatusOf(w)' = StatusOf(w) /\ StatusOf(w) = worlds[w].status
  BY <1>1, KeptPart DEF Stored
<1>3. /\ AbsStatus' = [AbsStatus EXCEPT ![w] = StatusOf(w)'] /\ AbsStatus[w] = StatusOf(w)
      /\ AbsHeld' = [AbsHeld EXCEPT ![w] = HeldBy(w)'] /\ AbsHeld'[w] = HeldBy(w)'
      /\ AbsHeld[w] = HeldBy(w)
      /\ AbsIdentity' = [AbsIdentity EXCEPT ![w] = worlds'[w].ssh] /\ AbsIdentity[w] = worlds[w].ssh
  BY <1>1, OneWorld
<1>4. AbsStatus' = AbsStatus /\ AbsIdentity' = AbsIdentity
  BY <1>1, <1>2, <1>3 DEF AbsStatus, AbsIdentity
<1>5. CASE worlds[w].compute_reserved = TRUE
  <2>1. HeldBy(w)' = HeldBy(w)
    BY <1>1, <1>5, KeptPart
  <2>2. AbsHeld' = AbsHeld
    BY <1>1, <1>3, <2>1 DEF AbsHeld
  <2> QED BY <1>4, <2>2 DEF Abs
<1>6. CASE worlds[w].compute_reserved # TRUE
  <2>1. pc[t] = "start_reserve" /\ worlds[w].status = "stopped"
    BY <1>0, <1>6 DEF Reserves, ReserveInv
  <2>2. worlds[w].compute_reserved = FALSE /\ worlds'[w].want \in Shapes
    BY <1>1, <1>6 DEF TypeOK, Row, ReserveInv
  <2>3. HeldBy(w) = Lifecycle!Nothing /\ HeldBy(w)' # Lifecycle!Nothing
    BY <1>1, <2>2, HoldsNothing, HoldsSomething DEF HeldBy
  <2>4. \A r \in Compute : Lifecycle!Total(AbsHeld', r) <= Limit[r]
    BY TotalIsReserved DEF WithinCapacity, TypeOK, AbsHeld, HeldBy
  <2>5. /\ AbsStatus[w] = "stopped" /\ AbsHeld' = [AbsHeld EXCEPT ![w] = AbsHeld'[w]]
        /\ AbsHeld[w] = Lifecycle!Nothing /\ AbsHeld'[w] # Lifecycle!Nothing
    BY <1>2, <1>3, <2>1, <2>3
  <2>6. Lifecycle!Reserve(w)
    BY <1>4, <2>4, <2>5 DEF Lifecycle!Reserve, Lifecycle!Hold, Lifecycle!Compute, Compute, AbsStatus,
       AbsHeld, AbsIdentity, StatusOf, HeldBy
  <2> QED BY <2>6
<1> QED BY <1>5, <1>6

\* The steps that settle the status of a world or doom it.
LEMMA MapsStatus ==
    ASSUME CapacityInv, NEW t \in Threads, Errs(t) \/ Stops(t) \/ Dooms(t)
    PROVE  \E w \in WorldIds : Lifecycle!Fail(w) \/ Lifecycle!FoundStopped(w) \/ Lifecycle!Destroy(w)
<1> USE Locals DEF CapacityInv, SafeInv, BaseInv
<1>0. PICK w \in WorldIds : w = W(t)
  OBVIOUS
<1>1. /\ w \in WorldIds /\ OnlyRow(worlds, worlds', w) /\ UNCHANGED issued /\ Stored(worlds, w)
      /\ worlds'[w].want = worlds[w].want /\ worlds'[w].ssh = worlds[w].ssh
      /\ Stored(worlds', w)
  BY <1>0 DEF Errs, Stops, Dooms, KeepsIdentity, Stored
<1>a. worlds[w].status \in WorldStatus
  BY <1>1, RowFields DEF TypeOK, Stored
<1>b. Stops(t) \/ Dooms(t) => worlds[w].status \in {"running", "stopped", "error"}
  <2> SUFFICES ASSUME Stops(t) \/ Dooms(t) PROVE worlds[w].status \in {"running", "stopped", "error"}
    OBVIOUS
  <2>1. Exclusive(t)
    BY DEF Exclusive, Stops, Dooms, At, Undisturbed, ReconcilePoints
  <2>2. ~Provisions(t) /\ ~Destroys(t)
    BY DEF Stops, Dooms, At, Provisions, ProvisionSteps, Destroys
  <2> QED BY <1>0, <1>a, <2>1, <2>2, FindsSettled DEF WorldStatus
<1>c. /\ Errs(t) => worlds'[w].status = "error" /\ worlds'[w].compute_reserved = worlds[w].compute_reserved
      /\ Stops(t) => worlds'[w].status = "stopped" /\ worlds'[w].compute_reserved = FALSE
      /\ Dooms(t) => worlds'[w].status = "destroying"
                     /\ worlds'[w].compute_reserved = worlds[w].compute_reserved
  BY <1>0 DEF Errs, Stops, Dooms
<1>2. StatusOf(w)' = worlds'[w].status /\ StatusOf(w) = worlds[w].status
  BY <1>1, KeptPart DEF Stored
<1>3. /\ AbsStatus' = [AbsStatus EXCEPT ![w] = worlds'[w].status] /\ AbsStatus[w] = worlds[w].status
      /\ AbsHeld' = [AbsHeld EXCEPT ![w] = HeldBy(w)'] /\ AbsHeld[w] = HeldBy(w)
      /\ AbsIdentity' = [AbsIdentity EXCEPT ![w] = worlds'[w].ssh] /\ AbsIdentity[w] = worlds[w].ssh
  BY <1>1, <1>2, OneWorld
<1>4. AbsIdentity' = AbsIdentity
  BY <1>1, <1>3 DEF AbsIdentity
<1>5. worlds'[w].compute_reserved = worlds[w].compute_reserved => AbsHeld' = AbsHeld
  <2> SUFFICES ASSUME worlds'[w].compute_reserved = worlds[w].compute_reserved PROVE AbsHeld' = AbsHeld
    OBVIOUS
  <2>1. HeldBy(w)' = HeldBy(w)
    BY <1>1, KeptPart
  <2> QED BY <1>1, <1>3, <2>1 DEF AbsHeld
<1>6. CASE Errs(t)
  <2>1. /\ AbsStatus' = [AbsStatus EXCEPT ![w] = "error"] /\ AbsHeld' = AbsHeld
        /\ AbsStatus[w] \in Lifecycle!Settled \cup Lifecycle!InFlight
    BY <1>3, <1>5, <1>6, <1>a, <1>c DEF WorldStatus, Lifecycle!Settled, Lifecycle!InFlight
  <2>2. Lifecycle!Fail(w)
    BY <1>4, <2>1 DEF Lifecycle!Fail, AbsStatus, AbsHeld, AbsIdentity, StatusOf, HeldBy
  <2> QED BY <2>2
<1>7. CASE Stops(t)
  <2>0. HeldBy(w)' = Lifecycle!Nothing
    BY <1>7, <1>c, HoldsNothing DEF HeldBy
  <2>1. /\ AbsStatus' = [AbsStatus EXCEPT ![w] = "stopped"]
        /\ AbsHeld' = [AbsHeld EXCEPT ![w] = Lifecycle!Nothing]
        /\ AbsStatus[w] \in Lifecycle!Settled
    BY <1>3, <1>7, <1>b, <1>c, <2>0 DEF Lifecycle!Settled
  <2>2. Lifecycle!FoundStopped(w)
    BY <1>4, <2>1 DEF Lifecycle!FoundStopped, AbsStatus, AbsHeld, AbsIdentity, StatusOf, HeldBy
  <2> QED BY <2>2
<1>8. CASE Dooms(t)
  <2>1. /\ AbsStatus' = [AbsStatus EXCEPT ![w] = "destroying"] /\ AbsHeld' = AbsHeld
        /\ AbsStatus[w] \in Lifecycle!Settled
    BY <1>3, <1>5, <1>8, <1>b, <1>c DEF Lifecycle!Settled
  <2>2. Lifecycle!Destroy(w)
    BY <1>4, <2>1 DEF Lifecycle!Destroy, AbsStatus, AbsHeld, AbsIdentity, StatusOf, HeldBy
  <2> QED BY <2>2
<1> QED BY <1>6, <1>7, <1>8

\* A world is recorded running by its creation or when it is found so.
LEMMA MapsRuns ==
    ASSUME CapacityInv, NEW t \in Threads, Runs(t)
    PROVE  \E w \in WorldIds : Lifecycle!Provisioned(w) \/ Lifecycle!FoundRunning(w)
<1> USE Locals DEF CapacityInv, SafeInv, BaseInv
<1>0. PICK w \in WorldIds : w = W(t)
  OBVIOUS
<1>1. /\ OnlyRow(worlds, worlds', w) /\ UNCHANGED issued /\ Stored(worlds, w) /\ Stored(worlds', w)
      /\ worlds'[w].want = worlds[w].want /\ worlds'[w].ssh = call[t].key
      /\ worlds'[w].compute_reserved = worlds[w].compute_reserved
      /\ worlds'[w].status = "running" /\ worlds[w].want \in Shapes
  BY <1>0 DEF Runs, Stored, ReserveInv
<1>2. StatusOf(w)' = "running" /\ StatusOf(w) = worlds[w].status /\ HeldBy(w)' = HeldBy(w)
  BY <1>1, KeptPart DEF Stored
<1>3. /\ AbsStatus' = [AbsStatus EXCEPT ![w] = "running"] /\ AbsStatus[w] = worlds[w].status
      /\ AbsHeld' = [AbsHeld EXCEPT ![w] = HeldBy(w)] /\ AbsHeld[w] = HeldBy(w)
      /\ AbsIdentity' = [AbsIdentity EXCEPT ![w] = worlds'[w].ssh] /\ AbsIdentity[w] = worlds[w].ssh
      /\ AbsIdentity'[w] = worlds'[w].ssh
  BY <1>1, <1>2, OneWorld
<1>4. AbsHeld' = AbsHeld
  BY <1>3 DEF AbsHeld
<1>5. CASE At(t, "create_running")
  <2>1. Provisions(t)
    BY <1>5, OpOfStep DEF At, Provisions, ProvisionSteps, CreateSteps
  <2>2. worlds[w].status = "provisioning" /\ worlds[w].ssh = NoKey /\ worlds'[w].ssh # NoKey
    BY <1>0, <1>1, <1>5, <2>1 DEF QuietInv, IdentityInv, ReserveInv, At
  <2>3. worlds[w].compute_reserved = TRUE
    BY <2>2 DEF MachineInv, WorldSound
  <2>4. HeldBy(w) # Lifecycle!Nothing
    BY <1>1, <2>3, HoldsSomething DEF HeldBy
  <2>5. /\ AbsStatus[w] = "provisioning" /\ AbsHeld[w] # Lifecycle!Nothing /\ AbsIdentity[w] = NoKey
        /\ AbsIdentity'[w] # NoKey /\ AbsIdentity' = [AbsIdentity EXCEPT ![w] = AbsIdentity'[w]]
    BY <1>3, <2>2, <2>4
  <2>6. Lifecycle!Provisioned(w)
    BY <1>3, <1>4, <2>5 DEF Lifecycle!Provisioned, AbsStatus, AbsHeld, AbsIdentity, StatusOf, HeldBy
  <2> QED BY <2>6
<1>6. CASE ~At(t, "create_running")
  <2>1. /\ pc[t] \in {"reconcile_running", "start_apply"}
        /\ call[t].stored.ssh # NoKey /\ call[t].stored.ssh = call[t].key
    BY <1>6 DEF Runs
  <2>2. worlds[w].ssh = call[t].key /\ worlds[w].ssh # NoKey
    BY <1>0, <1>1, <2>1 DEF IdentityInv, Known
  <2>3. worlds[w].compute_reserved = TRUE
    BY <1>0, <2>1 DEF MachineInv, ThreadSound
  <2>4. HeldBy(w) # Lifecycle!Nothing
    BY <1>1, <2>3, HoldsSomething DEF HeldBy
  <2>5. worlds[w].status \in {"running", "stopped", "error"}
    <3>1. Exclusive(t) /\ ~Provisions(t) /\ ~Destroys(t)
      BY <2>1 DEF Exclusive, Undisturbed, ReconcilePoints, Provisions, ProvisionSteps, Destroys
    <3>2. worlds[w].status \in WorldStatus
      BY <1>1, RowFields DEF TypeOK, Stored
    <3> QED BY <1>0, <3>1, <3>2, FindsSettled DEF WorldStatus
  <2>6. AbsIdentity' = AbsIdentity
    BY <1>1, <1>3, <2>2 DEF AbsIdentity
  <2>7. /\ AbsStatus[w] \in Lifecycle!Settled /\ AbsHeld[w] # Lifecycle!Nothing
        /\ AbsIdentity[w] # NoKey
    BY <1>3, <2>2, <2>4, <2>5 DEF Lifecycle!Settled
  <2>8. Lifecycle!FoundRunning(w)
    BY <1>3, <1>4, <2>6, <2>7 DEF Lifecycle!FoundRunning, AbsStatus, AbsHeld, AbsIdentity, StatusOf, HeldBy
  <2> QED BY <2>8
<1> QED BY <1>5, <1>6

\* A row is deleted at the end of a removal.
LEMMA MapsDelete ==
    ASSUME CapacityInv, NEW t \in Threads, Deleted(t)
    PROVE  \E w \in WorldIds : Lifecycle!Removed(w)
<1> USE Locals DEF CapacityInv, SafeInv, BaseInv
<1>0. PICK w \in WorldIds : w = W(t)
  OBVIOUS
<1>1. /\ OnlyRow(worlds, worlds', w) /\ UNCHANGED issued /\ Stored(worlds, w) /\ worlds'[w] = NoRow
      /\ pc[t] = "delete_row"
  BY <1>0 DEF Deleted, At
<1>2. worlds[w].status = "destroying"
  <2>1. Destroys(t)
    BY <1>1, OpOfStep DEF Destroys
  <2> QED BY <1>0, <2>1 DEF QuietInv
<1>3. StatusOf(w) = "destroying" /\ StatusOf(w)' = "removed"
  <2>1. w \in issued /\ w \in issued' /\ ~Stored(worlds', w)
    BY <1>1, NoRowFields DEF IdsInv, Stored
  <2> QED BY <1>1, <1>2, <2>1 DEF StatusOf
<1>4. HeldBy(w)' = Lifecycle!Nothing /\ worlds'[w].ssh = NoKey
  BY <1>1, NoRowFields, HoldsNothing DEF HeldBy
<1>5. /\ AbsStatus' = [AbsStatus EXCEPT ![w] = "removed"] /\ AbsStatus[w] = "destroying"
      /\ AbsHeld' = [AbsHeld EXCEPT ![w] = Lifecycle!Nothing]
      /\ AbsIdentity' = [AbsIdentity EXCEPT ![w] = NoKey]
  BY <1>1, <1>3, <1>4, OneWorld
<1>6. Lifecycle!Removed(w)
  BY <1>5 DEF Lifecycle!Removed, AbsStatus, AbsHeld, AbsIdentity, StatusOf, HeldBy
<1> QED BY <1>6

\* A rename is not seen.
LEMMA MapsRename ==
    ASSUME TypeOK, NEW t \in Threads, Renamed(t)
    PROVE  UNCHANGED Abs
<1>0. PICK w \in WorldIds : w = W(t)
  BY Locals
<1>1. OnlyRow(worlds, worlds', w) /\ SameRow(worlds, worlds', w) /\ UNCHANGED issued
  BY <1>0 DEF Renamed
<1>2. StatusOf(w)' = StatusOf(w) /\ HeldBy(w)' = HeldBy(w) /\ worlds'[w].ssh = worlds[w].ssh
  BY <1>1, KeptPart DEF SameRow
<1>3. /\ AbsStatus' = [AbsStatus EXCEPT ![w] = StatusOf(w)]
      /\ AbsHeld' = [AbsHeld EXCEPT ![w] = HeldBy(w)]
      /\ AbsIdentity' = [AbsIdentity EXCEPT ![w] = worlds[w].ssh]
  BY <1>1, <1>2, OneWorld
<1> QED BY <1>3 DEF Abs, AbsStatus, AbsHeld, AbsIdentity

\* A restart interrupts what is in flight.
LEMMA MapsRestart ==
    ASSUME TypeOK, Restart
    PROVE  Lifecycle!Interrupt
<1>0. worlds \in [WorldIds -> Row]
  BY DEF TypeOK
<1>1. ASSUME NEW w \in WorldIds
      PROVE  /\ StatusOf(w)' = IF StatusOf(w) \in Lifecycle!InFlight THEN "error" ELSE StatusOf(w)
             /\ HeldBy(w)' = HeldBy(w) /\ worlds'[w].ssh = worlds[w].ssh
  <2>1. /\ worlds'[w].status = IF worlds[w].status \in {"provisioning", "destroying"}
                               THEN "error" ELSE worlds[w].status
        /\ worlds'[w].ssh = worlds[w].ssh
        /\ worlds'[w].compute_reserved = worlds[w].compute_reserved /\ worlds'[w].want = worlds[w].want
        /\ UNCHANGED issued
    BY <1>0, Interrupts DEF Restart
  <2>2. StatusOf(w)' = IF StatusOf(w) \in Lifecycle!InFlight THEN "error" ELSE StatusOf(w)
    BY <2>1 DEF StatusOf, Stored, Lifecycle!InFlight
  <2> QED BY <2>1, <2>2, KeptPart
<1>2. /\ AbsStatus' = [w \in WorldIds |-> IF AbsStatus[w] \in Lifecycle!InFlight THEN "error"
                                          ELSE AbsStatus[w]]
      /\ AbsHeld' = AbsHeld /\ AbsIdentity' = AbsIdentity
  BY <1>1 DEF AbsStatus, AbsHeld, AbsIdentity
<1> QED BY <1>2 DEF Lifecycle!Interrupt, AbsStatus, AbsHeld, AbsIdentity, StatusOf, HeldBy

\* Every step of the server is a step of the life of one world, the restart of
\* all, or changes nothing of it.
LEMMA MapsStep ==
    ASSUME CapacityInv, CapacityInv', [Next]_vars
    PROVE  UNCHANGED Abs \/ Lifecycle!Next
<1> USE DEF CapacityInv, SafeInv, BaseInv
<1>1. CASE UNCHANGED <<worlds, issued>>
  BY <1>1 DEF Abs, AbsStatus, AbsHeld, AbsIdentity, StatusOf, HeldBy, Stored
<1>2. ASSUME NEW t \in Threads, Moves(t) PROVE UNCHANGED Abs \/ Lifecycle!Next
  <2>1. CASE RegistryUnchanged
    BY <1>1, <2>1 DEF RegistryUnchanged
  <2>2. CASE Renamed(t)
    BY <2>2, MapsRename
  <2>3. CASE ~RegistryUnchanged /\ ~Renamed(t)
    BY <1>2, <2>3, Effects, MapsInsert, MapsReserve, MapsStatus, MapsRuns, MapsDelete
    DEF RowEffect, Lifecycle!Next
  <2> QED BY <2>1, <2>2, <2>3
<1>3. CASE Restart
  BY <1>3, MapsRestart DEF Lifecycle!Next
<1> QED BY <1>1, <1>2, <1>3
    DEF Next, Moves, vars, GuestPowersOff, GuestRekeys, RegistryUnchanged

LEMMA MapsInit == Init => Lifecycle!Init
<1> SUFFICES ASSUME Init PROVE Lifecycle!Init
  OBVIOUS
<1>1. ASSUME NEW w \in WorldIds
      PROVE  ~Stored(worlds, w) /\ w \notin issued /\ worlds[w] = NoRow
  BY NoRowFields DEF Init, Stored
<1>2. ASSUME NEW w \in WorldIds
      PROVE StatusOf(w) = "unborn" /\ HeldBy(w) = Lifecycle!Nothing /\ worlds[w].ssh = NoKey
  BY <1>1, NoRowFields, HoldsNothing DEF StatusOf, HeldBy
<1>3. /\ AbsStatus = [w \in WorldIds |-> "unborn"] /\ AbsHeld = [w \in WorldIds |-> Lifecycle!Nothing]
      /\ AbsIdentity = [w \in WorldIds |-> NoKey]
  BY <1>2 DEF AbsStatus, AbsHeld, AbsIdentity
<1> QED BY <1>3 DEF Lifecycle!Init, AbsStatus, AbsHeld, AbsIdentity, StatusOf, HeldBy

\* The server implements WorldLifecycle: with threads, locks, stale reads,
\* failing machines and crashes, each world still lives the life promised, holds
\* its resources while it may run and within the limits, and keeps its identity.
THEOREM LifecycleImplemented == ASSUME RemoveWhileCreating = FALSE PROVE Spec => ImplementsLifecycle
<1>1. CapacityInv /\ CapacityInv' /\ [Next]_vars => [Lifecycle!Next]_Lifecycle!lifecycle
  <2> SUFFICES ASSUME CapacityInv, CapacityInv', [Next]_vars
               PROVE  Lifecycle!Next \/ UNCHANGED Lifecycle!lifecycle
    OBVIOUS
  <2>1. UNCHANGED Abs => UNCHANGED Lifecycle!lifecycle
    BY DEF Abs, AbsStatus, AbsHeld, AbsIdentity, StatusOf, HeldBy, Lifecycle!lifecycle
  <2> QED BY <2>1, MapsStep
<1> QED BY <1>1, MapsInit, CapacityHolds, PTL DEF Spec, ImplementsLifecycle, Lifecycle!Spec

=============================================================================
