----------------------------- MODULE ShellProofs -----------------------------
(***************************************************************************)
(* What Shell promises, for every number of worlds, contexts and actions:  *)
(* its type, the order of the actions, the alignment of the sessions with  *)
(* the list, that no session is started in vain, and that no listing is    *)
(* taken that this shell's own creations and deletions have overtaken.     *)
(***************************************************************************)
EXTENDS Shell, FiniteSetTheorems, TLAPS

-----------------------------------------------------------------------------
(* The inductive invariant *)

\* The ids of the waiting actions increase towards the end of the queue, and were
\* all given out.
Ordered(q) ==
    /\ \A i \in DOMAIN q.queued : q.queued[i].id \in 1..q.next
    /\ \A i, j \in DOMAIN q.queued : i < j => q.queued[i].id < q.queued[j].id
    /\ q.active # none => q.active.id \in 1..q.next
QueueOK == Ordered(queue)

\* The task of the entry that is active; while the loop waits for the reader of a
\* dropped session, the task that is left is that of an entry already acknowledged.
Busy == task # none /\ ui # "join"

Connecting == {"connect", "connecting", "connected"}
Begun == {"list", "sync", "created"} \union Connecting

\* Where the loop is and what it has in hand.
LoopOK ==
    /\ ui = "opening" => task = none /\ kept = {} /\ gone = {}
    /\ ui \in {"poll", "join"} => task # none
    /\ ui = "start" => task = none /\ queue.queued # <<>>
    /\ Busy => queue.active # none

\* What the phase of a task says about its world.
PhaseOK ==
    /\ task.pc \in {"list", "sync", "created"} => task.kind = "create"
    /\ task.pc \in Connecting => task.kind \in {"create", "reconnect"}
    /\ task.kind = "create" /\ task.pc \in Begun => task.world \in born \ (gone \union ToSet(worlds))
    /\ task.kind = "reconnect" /\ task.pc \in Connecting => task.world \in ToSet(worlds)
    /\ task.pc = "deleted" => task.world \in born \ ToSet(server)

\* Worlds that listings of the current generation must name while they exist: the
\* ones this shell has shown, and the one it is about to show.
Owed == kept \union (IF Busy /\ task.kind = "create" /\ task.pc \in Connecting
                     THEN {task.world} ELSE {})

BornOK ==
    /\ ToSet(server) \union ToSet(worlds) \union gone \union kept \subseteq born
    /\ gone \intersect ToSet(server) = {}

\* A listing in progress names what it must of the contexts already asked.
ScanOK ==
    refresh.pc # "sleep" =>
        /\ ToSet(refresh.found) \subseteq born
        /\ refresh.gen <= gen
        /\ refresh.pc = "list" <=> refresh.todo # <<>>
        /\ refresh.gen = gen =>
              /\ gone \intersect ToSet(refresh.found) = {}
              /\ \A w \in Owed \intersect ToSet(server) :
                     ContextOf[w] \in ToSet(refresh.todo) \/ w \in ToSet(refresh.found)

\* So does the listing in the channel.
SlotOK ==
    slot # none =>
        /\ ToSet(slot.found) \subseteq born
        /\ slot.gen <= gen
        /\ slot.gen = gen /\ ~slot.failed =>
              /\ gone \intersect ToSet(slot.found) = {}
              /\ Owed \intersect ToSet(server) \subseteq ToSet(slot.found)

\* What the list shows.
ShownOK ==
    /\ gone \intersect ToSet(worlds) = {}
    /\ kept \intersect ToSet(server) \subseteq ToSet(worlds)

ReaderStates == {"none", "reading", "ending"}

\* The n-th session is the one of the n-th world.
Beside(list, ws) == DOMAIN list = DOMAIN ws /\ \A i \in DOMAIN ws : list[i].world = ws[i]

\* The type, by what is assigned together.
OutsideOK == server \in Seq(Worlds) /\ born \subseteq Worlds /\ ssh \subseteq Worlds
ViewOK ==
    /\ worlds \in Seq(Worlds) /\ mode \in {"world", "control"}
    /\ active = 1 \/ active \in DOMAIN worlds
    /\ mode = "world" => active \in DOMAIN worlds
PlaysOK ==
    /\ sessions \in Seq(Sessions) /\ token \in Nat /\ reader \in [Tokens -> ReaderStates]
    /\ Beside(sessions, worlds)
EventsOK == events \in Seq({"output", "closed"} \X Tokens) /\ Len(events) <= OUTPUT_QUEUE
FetchOK == gen \in Nat /\ refresh \in Scans /\ slot \in Snapshots \union {none}
HistoryOK == kept \subseteq Worlds /\ gone \subseteq Worlds /\ happened \in 0..MaxOutside
UiOK == ui \in {"opening", "closed", "turn", "poll", "join", "start"}

Typed ==
    /\ OutsideOK /\ UiOK /\ ViewOK /\ PlaysOK /\ EventsOK /\ FetchOK /\ HistoryOK
    /\ queue \in Queues /\ task \in Tasks \union {none}

ShellInv ==
    /\ Typed /\ QueueOK /\ LoopOK
    /\ Busy => PhaseOK
    /\ BornOK /\ ScanOK /\ SlotOK /\ ShownOK

-----------------------------------------------------------------------------
(* Lists *)

LEMMA Members == ASSUME NEW s, NEW x PROVE x \in ToSet(s) <=> \E i \in DOMAIN s : s[i] = x
BY DEF ToSet

LEMMA Indexed ==
    ASSUME NEW s, NEW x \in ToSet(s)
    PROVE  IndexOf(s, x) \in DOMAIN s /\ s[IndexOf(s, x)] = x
<1>1. \E i \in DOMAIN s : s[i] = x
  BY Members
<1> QED BY <1>1 DEF IndexOf

\* What is arranged by a total order on finitely many positions is a list of what
\* is at those positions: no position is lost, since each is preceded by a different
\* number of others and there are as many numbers as positions.
LEMMA ArrangedAll ==
    ASSUME NEW S, NEW seq, NEW at, IsFiniteSet(at), NEW le,
           \A i \in at : seq[i] \in S,
           \A i \in at : <<i, i>> \in le,
           \A i, j \in at : <<i, j>> \in le \/ <<j, i>> \in le,
           \A i, j \in at : <<i, j>> \in le /\ <<j, i>> \in le => i = j,
           \A i, j, k \in at : <<i, j>> \in le /\ <<j, k>> \in le => <<i, k>> \in le
    PROVE  /\ Arranged(seq, at, le) \in Seq(S)
           /\ ToSet(Arranged(seq, at, le)) = {seq[i] : i \in at}
<1> DEFINE Down(i) == {j \in at : <<j, i>> \in le}
           n == Cardinality(at)
           rank == [i \in at |-> Cardinality(Down(i))]
           a == Arranged(seq, at, le)
<1>1. n \in Nat
  BY FS_CardinalityType
<1>2. ASSUME NEW i \in at PROVE IsFiniteSet(Down(i)) /\ Cardinality(Down(i)) \in 1..n
  <2>1. Down(i) \in SUBSET at /\ i \in Down(i)
    OBVIOUS
  <2> HIDE DEF Down
  <2>2. IsFiniteSet(Down(i)) /\ Cardinality(Down(i)) <= n
    BY <2>1, FS_Subset
  <2>3. Cardinality(Down(i)) \in Nat /\ Cardinality(Down(i)) # 0
    BY <2>1, <2>2, FS_CardinalityType, FS_EmptySet
  <2> QED BY <1>1, <2>2, <2>3
<1>3. ASSUME NEW i \in at, NEW j \in at, <<i, j>> \in le, i # j
      PROVE  Cardinality(Down(i)) # Cardinality(Down(j))
  <2>1. Down(i) \in SUBSET Down(j)
    BY <1>3
  <2>2. j \in Down(j) /\ j \notin Down(i)
    BY <1>3
  <2> HIDE DEF Down
  <2> QED BY <1>2, <2>1, <2>2, FS_Subset
<1>4. rank \in Injection(at, 1..n)
  <2>1. rank \in [at -> 1..n]
    BY <1>2
  <2>2. \A i, j \in at : rank[i] = rank[j] => i = j
    <3> HIDE DEF Down
    <3> QED BY <1>3
  <2> HIDE DEF rank
  <2> QED BY <2>1, <2>2 DEF Injection, IsInjective
<1>5. rank \in Surjection(at, 1..n)
  <2>1. IsFiniteSet(1..n) /\ Cardinality(1..n) = n
    BY <1>1, FS_Interval
  <2> HIDE DEF rank
  <2> QED BY <1>4, <2>1, FS_Injection
<1>6. \A k \in 1..n : \E i \in at : rank[i] = k
  <2> HIDE DEF rank
  <2> QED BY <1>5 DEF Surjection
<1> DEFINE Place(k) == CHOOSE i \in at : Cardinality(Down(i)) = k
<1>7. a = [k \in 1..n |-> seq[Place(k)]]
  BY DEF Arranged
<1>8. ASSUME NEW k \in 1..n PROVE Place(k) \in at /\ Cardinality(Down(Place(k))) = k
  <2>1. \E i \in at : Cardinality(Down(i)) = k
    BY <1>6
  <2> HIDE DEF Down
  <2> QED BY <2>1
<1>9. ASSUME NEW i \in at PROVE \E k \in 1..n : Place(k) = i
  <2> DEFINE k == Cardinality(Down(i))
  <2>1. k \in 1..n
    BY <1>2
  <2>2. Place(k) \in at /\ Cardinality(Down(Place(k))) = k
    BY <1>8, <2>1
  <2>3. Place(k) = i
    <3> HIDE DEF Down, Place
    <3> QED BY <1>3, <2>2
  <2> QED BY <2>1, <2>3
<1> HIDE DEF Place, a, n, Down, rank
<1>10. a \in Seq(S)
  <2>1. \A k \in 1..n : seq[Place(k)] \in S
    BY <1>8
  <2> QED BY <1>1, <1>7, <2>1
<1>11. DOMAIN a = 1..n /\ \A k \in 1..n : a[k] = seq[Place(k)]
  BY <1>7
<1>12. ToSet(a) = {seq[i] : i \in at}
  <2>1. ASSUME NEW k \in DOMAIN a PROVE a[k] \in {seq[i] : i \in at}
    BY <1>8, <1>11
  <2>2. ASSUME NEW i \in at PROVE \E k \in DOMAIN a : a[k] = seq[i]
    BY <1>9, <1>11
  <2> QED BY <2>1, <2>2 DEF ToSet
<1> QED BY <1>10, <1>12 DEF a

LEMMA FiniteDomain == ASSUME NEW S, NEW s \in Seq(S) PROVE IsFiniteSet(DOMAIN s) /\ DOMAIN s \subseteq Nat
<1>1. Len(s) \in Nat /\ DOMAIN s = 1..Len(s)
  OBVIOUS
<1>2. IsFiniteSet(1..Len(s))
  BY <1>1, FS_Interval
<1> QED BY <1>1, <1>2

LEMMA Filtered ==
    ASSUME NEW s \in Seq(Worlds), NEW keep
    PROVE  /\ Filter(s, keep) \in Seq(Worlds)
           /\ ToSet(Filter(s, keep)) = ToSet(s) \intersect keep
<1> DEFINE at == {i \in DOMAIN s : s[i] \in keep}
           le == {p \in (DOMAIN s) \X (DOMAIN s) : p[1] <= p[2]}
<1>1. DOMAIN s \subseteq Nat /\ IsFiniteSet(at)
  BY FiniteDomain, FS_Subset
<1>2. \A i \in at : s[i] \in Worlds
  OBVIOUS
<1>3. \A i, j \in at : <<i, j>> \in le <=> i <= j
  OBVIOUS
<1>4. at \subseteq Nat
  BY <1>1
<1>5. Filter(s, keep) = Arranged(s, at, le)
  BY DEF Filter
<1>6. {s[i] : i \in at} = ToSet(s) \intersect keep
  BY DEF ToSet
<1> HIDE DEF at, le
<1>7. /\ \A i \in at : <<i, i>> \in le
      /\ \A i, j \in at : <<i, j>> \in le \/ <<j, i>> \in le
      /\ \A i, j \in at : <<i, j>> \in le /\ <<j, i>> \in le => i = j
      /\ \A i, j, k \in at : <<i, j>> \in le /\ <<j, k>> \in le => <<i, k>> \in le
  BY <1>3, <1>4
<1>8. Arranged(s, at, le) \in Seq(Worlds) /\ ToSet(Arranged(s, at, le)) = {s[i] : i \in at}
  BY <1>1, <1>2, <1>7, ArrangedAll
<1> QED BY <1>5, <1>6, <1>8

LEMMA Grouped ==
    ASSUME NEW s \in Seq(Worlds)
    PROVE  /\ group_by_context(s) \in Seq(Worlds)
           /\ ToSet(group_by_context(s)) = ToSet(s)
<1> DEFINE at == DOMAIN s
           Rank(i) == IndexOf(Contexts, ContextOf[s[i]])
           le == {p \in (DOMAIN s) \X (DOMAIN s) :
                     \/ Rank(p[1]) < Rank(p[2])
                     \/ Rank(p[1]) = Rank(p[2]) /\ p[1] <= p[2]}
<1>1. at \subseteq Nat /\ IsFiniteSet(at)
  BY FiniteDomain
<1>2. \A i \in at : s[i] \in Worlds
  OBVIOUS
<1>3. DOMAIN Contexts \subseteq Nat
  BY ShellAssumption
<1>4. \A i \in at : Rank(i) \in Nat
  <2>1. \A i \in at : ContextOf[s[i]] \in ToSet(Contexts)
    BY <1>2, ShellAssumption
  <2> QED BY <1>3, <2>1, Indexed
<1>5. \A i, j \in at : <<i, j>> \in le <=> Rank(i) < Rank(j) \/ (Rank(i) = Rank(j) /\ i <= j)
  OBVIOUS
<1>6. group_by_context(s) = Arranged(s, at, le)
  BY DEF group_by_context
<1>7. {s[i] : i \in at} = ToSet(s)
  BY DEF ToSet
<1> HIDE DEF at, le, Rank
<1>8. /\ \A i \in at : <<i, i>> \in le
      /\ \A i, j \in at : <<i, j>> \in le \/ <<j, i>> \in le
      /\ \A i, j \in at : <<i, j>> \in le /\ <<j, i>> \in le => i = j
      /\ \A i, j, k \in at : <<i, j>> \in le /\ <<j, k>> \in le => <<i, k>> \in le
  BY <1>1, <1>4, <1>5
<1>9. IsFiniteSet(at)
  BY <1>1
<1>10. Arranged(s, at, le) \in Seq(Worlds) /\ ToSet(Arranged(s, at, le)) = {s[i] : i \in at}
  BY <1>2, <1>8, <1>9, ArrangedAll
<1> QED BY <1>6, <1>7, <1>10

-----------------------------------------------------------------------------
(* The list and its sessions *)

LEMMA AlignedBeside ==
    ASSUME NEW list, NEW ws \in Seq(Worlds)
    PROVE  [i \in DOMAIN list |-> list[i].world] = ws <=> Beside(list, ws)
<1>1. ws = [i \in DOMAIN ws |-> ws[i]]
  OBVIOUS
<1>2. ASSUME Beside(list, ws) PROVE [i \in DOMAIN list |-> list[i].world] = ws
  BY <1>1, <1>2 DEF Beside
<1>3. ASSUME [i \in DOMAIN list |-> list[i].world] = ws PROVE Beside(list, ws)
  BY <1>3 DEF Beside
<1> QED BY <1>2, <1>3

LEMMA TypedAligned == Typed <=> TypeOK /\ SessionsAligned
<1>1. ASSUME worlds \in Seq(Worlds)
      PROVE  [i \in DOMAIN sessions |-> sessions[i].world] = worlds <=> Beside(sessions, worlds)
  BY <1>1, AlignedBeside
<1>2. ASSUME Typed PROVE TypeOK /\ SessionsAligned
  <2>1. SessionsAligned
    BY <1>1, <1>2 DEF Typed, ViewOK, PlaysOK, SessionsAligned, Beside
  <2> QED BY <1>2, <2>1
      DEF Typed, OutsideOK, UiOK, ViewOK, PlaysOK, EventsOK, FetchOK, HistoryOK, ReaderStates, TypeOK
<1>3. ASSUME TypeOK, SessionsAligned PROVE Typed
  <2>1. Beside(sessions, worlds)
    BY <1>1, <1>3 DEF TypeOK, SessionsAligned
  <2>2. mode = "world" => active \in DOMAIN worlds
    BY <1>3, <2>1 DEF SessionsAligned, Beside
  <2> QED BY <1>3, <2>1, <2>2
      DEF Typed, OutsideOK, UiOK, ViewOK, PlaysOK, EventsOK, FetchOK, HistoryOK, ReaderStates, TypeOK
<1> QED BY <1>2, <1>3

LEMMA PlayedShown == ASSUME PlaysOK PROVE Played = ToSet(worlds)
BY DEF PlaysOK, Beside, Played, ToSet

\* A list has a session of every world it plays.
LEMMA SessionFound ==
    ASSUME NEW list \in Seq(Sessions), NEW ws \in Seq(Worlds), Beside(list, ws), NEW w \in ToSet(ws)
    PROVE  SessionIn(list, w) \in Sessions /\ SessionIn(list, w).world = w
           /\ SessionIn(list, w) \in ToSet(list)
<1>1. PICK i \in DOMAIN ws : ws[i] = w
  BY Members
<1>2. list[i] \in ToSet(list) /\ list[i].world = w
  BY <1>1 DEF Beside, ToSet
<1>3. ToSet(list) \subseteq Sessions
  BY DEF ToSet
<1> QED BY <1>2, <1>3 DEF SessionIn

LEMMA DrainKeeps ==
    ASSUME PlaysOK
    PROVE  drain_output \in Seq(Sessions) /\ Beside(drain_output, worlds)
<1> DEFINE d == drain_output
           Shut(i) == [sessions[i] EXCEPT !.open = @ /\ <<"closed", sessions[i].token>> \notin ToSet(events)]
<1>1. Beside(sessions, worlds) /\ sessions \in Seq(Sessions)
  BY DEF PlaysOK
<1>2. d = [i \in DOMAIN sessions |-> Shut(i)]
  BY DEF drain_output
<1>3. ASSUME NEW i \in DOMAIN sessions
      PROVE  Shut(i) \in Sessions /\ Shut(i).world = sessions[i].world
  <2>1. sessions[i] \in Sessions
    BY <1>1
  <2>2. (sessions[i].open /\ <<"closed", sessions[i].token>> \notin ToSet(events)) \in BOOLEAN
    OBVIOUS
  <2> QED BY <2>1, <2>2 DEF Sessions
<1> HIDE DEF d, Shut
<1>4. DOMAIN sessions = 1..Len(sessions) /\ Len(sessions) \in Nat
  BY <1>1
<1>5. d \in Seq(Sessions)
  BY <1>2, <1>3, <1>4
<1>6. Beside(d, worlds)
  BY <1>1, <1>2, <1>3 DEF Beside
<1> QED BY <1>5, <1>6 DEF d

\* The reconciled list has a session for each world of the new one, at its place.
LEMMA Reconciled ==
    ASSUME PlaysOK, ViewOK, NEW list \in Seq(Sessions), Beside(list, worlds),
           NEW new \in Seq(Worlds), reconcile(list, new)
    PROVE  /\ sessions' \in Seq(Sessions) /\ Beside(sessions', new)
           /\ token' \in Nat /\ reader' \in [Tokens -> ReaderStates]
<1> DEFINE missing == Filter(new, Worlds \ Played)
           TokenFor(w) == token + IndexOf(missing, w) - 1
           At(i) == IF new[i] \in Played THEN SessionIn(list, new[i])
                    ELSE NewSession(new[i], TokenFor(new[i]))
           stopped == {s.token : s \in {x \in ToSet(sessions) : x.world \notin ToSet(new)}}
           started == {TokenFor(w) : w \in ToSet(missing)}
<1>1. /\ sessions' = [i \in DOMAIN new |-> At(i)] /\ token' = token + Len(missing)
      /\ reader' = [t \in Tokens |->
                        CASE t \in started -> "reading"
                          [] t \in stopped /\ reader[t] = "reading" -> "ending"
                          [] OTHER -> reader[t]]
  BY DEF reconcile
<1>2. missing \in Seq(Worlds) /\ ToSet(missing) = ToSet(new) \intersect (Worlds \ Played)
  BY Filtered
<1>3. Played = ToSet(worlds)
  BY PlayedShown
<1>4. token \in Nat /\ reader \in [Tokens -> ReaderStates] /\ worlds \in Seq(Worlds)
  BY DEF PlaysOK, ViewOK
<1>5. ASSUME NEW i \in DOMAIN new PROVE At(i) \in Sessions /\ At(i).world = new[i]
  <2>1. new[i] \in Worlds /\ new[i] \in ToSet(new)
    BY DEF ToSet
  <2>2. CASE new[i] \in Played
    <3>1. SessionIn(list, new[i]) \in Sessions /\ SessionIn(list, new[i]).world = new[i]
      BY <1>3, <1>4, <2>2, SessionFound
    <3> QED BY <2>2, <3>1
  <2>3. CASE new[i] \notin Played
    <3>1. new[i] \in ToSet(missing)
      BY <1>2, <2>1, <2>3
    <3>2. IndexOf(missing, new[i]) \in DOMAIN missing
      BY <3>1, Indexed
    <3> HIDE DEF missing
    <3>3. TokenFor(new[i]) \in Nat
      BY <1>2, <1>4, <3>2
    <3> HIDE DEF TokenFor
    <3> QED BY <2>1, <2>3, <3>3 DEF NewSession, Sessions
  <2> QED BY <2>2, <2>3
<1> HIDE DEF missing, At, started, stopped
<1>6. DOMAIN new = 1..Len(new) /\ Len(new) \in Nat
  OBVIOUS
<1>7. sessions' \in Seq(Sessions)
  BY <1>1, <1>5, <1>6
<1>8. Beside(sessions', new)
  BY <1>1, <1>5 DEF Beside
<1>9. token' \in Nat
  BY <1>1, <1>2, <1>4
<1>10. reader' \in [Tokens -> ReaderStates]
  BY <1>1, <1>4 DEF ReaderStates
<1> QED BY <1>7, <1>8, <1>9, <1>10

LEMMA ViewReconciled ==
    ASSUME ViewOK, NEW new \in Seq(Worlds), reconcile_worlds(new)
    PROVE  ViewOK' /\ worlds' = new
<1>1. worlds' = new /\ mode' = IF new = <<>> THEN "control" ELSE mode
  BY DEF reconcile_worlds
<1>2. active' = 1 \/ active' \in DOMAIN new
  BY Indexed DEF reconcile_worlds
<1>3. new # <<>> => 1 \in DOMAIN new
  OBVIOUS
<1>4. mode \in {"world", "control"}
  BY DEF ViewOK
<1> QED BY <1>1, <1>2, <1>3, <1>4 DEF ViewOK

-----------------------------------------------------------------------------
(* The queue *)

Ids(q) == {e.id : e \in ToSet(q.queued)}
RunningId(q) == IF q.active = none THEN 0 ELSE q.active.id

\* What may become of the queue in one step.
QueueMove ==
    \/ queue' = queue
    \/ \E kind \in Kinds, w \in Worlds \union {none} : enqueue(kind, w)
    \/ queue' = begin_cancellation
    \/ \E i \in DOMAIN queue.queued : queue' = remove(i)
    \/ queue' = activated
    \/ queue' = acknowledged(activated, FALSE)
    \/ queue.active # none /\ \E succeeded \in BOOLEAN : queue' = acknowledged(queue, succeeded)
    \/ queue' = EmptyQueue

LEMMA IdsOf == ASSUME NEW q PROVE Ids(q) = {q.queued[i].id : i \in DOMAIN q.queued}
BY DEF Ids, ToSet

LEMMA EntryId == \A e \in Entries : e.id \in Nat
BY DEF Entries

LEMMA QueueFields ==
    ASSUME queue \in Queues
    PROVE  /\ queue.queued \in Seq(Entries) /\ queue.next \in 0..MaxActions
           /\ MaxActions \in Nat /\ queue.active \in Entries \union {none} /\ queue.cleared \in BOOLEAN
           /\ DOMAIN queue = {"queued", "active", "cleared", "next"}
           /\ queue = [queued |-> queue.queued, active |-> queue.active, cleared |-> queue.cleared,
                       next |-> queue.next]
           /\ \A i \in DOMAIN queue.queued : queue.queued[i] \in Entries /\ queue.queued[i].id \in Nat
<1>1. queue.queued \in Seq(Entries)
  BY DEF Queues
<1>2. \A i \in DOMAIN queue.queued : queue.queued[i] \in Entries
  BY <1>1
<1> QED BY <1>1, <1>2, EntryId, ShellAssumption DEF Queues

LEMMA NoneIsNoEntry == \A e \in Entries : e # none
BY ShellAssumption

\* A queue that keeps no waiting entry is in order.
LEMMA Emptied ==
    ASSUME NEW q, q.queued = <<>>, q.active # none => q.active.id \in 1..q.next
    PROVE  Ordered(q) /\ Ids(q) = {}
<1>1. DOMAIN q.queued = {}
  OBVIOUS
<1> QED BY <1>1, IdsOf DEF Ordered

LEMMA QueueEnqueue ==
    ASSUME queue \in Queues, QueueOK, NEW kind \in Kinds, NEW w \in Worlds \union {none}, enqueue(kind, w)
    PROVE  queue' \in Queues /\ Ordered(queue') /\ Order!Confirm
<1> DEFINE e == [id |-> queue.next + 1, kind |-> kind, world |-> w]
<1>1. /\ queue.queued \in Seq(Entries) /\ queue.next \in 0..MaxActions /\ queue.next < MaxActions
      /\ MaxActions \in Nat /\ queue.active \in Entries \union {none} /\ queue.cleared \in BOOLEAN
      /\ DOMAIN queue = {"queued", "active", "cleared", "next"}
  BY ShellAssumption DEF Queues, enqueue
<1>2. e \in Entries /\ e.id = queue.next + 1
  BY <1>1 DEF Entries
<1>3. queue' = [queue EXCEPT !.next = @ + 1, !.queued = Append(@, e)]
  BY DEF enqueue
<1> HIDE DEF e
<1>4. /\ queue'.next = queue.next + 1 /\ queue'.queued = Append(queue.queued, e)
      /\ queue'.active = queue.active /\ queue'.cleared = queue.cleared
      /\ queue' \in Queues
  <2>1. Append(queue.queued, e) \in Seq(Entries) /\ queue.next + 1 \in 0..MaxActions
    BY <1>1, <1>2
  <2> QED BY <1>1, <1>3, <2>1 DEF Queues
<1> DEFINE n == Len(queue.queued)
<1>5. /\ n \in Nat /\ DOMAIN queue.queued = 1..n /\ DOMAIN queue'.queued = 1..(n + 1)
      /\ \A i \in 1..n : queue'.queued[i] = queue.queued[i]
      /\ queue'.queued[n + 1] = e
  BY <1>1, <1>2, <1>4
<1> HIDE DEF n
<1>6. Ordered(queue')
  BY <1>1, <1>2, <1>4, <1>5 DEF QueueOK, Ordered
<1>7. Ids(queue') = Ids(queue) \union {queue.next + 1}
  <2>1. 1..(n + 1) = (1..n) \union {n + 1}
    BY <1>5
  <2> QED BY <1>2, <1>5, <2>1, IdsOf
<1> QED BY <1>4, <1>6, <1>7 DEF Order!Confirm, Ids

LEMMA QueueRemove ==
    ASSUME queue \in Queues, QueueOK, NEW i \in DOMAIN queue.queued, queue' = remove(i)
    PROVE  queue' \in Queues /\ Ordered(queue') /\ Order!TakeOut
<1>1. /\ queue.queued \in Seq(Entries) /\ queue.next \in 0..MaxActions
      /\ MaxActions \in Nat /\ queue.active \in Entries \union {none} /\ queue.cleared \in BOOLEAN
      /\ DOMAIN queue = {"queued", "active", "cleared", "next"}
  BY ShellAssumption DEF Queues
<1> DEFINE n == Len(queue.queued)
           left == SubSeq(queue.queued, 1, i - 1)
<1>2. n \in Nat /\ DOMAIN queue.queued = 1..n /\ i \in 1..n
  BY <1>1
<1>3. left \in Seq(Entries) /\ DOMAIN left = 1..(i - 1) /\ \A j \in 1..(i - 1) : left[j] = queue.queued[j]
  BY <1>1, <1>2
<1> HIDE DEF left, n
<1>4. /\ queue'.next = queue.next /\ queue'.queued = left
      /\ queue'.active = queue.active /\ queue' \in Queues
  BY <1>1, <1>3 DEF remove, Queues, left
<1>6. \A j \in 1..n : queue.queued[j].id \in Nat
  BY <1>2, QueueFields
<1>5. Ordered(queue')
  <2>1. \A j \in 1..(i - 1) : j \in 1..n
    BY <1>2
  <2>2. \A j \in 1..(i - 1) : queue'.queued[j].id = queue.queued[j].id
    BY <1>3, <1>4
  <2>3. /\ \A j \in 1..n : queue.queued[j].id \in 1..queue.next
        /\ \A j, k \in 1..n : j < k => queue.queued[j].id < queue.queued[k].id
        /\ queue.active # none => queue.active.id \in 1..queue.next
    BY <1>2 DEF QueueOK, Ordered
  <2> QED BY <1>3, <1>4, <2>1, <2>2, <2>3 DEF Ordered
<1>7. Ids(queue') = {x \in Ids(queue) : x < queue.queued[i].id}
  <2>1. \A j \in 1..n : j < i <=> queue.queued[j].id < queue.queued[i].id
    BY <1>2, <1>6 DEF QueueOK, Ordered
  <2>2. 1..(i - 1) = {j \in 1..n : j < i}
    BY <1>2
  <2> QED BY <1>2, <1>3, <1>4, <2>1, <2>2, IdsOf
<1>8. queue.queued[i].id \in Ids(queue)
  BY IdsOf
<1> QED BY <1>4, <1>5, <1>7, <1>8 DEF Order!TakeOut, Ids

\* Nothing waits before the oldest id.
LEMMA OldestId ==
    ASSUME queue \in Queues, QueueOK, queue.queued # <<>>
    PROVE  /\ Head(queue.queued) \in Entries /\ Head(queue.queued).id \in Ids(queue)
           /\ Head(queue.queued).id \in 1..queue.next
           /\ \A x \in Ids(queue) : Head(queue.queued).id <= x /\ x \in Nat
           /\ Tail(queue.queued) \in Seq(Entries)
           /\ {queue.queued[i + 1].id : i \in DOMAIN Tail(queue.queued)} = Ids(queue) \ {Head(queue.queued).id}
<1> DEFINE n == Len(queue.queued)
           Id(i) == queue.queued[i].id
<1>1. queue.queued \in Seq(Entries) /\ n \in Nat \ {0} /\ DOMAIN queue.queued = 1..n
  BY DEF Queues
<1>2. /\ Head(queue.queued) = queue.queued[1] /\ Tail(queue.queued) \in Seq(Entries)
      /\ DOMAIN Tail(queue.queued) = 1..(n - 1)
  BY <1>1
<1>3. \A i \in 1..n : Id(i) \in Nat
  BY <1>1, QueueFields
<1>4. /\ \A i, j \in 1..n : i < j => Id(i) < Id(j)
      /\ \A i \in 1..n : Id(i) \in 1..queue.next
  BY <1>1 DEF QueueOK, Ordered
<1>5. Ids(queue) = {Id(i) : i \in 1..n}
  BY <1>1, IdsOf
<1> HIDE DEF n, Id
<1>6. 1 \in 1..n /\ \A i \in 1..n : i # 1 => 1 < i
  BY <1>1
<1>7. \A i \in 1..n : Id(1) <= Id(i) /\ (i # 1 => Id(i) # Id(1))
  BY <1>3, <1>4, <1>6
<1>8. {Id(i + 1) : i \in 1..(n - 1)} = Ids(queue) \ {Id(1)}
  <2>1. \A i \in 1..(n - 1) : i + 1 \in 1..n /\ i + 1 # 1
    BY <1>1
  <2>2. \A i \in 1..n : i # 1 => i - 1 \in 1..(n - 1) /\ (i - 1) + 1 = i
    BY <1>1
  <2> QED BY <1>5, <1>7, <2>1, <2>2
<1>9. queue.queued[1] \in Entries
  BY <1>1, <1>6
<1>10. Head(queue.queued).id = Id(1) /\ \A i \in 1..(n - 1) : queue.queued[i + 1].id = Id(i + 1)
  BY <1>2 DEF Id
<1> QED BY <1>2, <1>3, <1>4, <1>5, <1>6, <1>7, <1>8, <1>9, <1>10

LEMMA QueueCancel ==
    ASSUME queue \in Queues, QueueOK, queue' = begin_cancellation
    PROVE  queue' \in Queues /\ Ordered(queue') /\ (Order!TakeOut \/ UNCHANGED Order!vars)
<1>1. queue' \in Queues /\ queue'.queued = <<>> /\ queue'.active = queue.active /\ queue'.next = queue.next
  <2>1. <<>> \in Seq(Entries)
    OBVIOUS
  <2>2. queue' = [queued |-> <<>>, active |-> queue.active, cleared |-> TRUE, next |-> queue.next]
    BY QueueFields DEF begin_cancellation
  <2> QED BY <2>1, <2>2, QueueFields DEF Queues
<1>2. Ordered(queue') /\ Ids(queue') = {}
  BY <1>1, Emptied DEF QueueOK, Ordered
<1>3. CASE queue.queued = <<>>
  <2>1. Ids(queue) = {}
    BY <1>3, Emptied DEF QueueOK, Ordered
  <2> QED BY <1>1, <1>2, <2>1 DEF Order!vars, Ids
<1>4. CASE queue.queued # <<>>
  <2>1. {x \in Ids(queue) : x < Head(queue.queued).id} = {} /\ Head(queue.queued).id \in Ids(queue)
    <3>1. Head(queue.queued).id \in Nat
      BY <1>4, OldestId DEF Entries
    <3> QED BY <1>4, <3>1, OldestId
  <2> QED BY <1>1, <1>2, <2>1 DEF Order!TakeOut, Ids
<1> QED BY <1>1, <1>2, <1>3, <1>4

\* The head of the queue becomes active, if nothing is and something waits.
LEMMA Activates ==
    ASSUME queue \in Queues, QueueOK, queue.active = none, queue.queued # <<>>
    PROVE  /\ activated \in Queues /\ Ordered(activated) /\ activated.active = Head(queue.queued)
           /\ activated.active # none /\ activated.cleared = FALSE /\ activated.next = queue.next
           /\ Ids(activated) = Ids(queue) \ {Head(queue.queued).id}
<1> DEFINE t == Tail(queue.queued)
<1>1. activated = [queued |-> t, active |-> Head(queue.queued), cleared |-> FALSE, next |-> queue.next]
  BY QueueFields DEF activated
<1>2. /\ t \in Seq(Entries) /\ Head(queue.queued) \in Entries /\ Head(queue.queued).id \in 1..queue.next
      /\ {queue.queued[i + 1].id : i \in DOMAIN t} = Ids(queue) \ {Head(queue.queued).id}
  BY OldestId
<1>3. \A i \in DOMAIN t : t[i] = queue.queued[i + 1] /\ i \in Nat /\ i + 1 \in DOMAIN queue.queued
  BY QueueFields
<1> HIDE DEF t
<1>4. /\ activated.queued = t /\ activated.active = Head(queue.queued)
      /\ activated.next = queue.next /\ activated.cleared = FALSE
  BY <1>1
<1>5. activated \in Queues
  BY <1>1, <1>2, QueueFields DEF Queues
<1>6. Ordered(activated)
  <2>1. \A i, j \in DOMAIN t : i < j => t[i].id < t[j].id
    BY <1>3 DEF QueueOK, Ordered
  <2>2. \A i \in DOMAIN t : t[i].id \in 1..queue.next
    BY <1>3 DEF QueueOK, Ordered
  <2> QED BY <1>2, <1>4, <2>1, <2>2 DEF Ordered
<1>7. Ids(activated) = {t[i].id : i \in DOMAIN t}
  BY <1>4, IdsOf
<1>8. {t[i].id : i \in DOMAIN t} = {queue.queued[i + 1].id : i \in DOMAIN t}
  BY <1>3
<1> QED BY <1>2, <1>4, <1>5, <1>6, <1>7, <1>8, NoneIsNoEntry

LEMMA QueueActivate ==
    ASSUME queue \in Queues, QueueOK, queue' = activated
    PROVE  queue' \in Queues /\ Ordered(queue') /\ (Order!Begin \/ UNCHANGED Order!vars)
<1>1. CASE queue.active # none \/ queue.queued = <<>>
  <2>1. queue' = queue
    BY <1>1 DEF activated
  <2> QED BY <2>1 DEF QueueOK, Order!vars
<1>2. CASE queue.active = none /\ queue.queued # <<>>
  <2>1. /\ queue' \in Queues /\ Ordered(queue') /\ queue'.active = Head(queue.queued)
        /\ queue'.active # none /\ queue'.next = queue.next
        /\ Ids(queue') = Ids(queue) \ {Head(queue.queued).id}
    BY <1>2, Activates
  <2>2. Head(queue.queued).id \in Ids(queue) /\ \A x \in Ids(queue) : Head(queue.queued).id <= x
    BY <1>2, OldestId
  <2>3. Order!Begin
    BY <1>2, <2>1, <2>2 DEF Order!Begin, Ids
  <2> QED BY <2>1, <2>3
<1> QED BY <1>1, <1>2

LEMMA Acknowledges ==
    ASSUME NEW q \in Queues, Ordered(q), NEW succeeded \in BOOLEAN
    PROVE  /\ acknowledged(q, succeeded) \in Queues /\ Ordered(acknowledged(q, succeeded))
           /\ acknowledged(q, succeeded).active = none /\ acknowledged(q, succeeded).next = q.next
           /\ Ids(acknowledged(q, succeeded)) = IF succeeded \/ q.cleared THEN Ids(q) ELSE {}
<1> DEFINE left == IF succeeded \/ q.cleared THEN q.queued ELSE <<>>
           a == acknowledged(q, succeeded)
<1>0. q.queued \in Seq(Entries) /\ q.next \in 0..MaxActions
  BY DEF Queues
<1>1. a = [queued |-> left, active |-> none, cleared |-> FALSE, next |-> q.next]
  <2>1. DOMAIN q = {"queued", "active", "cleared", "next"}
    BY DEF Queues
  <2>2. a = [q EXCEPT !.active = none, !.cleared = FALSE, !.queued = left]
    BY DEF acknowledged
  <2> HIDE DEF a, left
  <2> QED BY <2>1, <2>2
<1>2. left \in Seq(Entries)
  BY <1>0
<1> HIDE DEF left, a
<1>3. a \in Queues /\ a.queued = left /\ a.active = none /\ a.next = q.next
  BY <1>0, <1>1, <1>2 DEF Queues
<1>4. CASE succeeded \/ q.cleared
  <2>1. a.queued = q.queued
    BY <1>3, <1>4 DEF left
  <2>2. Ordered(a) /\ Ids(a) = Ids(q)
    BY <1>3, <2>1 DEF Ids, Ordered
  <2> QED BY <1>3, <1>4, <2>2 DEF a
<1>5. CASE ~(succeeded \/ q.cleared)
  <2>1. a.queued = <<>>
    BY <1>3, <1>5 DEF left
  <2>2. Ordered(a) /\ Ids(a) = {}
    BY <1>3, <2>1, Emptied
  <2> QED BY <1>3, <1>5, <2>2 DEF a
<1> QED BY <1>4, <1>5

LEMMA QueueEnd ==
    ASSUME queue \in Queues, QueueOK, queue.active # none, NEW succeeded \in BOOLEAN,
           queue' = acknowledged(queue, succeeded)
    PROVE  queue' \in Queues /\ Ordered(queue') /\ Order!End
<1>1. /\ queue' \in Queues /\ Ordered(queue') /\ queue'.active = none /\ queue'.next = queue.next
      /\ Ids(queue') \in {Ids(queue), {}}
  BY Acknowledges DEF QueueOK
<1>2. queue.active.id # 0
  BY QueueFields DEF QueueOK, Ordered
<1> QED BY <1>1, <1>2 DEF Order!End, Ids

\* A start that fails takes everything out of the queue.
LEMMA QueueStartFails ==
    ASSUME queue \in Queues, QueueOK, queue' = acknowledged(activated, FALSE)
    PROVE  queue' \in Queues /\ Ordered(queue') /\ [Order!Next]_(Order!vars)
<1>1. CASE queue.active # none \/ queue.queued = <<>>
  <2>1. activated = queue
    BY <1>1 DEF activated
  <2>2. CASE queue.active # none
    <3>1. queue' = acknowledged(queue, FALSE)
      BY <2>1
    <3>2. queue' \in Queues /\ Ordered(queue') /\ Order!End
      BY <2>2, <3>1, QueueEnd
    <3> QED BY <3>2 DEF Order!Next
  <2>3. CASE queue.active = none /\ queue.queued = <<>>
    <3>1. Ids(queue) = {}
      BY <2>3, Emptied
    <3>2. /\ queue' \in Queues /\ Ordered(queue') /\ queue'.active = none /\ queue'.next = queue.next
          /\ Ids(queue') = {}
      BY <2>1, <3>1, Acknowledges DEF QueueOK
    <3> QED BY <2>3, <3>1, <3>2 DEF Order!vars, Ids
  <2> QED BY <1>1, <2>2, <2>3
<1>2. CASE queue.active = none /\ queue.queued # <<>>
  <2>1. activated \in Queues /\ Ordered(activated) /\ activated.next = queue.next /\ activated.cleared = FALSE
    BY <1>2, Activates
  <2>2. /\ queue' \in Queues /\ Ordered(queue') /\ queue'.active = none /\ queue'.next = queue.next
        /\ Ids(queue') = {}
    BY <2>1, Acknowledges
  <2>3. {x \in Ids(queue) : x < Head(queue.queued).id} = {} /\ Head(queue.queued).id \in Ids(queue)
    <3>1. Head(queue.queued).id \in Nat
      BY <1>2, OldestId, EntryId
    <3> QED BY <1>2, <3>1, OldestId
  <2>4. Order!TakeOut
    BY <1>2, <2>2, <2>3 DEF Order!TakeOut, Ids
  <2> QED BY <2>2, <2>4 DEF Order!Next
<1> QED BY <1>1, <1>2

LEMMA QueueEmpty == EmptyQueue \in Queues /\ Ordered(EmptyQueue) /\ Ids(EmptyQueue) = {}
<1>1. EmptyQueue.queued = <<>> /\ EmptyQueue.active = none /\ EmptyQueue.next = 0
  BY DEF EmptyQueue
<1>2. <<>> \in Seq(Entries) /\ 0 \in 0..MaxActions
  BY ShellAssumption
<1>3. EmptyQueue \in Queues
  BY <1>2 DEF EmptyQueue, Queues
<1> QED BY <1>1, <1>3, Emptied

\* Whatever becomes of the queue keeps it in order and is a step of ActionOrder.
LEMMA QueueMoves ==
    ASSUME queue \in Queues, QueueOK, QueueMove
    PROVE  queue' \in Queues /\ QueueOK' /\ [Order!Next]_(Order!vars)
<1> USE DEF Order!Next
<1>0. SUFFICES queue' \in Queues /\ Ordered(queue') /\ [Order!Next]_(Order!vars)
  BY DEF QueueOK, Ordered
<1>1. CASE queue' = queue
  BY <1>1 DEF QueueOK, Order!vars
<1>2. CASE \E kind \in Kinds, w \in Worlds \union {none} : enqueue(kind, w)
  BY <1>2, QueueEnqueue
<1>3. CASE queue' = begin_cancellation
  BY <1>3, QueueCancel
<1>4. CASE \E i \in DOMAIN queue.queued : queue' = remove(i)
  BY <1>4, QueueRemove
<1>5. CASE queue' = activated
  BY <1>5, QueueActivate
<1>6. CASE queue' = acknowledged(activated, FALSE)
  BY <1>6, QueueStartFails
<1>7. CASE queue.active # none /\ \E succeeded \in BOOLEAN : queue' = acknowledged(queue, succeeded)
  BY <1>7, QueueEnd
<1>8. CASE queue' = EmptyQueue
  <2>1. Order!Close
    BY <1>8, QueueEmpty DEF Order!Close, Ids, EmptyQueue
  <2> QED BY <1>8, <2>1, QueueEmpty
<1> QED BY <1>1, <1>2, <1>3, <1>4, <1>5, <1>6, <1>7, <1>8 DEF QueueMove

-----------------------------------------------------------------------------
(* Steps: the queue *)

LEMMA QueueStep == ASSUME Typed, Next PROVE QueueMove
<1>1. CASE run \/ turn \/ Joined \/ Worker \/ Refresh \/ OtherClient \/ Closed
  <2>1. UNCHANGED queue
    BY <1>1 DEF run, turn, Joined, Worker, Refresh, refresh_begin, refresh_list, refresh_sync,
                refresh_failed, OtherClient, Closed, vars
  <2> QED BY <2>1 DEF QueueMove
<1>2. CASE \E t \in Tokens : SessionEnds(t) \/ read_output(t)
  <2>1. UNCHANGED queue
    BY <1>2 DEF SessionEnds, read_output
  <2> QED BY <2>1 DEF QueueMove
<1>3. CASE Quit
  BY <1>3 DEF Quit, QueueMove
<1>4. CASE start_next
  BY <1>4 DEF start_next, QueueMove
<1>5. CASE poll
  <2>1. queue.active # none
    BY <1>5 DEF poll, is_active
  <2>2. CASE CapacityAsked \/ Created \/ NoNews
    BY <2>1, <2>2 DEF CapacityAsked, Created, NoNews, QueueMove
  <2>3. CASE Failed \/ Deleted
    BY <2>1, <2>3 DEF Failed, Deleted, QueueMove
  <2>4. CASE Added
    <3>1. queue' = acknowledged(queue, task.world \notin Played)
      BY <2>4 DEF Added
    <3>2. (task.world \notin Played) \in BOOLEAN
      OBVIOUS
    <3> QED BY <2>1, <3>1, <3>2 DEF QueueMove
  <2>5. CASE Reconnected
    <3>1. queue' = acknowledged(queue, TRUE) \/ queue' = acknowledged(queue, FALSE)
      BY <2>5 DEF Reconnected
    <3> QED BY <2>1, <3>1 DEF QueueMove
  <2>6. CASE Focused
    <3>1. PICK succeeded \in BOOLEAN : queue' = acknowledged(queue, succeeded)
      <4> DEFINE ok == /\ pane_route(task.world)
                       /\ is_open(task.world)
                       /\ SessionOf(task.world).token = task.token
      <4>1. queue' = acknowledged(queue, ok)
        BY <2>6 DEF Focused
      <4>2. ok \in BOOLEAN
        OBVIOUS
      <4> HIDE DEF ok
      <4> QED BY <4>1, <4>2
    <3> QED BY <2>1, <3>1 DEF QueueMove
  <2> QED BY <1>5, <2>2, <2>3, <2>4, <2>5, <2>6 DEF poll
<1>6. CASE dispatch_event
  <2>1. CASE KeyReconnect
    <3>1. worlds[active] \in Worlds
      BY <2>1 DEF KeyReconnect, Typed, ViewOK
    <3> QED BY <2>1, <3>1 DEF KeyReconnect, QueueMove, Kinds
  <2>2. CASE Navigate \/ AnswerCapacity \/ RemoveWaiting
    BY <2>2 DEF Navigate, AnswerCapacity, RemoveWaiting, QueueMove
  <2>3. CASE Confirm
    <3>1. \E kind \in {"create", "open", "delete"}, w \in born \union {none} : enqueue(kind, w)
      BY <2>3 DEF Confirm
    <3>2. born \subseteq Worlds /\ {"create", "open", "delete"} \subseteq Kinds
      BY DEF Typed, OutsideOK, Kinds
    <3> QED BY <3>1, <3>2 DEF QueueMove
  <2> QED BY <1>6, <2>1, <2>2, <2>3 DEF dispatch_event
<1> QED BY <1>1, <1>2, <1>3, <1>4, <1>5, <1>6 DEF Next, Loop

-----------------------------------------------------------------------------
(* Steps: the type *)

\* The worlds of the servers stay, one is created, or one is removed.
OutsideMove ==
    \/ UNCHANGED outside
    \/ \E w \in Worlds \ born : server' = Append(server, w) /\ born' = born \union {w}
    \/ \E w \in ToSet(server) : server' = Filter(server, Worlds \ {w}) /\ born' = born

LEMMA OutsideStep == ASSUME Next PROVE OutsideMove
<1>1. CASE run \/ Quit \/ Loop \/ dispatch_event \/ Refresh \/ Closed
  <2>1. UNCHANGED outside
    BY <1>1 DEF run, Quit, Loop, turn, poll, Joined, start_next, dispatch_event, Refresh, refresh_begin,
                refresh_list, refresh_sync, refresh_failed, Closed, vars
  <2> QED BY <2>1 DEF OutsideMove
<1>2. CASE \E t \in Tokens : SessionEnds(t) \/ read_output(t)
  <2>1. UNCHANGED outside
    BY <1>2 DEF SessionEnds, read_output
  <2> QED BY <2>1 DEF OutsideMove
<1>3. CASE OtherClient
  BY <1>3 DEF OtherClient, OutsideMove
<1>4. CASE Worker
  <2>1. CASE create_request
    BY <2>1 DEF create_request, OutsideMove
  <2>2. CASE delete_request
    BY <2>2 DEF delete_request, OutsideMove, outside
  <2>3. CASE create_cancelled \/ create_list \/ create_sync \/ start_world
              \/ wait_for_control_master \/ focus
    BY <2>3 DEF create_cancelled, create_list, create_sync, start_world, wait_for_control_master,
                focus, OutsideMove
  <2> QED BY <1>4, <2>1, <2>2, <2>3 DEF Worker
<1> QED BY <1>1, <1>2, <1>3, <1>4 DEF Next

LEMMA Appended ==
    ASSUME NEW S, NEW s \in Seq(S), NEW x \in S
    PROVE  Append(s, x) \in Seq(S) /\ ToSet(Append(s, x)) = ToSet(s) \union {x}
<1>1. /\ Len(s) \in Nat /\ DOMAIN s = 1..Len(s) /\ DOMAIN Append(s, x) = 1..(Len(s) + 1)
      /\ \A i \in 1..Len(s) : Append(s, x)[i] = s[i]
      /\ Append(s, x)[Len(s) + 1] = x /\ Append(s, x) \in Seq(S)
  OBVIOUS
<1>2. 1..(Len(s) + 1) = (1..Len(s)) \union {Len(s) + 1}
  BY <1>1
<1> QED BY <1>1, <1>2 DEF ToSet

LEMMA OutsideMoves ==
    ASSUME OutsideOK, OutsideMove
    PROVE  /\ server' \in Seq(Worlds) /\ born' \subseteq Worlds /\ born \subseteq born'
           /\ ToSet(server') \subseteq ToSet(server) \union (born' \ born)
           /\ ToSet(server) \subseteq born => ToSet(server') \subseteq born'
<1>1. server \in Seq(Worlds) /\ born \subseteq Worlds
  BY DEF OutsideOK
<1>2. CASE UNCHANGED outside
  BY <1>1, <1>2 DEF outside
<1>3. ASSUME NEW w \in Worlds \ born, server' = Append(server, w), born' = born \union {w}
      PROVE  /\ server' \in Seq(Worlds) /\ born' \subseteq Worlds /\ born \subseteq born'
             /\ ToSet(server') \subseteq ToSet(server) \union (born' \ born)
             /\ ToSet(server) \subseteq born => ToSet(server') \subseteq born'
  <2>1. server' \in Seq(Worlds) /\ ToSet(server') = ToSet(server) \union {w}
    BY <1>1, <1>3, Appended
  <2> QED BY <1>1, <1>3, <2>1
<1>4. ASSUME NEW w \in ToSet(server), server' = Filter(server, Worlds \ {w}), born' = born
      PROVE  /\ server' \in Seq(Worlds) /\ born' \subseteq Worlds /\ born \subseteq born'
             /\ ToSet(server') \subseteq ToSet(server) \union (born' \ born)
             /\ ToSet(server) \subseteq born => ToSet(server') \subseteq born'
  <2>1. server' \in Seq(Worlds) /\ ToSet(server') = ToSet(server) \intersect (Worlds \ {w})
    BY <1>1, <1>4, Filtered
  <2> QED BY <1>1, <1>4, <2>1
<1> QED BY <1>2, <1>3, <1>4 DEF OutsideMove

LEMMA SetIn == ASSUME NEW S, NEW s \in Seq(S) PROVE ToSet(s) \subseteq S
BY DEF ToSet

LEMMA SyncedWorlds == ASSUME Typed, Next PROVE ssh' \subseteq Worlds
<1>0. server \in Seq(Worlds) /\ ssh \subseteq Worlds /\ refresh \in Scans /\ task \in Tasks \union {none}
  BY DEF Typed, OutsideOK, FetchOK
<1>1. CASE run
  BY <1>0, <1>1, SetIn DEF run
<1>2. CASE Quit \/ Loop \/ dispatch_event \/ OtherClient \/ Closed
  BY <1>0, <1>2 DEF Quit, Loop, turn, poll, Joined, start_next, dispatch_event, OtherClient, Closed, vars
<1>3. CASE \E t \in Tokens : SessionEnds(t) \/ read_output(t)
  BY <1>0, <1>3 DEF SessionEnds, read_output
<1>4. CASE Refresh
  <2>1. CASE refresh_sync
    <3>1. refresh.found \in Seq(Worlds)
      BY <1>0 DEF Scans
    <3> QED BY <2>1, <3>1, SetIn DEF refresh_sync
  <2> QED BY <1>0, <1>4, <2>1 DEF Refresh, refresh_begin, refresh_list, refresh_failed
<1>5. CASE Worker
  <2>1. CASE create_sync
    <3>1. task.found \in Seq(Worlds)
      BY <1>0, <1>5 DEF Worker, Working, Tasks
    <3> QED BY <1>0, <2>1, <3>1, SetIn DEF create_sync
  <2>2. CASE delete_request \/ create_request \/ create_cancelled \/ create_list \/ start_world
    BY <1>0, <2>2 DEF delete_request, create_request, create_cancelled, create_list, start_world
  <2>3. CASE wait_for_control_master \/ focus
    BY <1>0, <2>3 DEF wait_for_control_master, focus
  <2> QED BY <1>5, <2>1, <2>2, <2>3 DEF Worker
<1> QED BY <1>1, <1>2, <1>3, <1>4, <1>5 DEF Next

LEMMA UiStep == ASSUME Typed, Next PROVE UiOK'
<1>0. UiOK
  BY DEF Typed
<1>1. CASE run \/ Quit \/ turn \/ poll \/ Joined \/ start_next
  BY <1>1 DEF run, Quit, turn, poll, Joined, start_next, AfterPoll, UiOK
<1>2. CASE dispatch_event \/ OtherClient \/ Closed \/ Worker
  BY <1>0, <1>2 DEF dispatch_event, OtherClient, Closed, Worker, vars, UiOK
<1>3. CASE \E t \in Tokens : SessionEnds(t) \/ read_output(t)
  BY <1>0, <1>3 DEF SessionEnds, read_output, UiOK
<1>4. CASE Refresh
  BY <1>0, <1>4 DEF Refresh, refresh_begin, refresh_list, refresh_sync, refresh_failed, UiOK
<1> QED BY <1>1, <1>2, <1>3, <1>4 DEF Next, Loop

LEMMA EventsStep == ASSUME Typed, Next PROVE EventsOK'
<1>0. EventsOK
  BY DEF Typed
<1>n. <<>> \in Seq({"output", "closed"} \X Tokens) /\ Len(<<>>) = 0 /\ OUTPUT_QUEUE \in Nat
  BY ShellAssumption
<1>1. CASE run \/ poll \/ Joined \/ start_next \/ dispatch_event \/ OtherClient \/ Closed \/ Worker
  BY <1>0, <1>1 DEF run, poll, Joined, start_next, dispatch_event, OtherClient, Closed, Worker, vars, EventsOK
<1>2. CASE Refresh
  BY <1>0, <1>2 DEF Refresh, refresh_begin, refresh_list, refresh_sync, refresh_failed, EventsOK
<1>3. CASE Quit \/ turn
  <2>1. events' = <<>>
    BY <1>3 DEF Quit, turn
  <2>2. 0 <= OUTPUT_QUEUE
    BY ShellAssumption
  <2> QED BY <1>n, <2>1, <2>2 DEF EventsOK
<1>4. ASSUME NEW t \in Tokens, SessionEnds(t) PROVE EventsOK'
  BY <1>0, <1>4 DEF SessionEnds, EventsOK
<1>5. ASSUME NEW t \in Tokens, read_output(t) PROVE EventsOK'
  <2>1. PICK e \in {"output", "closed"} \X Tokens : events' = Append(events, e)
    BY <1>5 DEF read_output
  <2> QED BY <1>0, <1>5, <1>n, <2>1 DEF read_output, Room, EventsOK
<1> QED BY <1>1, <1>2, <1>3, <1>4, <1>5 DEF Next, Loop

LEMMA NoneOfSnapshots == \A s \in Snapshots : s # none
BY ShellAssumption

LEMMA SleepingIs ==
    /\ Sleeping \in Scans /\ Sleeping.pc = "sleep"
<1>1. <<>> \in Seq(Worlds) /\ <<>> \in Seq(ToSet(Contexts))
  OBVIOUS
<1> QED BY <1>1 DEF Sleeping, Scans

LEMMA FetchStep == ASSUME Typed, ScanOK, Next PROVE FetchOK'
<1>0. FetchOK /\ server \in Seq(Worlds)
  BY DEF Typed, OutsideOK
<1>1. CASE run \/ Joined \/ start_next \/ dispatch_event \/ OtherClient \/ Closed \/ Worker
  BY <1>0, <1>1 DEF run, Joined, start_next, dispatch_event, OtherClient, Closed, Worker, vars, FetchOK, fetch
<1>2. CASE poll
  <2>1. gen' \in {gen, gen + 1} /\ UNCHANGED <<refresh, slot>>
    BY <1>2 DEF poll, Failed, CapacityAsked, Created, Added, Deleted, Reconnected, Focused, NoNews
  <2> QED BY <1>0, <2>1 DEF FetchOK
<1>3. CASE Quit \/ turn
  BY <1>0, <1>3, SleepingIs DEF Quit, turn, FetchOK
<1>4. CASE \E t \in Tokens : SessionEnds(t) \/ read_output(t)
  BY <1>0, <1>4 DEF SessionEnds, read_output, FetchOK, fetch
<1>5. CASE refresh_begin
  <2>1. Contexts \in Seq(ToSet(Contexts)) /\ <<>> \in Seq(Worlds)
    BY ShellAssumption
  <2>2. refresh' = [todo |-> Contexts, gen |-> gen, found |-> <<>>, pc |-> "list"] /\ UNCHANGED <<gen, slot>>
    BY <1>5 DEF refresh_begin
  <2>3. refresh' \in Scans
    BY <1>0, <2>1, <2>2 DEF Scans, FetchOK
  <2> QED BY <1>0, <2>2, <2>3 DEF FetchOK
<1>6. CASE refresh_list
  <2> DEFINE more == Filter(server, In(Head(refresh.todo)))
             pc == IF Len(refresh.todo) > 1 THEN "list" ELSE "sync"
  <2>1. /\ refresh \in Scans /\ refresh.todo \in Seq(ToSet(Contexts)) /\ refresh.found \in Seq(Worlds)
        /\ gen \in Nat /\ slot \in Snapshots \union {none} /\ refresh.gen \in Nat
        /\ DOMAIN refresh = {"pc", "todo", "gen", "found"}
    BY <1>0 DEF FetchOK, Scans
  <2>2. more \in Seq(Worlds)
    BY <1>0, Filtered
  <2>3. refresh' = [refresh EXCEPT !.todo = Tail(refresh.todo), !.found = refresh.found \o more, !.pc = pc]
    BY <1>6 DEF refresh_list
  <2>4. UNCHANGED <<gen, slot>>
    BY <1>6 DEF refresh_list
  <2>5. pc \in {"sleep", "list", "sync"}
    OBVIOUS
  <2> HIDE DEF more, pc
  <2>6. refresh.found \o more \in Seq(Worlds)
    BY <2>1, <2>2
  <2>7. Tail(refresh.todo) \in Seq(ToSet(Contexts))
    BY <1>6, <2>1 DEF refresh_list, ScanOK
  <2>8. refresh' \in Scans
    BY <2>1, <2>3, <2>5, <2>6, <2>7 DEF Scans
  <2> QED BY <2>1, <2>4, <2>8 DEF FetchOK
<1>7. CASE refresh_sync \/ refresh_failed
  <2>1. refresh.found \in Seq(Worlds) /\ refresh.gen \in Nat /\ gen \in Nat /\ slot \in Snapshots \union {none}
    BY <1>0 DEF FetchOK, Scans
  <2>2. group_by_context(refresh.found) \in Seq(Worlds) /\ <<>> \in Seq(Worlds)
    BY <2>1, Grouped
  <2>3. /\ [gen |-> refresh.gen, found |-> group_by_context(refresh.found), failed |-> FALSE] \in Snapshots
        /\ [gen |-> refresh.gen, found |-> <<>>, failed |-> TRUE] \in Snapshots
    BY <2>1, <2>2 DEF Snapshots
  <2> QED BY <1>7, <2>1, <2>3, SleepingIs DEF refresh_sync, refresh_failed, FetchOK
<1> QED BY <1>1, <1>2, <1>3, <1>4, <1>5, <1>6, <1>7 DEF Next, Loop, Refresh

\* A poll is about the task of the active entry.
LEMMA Polled ==
    ASSUME ShellInv, poll
    PROVE  Busy /\ PhaseOK /\ task \in Tasks /\ queue.active # none
<1>1. ui = "poll" /\ task # none /\ task \in Tasks \union {none}
  BY DEF ShellInv, Typed, LoopOK, poll
<1>2. Busy
  BY <1>1 DEF Busy
<1> QED BY <1>1, <1>2 DEF ShellInv, LoopOK

LEMMA HistoryStep == ASSUME ShellInv, Next PROVE HistoryOK'
<1>0. HistoryOK /\ born \subseteq Worlds /\ MaxOutside \in Nat
  BY ShellAssumption DEF ShellInv, Typed, OutsideOK
<1>1. CASE run \/ turn \/ Joined \/ start_next \/ dispatch_event \/ Closed \/ Worker
  BY <1>0, <1>1 DEF run, turn, Joined, start_next, dispatch_event, Closed, Worker, vars, HistoryOK, history
<1>2. CASE Refresh
  BY <1>0, <1>2 DEF Refresh, refresh_begin, refresh_list, refresh_sync, refresh_failed, HistoryOK, history
<1>3. CASE Quit
  BY <1>0, <1>3 DEF Quit, HistoryOK
<1>4. CASE OtherClient
  BY <1>0, <1>4 DEF OtherClient, Happens, HistoryOK
<1>5. CASE \E t \in Tokens : SessionEnds(t) \/ read_output(t)
  BY <1>0, <1>5 DEF SessionEnds, read_output, Happens, HistoryOK, history
<1>6. CASE poll
  <2>1. CASE Failed \/ CapacityAsked \/ Created \/ Reconnected \/ Focused \/ NoNews
    BY <1>0, <2>1 DEF Failed, CapacityAsked, Created, Reconnected, Focused, NoNews, HistoryOK, history
  <2>2. CASE Added
    <3>1. task.world \in born
      BY <1>6, <2>2, Polled DEF Added, PhaseOK, Begun, Connecting
    <3> QED BY <1>0, <2>2, <3>1 DEF Added, HistoryOK
  <2>3. CASE Deleted
    <3>1. task.world \in born
      BY <1>6, <2>3, Polled DEF Deleted, PhaseOK
    <3> QED BY <1>0, <2>3, <3>1 DEF Deleted, HistoryOK
  <2> QED BY <1>6, <2>1, <2>2, <2>3 DEF poll
<1> QED BY <1>1, <1>2, <1>3, <1>4, <1>5, <1>6 DEF Next, Loop

\* The entry that is started.
LEMMA StartEntry ==
    ASSUME ShellInv, ui = "start"
    PROVE  activated \in Queues /\ activated.active \in Entries /\ activated.active # none
<1>1. queue \in Queues /\ QueueOK /\ queue.queued # <<>>
  BY DEF ShellInv, Typed, LoopOK
<1>2. CASE queue.active # none
  <2>1. activated = queue
    BY <1>2 DEF activated
  <2> QED BY <1>1, <1>2, <2>1, QueueFields
<1>3. CASE queue.active = none
  BY <1>1, <1>3, Activates, OldestId
<1> QED BY <1>2, <1>3

LEMMA TaskFields ==
    \A t \in Tasks : /\ t.kind \in Kinds /\ t.id \in Nat /\ t.pc \in Phases /\ t.world \in Worlds \union {none}
                     /\ t.token \in Nat /\ t.asked \in Nat /\ t.found \in Seq(Worlds) /\ t # none
<1>1. \A t \in Tasks : t # none
  BY ShellAssumption
<1> QED BY <1>1 DEF Tasks

LEMMA TaskGoes ==
    ASSUME task \in Tasks, NEW pc \in Phases
    PROVE  /\ [task EXCEPT !.pc = pc] \in Tasks
           /\ \A t \in Nat : [task EXCEPT !.token = t] \in Tasks
BY DEF Tasks

LEMMA PhaseNames ==
    /\ "asking" \in Phases /\ "connect" \in Phases /\ "request" \in Phases /\ "cancelled" \in Phases
    /\ "list" \in Phases /\ "failed" \in Phases /\ "sync" \in Phases /\ "created" \in Phases
    /\ "connecting" \in Phases /\ "connected" \in Phases /\ "deleted" \in Phases /\ "focused" \in Phases
    /\ "focus" \in Phases /\ "capacity" \in Phases
BY DEF Phases

\* The reading of one more context for a new world.
LEMMA ListedTask ==
    ASSUME Typed, Worker, create_list
    PROVE  \/ Goes("failed")
           \/ \E n \in Nat, pc \in {"list", "sync"}, found \in Seq(Worlds) :
                 task' = [task EXCEPT !.asked = n, !.found = found, !.pc = pc]
<1> DEFINE more == Filter(server, In(Contexts[task.asked + 1]))
           pc == IF task.asked + 1 < Len(Contexts) THEN "list" ELSE "sync"
<1>1. task.asked \in Nat /\ task.found \in Seq(Worlds) /\ server \in Seq(Worlds)
  BY TaskFields DEF Typed, OutsideOK, Worker, Working
<1>2. more \in Seq(Worlds)
  BY <1>1, Filtered
<1>3. \/ Goes("failed")
      \/ task' = [task EXCEPT !.asked = task.asked + 1, !.found = task.found \o more, !.pc = pc]
  BY DEF create_list
<1>4. pc \in {"list", "sync"}
  OBVIOUS
<1> HIDE DEF more, pc
<1>5. task.asked + 1 \in Nat /\ task.found \o more \in Seq(Worlds)
  BY <1>1, <1>2
<1> QED BY <1>3, <1>4, <1>5

\* The worker never drops its task.
LEMMA WorkerTask == ASSUME Typed, Worker PROVE task' \in Tasks
<1>0. task \in Tasks /\ server \in Seq(Worlds)
  BY DEF Typed, OutsideOK, Worker, Working
<1>1. \A pc \in Phases : Goes(pc) => task' \in Tasks
  BY <1>0, TaskGoes DEF Goes
<1>2. CASE create_request
  <2>1. (\E pc \in Phases : Goes(pc)) \/ \E w \in Worlds : task' = [task EXCEPT !.pc = "list", !.world = w]
    BY <1>2, PhaseNames DEF create_request
  <2> QED BY <1>0, <1>1, <2>1, PhaseNames DEF Tasks
<1>3. CASE create_cancelled \/ delete_request \/ focus \/ start_world \/ wait_for_control_master
  <2>1. \E pc \in Phases : Goes(pc)
    BY <1>3, PhaseNames DEF create_cancelled, delete_request, focus, start_world, wait_for_control_master
  <2> QED BY <1>1, <2>1
<1>4. CASE create_list
  <2>1. CASE Goes("failed")
    BY <1>1, <2>1, PhaseNames
  <2>2. ASSUME NEW n \in Nat, NEW pc \in {"list", "sync"}, NEW found \in Seq(Worlds),
               task' = [task EXCEPT !.asked = n, !.found = found, !.pc = pc]
        PROVE  task' \in Tasks
    <3>1. pc \in Phases
      BY <2>2, PhaseNames
    <3> QED BY <1>0, <2>2, <3>1 DEF Tasks
  <2> QED BY <1>4, <2>1, <2>2, ListedTask
<1>5. CASE create_sync
  <2>1. <<>> \in Seq(Worlds)
    OBVIOUS
  <2>2. CASE Goes("failed")
    BY <1>1, <2>2, PhaseNames
  <2>3. CASE task' = [task EXCEPT !.pc = "created", !.asked = 0, !.found = <<>>]
    BY <1>0, <2>1, <2>3, PhaseNames DEF Tasks
  <2> QED BY <1>5, <2>2, <2>3 DEF create_sync
<1> QED BY <1>2, <1>3, <1>4, <1>5 DEF Worker

LEMMA TaskStep == ASSUME ShellInv, Next PROVE task' \in Tasks \union {none}
<1>0. /\ task \in Tasks \union {none} /\ token \in Nat /\ server \in Seq(Worlds)
      /\ sessions \in Seq(Sessions) /\ worlds \in Seq(Worlds) /\ Beside(sessions, worlds) /\ PlaysOK
  BY DEF ShellInv, Typed, PlaysOK, ViewOK, OutsideOK
<1>t. \A w \in Played : SessionOf(w).token \in Nat
  <2>1. \A w \in Played : SessionOf(w) \in Sessions
    BY <1>0, PlayedShown, SessionFound DEF SessionOf
  <2> QED BY <2>1 DEF Sessions
<1>p. /\ "asking" \in Phases /\ "connect" \in Phases /\ "request" \in Phases /\ "cancelled" \in Phases
      /\ "focus" \in Phases
  BY PhaseNames
<1>1. CASE run \/ turn \/ Refresh \/ OtherClient \/ Closed
  BY <1>0, <1>1 DEF run, turn, Refresh, refresh_begin, refresh_list, refresh_sync, refresh_failed,
                    OtherClient, Closed, vars
<1>2. CASE Quit \/ Joined
  BY <1>2 DEF Quit, Joined
<1>3. CASE \E t \in Tokens : SessionEnds(t) \/ read_output(t)
  BY <1>0, <1>3 DEF SessionEnds, read_output
<1>4. CASE dispatch_event
  <2>1. CASE AnswerCapacity
    <3>1. task \in Tasks
      BY <1>0, <2>1 DEF AnswerCapacity, Asking
    <3> QED BY <1>p, <2>1, <3>1, TaskGoes DEF AnswerCapacity
  <2> QED BY <1>0, <1>4, <2>1 DEF dispatch_event, KeyReconnect, Navigate, Confirm, RemoveWaiting
<1>5. CASE poll
  <2>0. task \in Tasks
    BY <1>5, Polled
  <2>1. CASE Failed \/ Added \/ Deleted \/ Focused \/ NoNews
    BY <1>0, <2>1 DEF Failed, Added, Deleted, Focused, NoNews
  <2>2. CASE CapacityAsked \/ Created
    <3>1. \/ task' = [task EXCEPT !.pc = "asking"]
          \/ task' = [task EXCEPT !.pc = "connect", !.token = token]
          \/ task' = none
      BY <2>2 DEF CapacityAsked, Created
    <3> QED BY <1>0, <1>p, <2>0, <3>1 DEF Tasks
  <2>3. CASE Reconnected
    <3>1. task' = none \/ (task.world \in Played /\ task' = [task EXCEPT !.token = SessionOf(task.world).token])
      BY <2>3 DEF Reconnected
    <3> QED BY <1>t, <1>p, <2>0, <3>1, TaskGoes
  <2> QED BY <1>5, <2>1, <2>2, <2>3 DEF poll
<1>6. CASE start_next
  <2> DEFINE entry == activated.active
  <2>1. /\ entry.id \in Nat /\ entry.kind \in Kinds /\ entry.world \in Worlds \union {none}
        /\ ui = "start"
    <3>1. entry \in Entries /\ ui = "start"
      BY <1>6, StartEntry DEF start_next
    <3> HIDE DEF entry
    <3> QED BY <3>1 DEF Entries
  <2>2. ASSUME NEW pc \in Phases, NEW t \in Nat
        PROVE  NewTask(entry, pc, entry.world, t) \in Tasks
    <3>1. <<>> \in Seq(Worlds)
      OBVIOUS
    <3> HIDE DEF entry
    <3> QED BY <2>1, <3>1 DEF NewTask, Tasks
  <2>3. CanStart(entry) /\ entry.kind = "open" => SessionOf(entry.world).token \in Nat
    <3> HIDE DEF entry
    <3> QED BY <1>t DEF CanStart, is_open
  <2>4. \/ /\ CanStart(entry)
           /\ task' = CASE entry.kind = "open" ->
                             NewTask(entry, "focus", entry.world, SessionOf(entry.world).token)
                        [] entry.kind = "reconnect" -> NewTask(entry, "connect", entry.world, token)
                        [] OTHER -> NewTask(entry, "request", entry.world, 0)
        \/ task' = task
    BY <1>6 DEF start_next
  <2> HIDE DEF entry
  <2> QED BY <1>0, <1>p, <2>2, <2>3, <2>4
<1>7. CASE Worker
  BY <1>7, WorkerTask DEF ShellInv
<1> QED BY <1>1, <1>2, <1>3, <1>4, <1>5, <1>6, <1>7 DEF Next, Loop

LEMMA ViewSame == ASSUME ViewOK, PlaysOK, UNCHANGED <<view, plays>> PROVE ViewOK' /\ PlaysOK'
BY DEF ViewOK, PlaysOK, Beside, view, plays

LEMMA ReaderSet ==
    ASSUME reader \in [Tokens -> ReaderStates], NEW t, NEW r \in ReaderStates
    PROVE  [reader EXCEPT ![t] = r] \in [Tokens -> ReaderStates]
OBVIOUS

LEMMA ReadersOnly ==
    ASSUME ViewOK, PlaysOK, UNCHANGED <<view, sessions, token>>, reader' \in [Tokens -> ReaderStates]
    PROVE  ViewOK' /\ PlaysOK'
BY DEF ViewOK, PlaysOK, Beside, view

\* The sessions of a list, with the tokens given to them.
LEMMA SessionsFor ==
    ASSUME NEW new \in Seq(Worlds), NEW list,
           list = [i \in DOMAIN new |-> NewSession(new[i], i - 1)]
    PROVE  list \in Seq(Sessions) /\ Beside(list, new)
<1>1. DOMAIN new = 1..Len(new) /\ Len(new) \in Nat
  OBVIOUS
<1>2. ASSUME NEW i \in DOMAIN new
      PROVE  NewSession(new[i], i - 1) \in Sessions /\ NewSession(new[i], i - 1).world = new[i]
  <2>1. new[i] \in Worlds /\ i - 1 \in Nat
    BY <1>1
  <2> QED BY <2>1 DEF NewSession, Sessions
<1>3. list \in Seq(Sessions)
  BY <1>1, <1>2
<1>4. Beside(list, new)
  BY <1>2 DEF Beside
<1> QED BY <1>3, <1>4

\* What poll does to the list and to the sessions.
LEMMA ViewPolls == ASSUME ShellInv, poll PROVE ViewOK' /\ PlaysOK'
<1>0. /\ ViewOK /\ PlaysOK /\ worlds \in Seq(Worlds) /\ sessions \in Seq(Sessions)
      /\ Beside(sessions, worlds) /\ token \in Nat /\ reader \in [Tokens -> ReaderStates]
  BY DEF ShellInv, Typed, ViewOK, PlaysOK
<1>t. task \in Tasks /\ task.token \in Nat /\ PhaseOK
  BY Polled, TaskFields
<1>1. CASE Failed \/ CapacityAsked \/ NoNews
  BY <1>0, <1>1, ViewSame DEF Failed, CapacityAsked, NoNews
<1>2. CASE Created
  BY <1>0, <1>2 DEF Created, ViewOK, PlaysOK, Beside, view
<1>3. CASE Added
  <2>1. CASE task.world \notin Played
    <3>1. task.world \in Worlds
      <4>1. task.world \in born
        BY <1>3, <1>t DEF Added, PhaseOK, Begun, Connecting
      <4> QED BY <4>1 DEF ShellInv, Typed, OutsideOK
    <3> DEFINE s == NewSession(task.world, task.token)
    <3>2. s \in Sessions /\ s.world = task.world
      BY <1>t, <3>1 DEF NewSession, Sessions
    <3>3. /\ sessions' = Append(sessions, s) /\ reconcile_worlds(Append(worlds, task.world))
          /\ UNCHANGED <<token, reader>>
      BY <1>3, <2>1 DEF Added
    <3> HIDE DEF s
    <3>4. Append(worlds, task.world) \in Seq(Worlds) /\ Append(sessions, s) \in Seq(Sessions)
      BY <1>0, <3>1, <3>2
    <3>5. ViewOK' /\ worlds' = Append(worlds, task.world)
      BY <1>0, <3>3, <3>4, ViewReconciled
    <3>6. Beside(Append(sessions, s), Append(worlds, task.world))
      <4>1. Len(sessions) = Len(worlds) /\ Len(worlds) \in Nat /\ DOMAIN worlds = 1..Len(worlds)
        BY <1>0 DEF Beside
      <4>2. \A i \in 1..Len(worlds) : sessions[i].world = worlds[i]
        BY <1>0, <4>1 DEF Beside
      <4>3. /\ DOMAIN Append(worlds, task.world) = 1..(Len(worlds) + 1)
            /\ DOMAIN Append(sessions, s) = 1..(Len(worlds) + 1)
            /\ \A i \in 1..(Len(worlds) + 1) :
                  IF i = Len(worlds) + 1
                  THEN Append(worlds, task.world)[i] = task.world /\ Append(sessions, s)[i] = s
                  ELSE i \in 1..Len(worlds) /\ Append(worlds, task.world)[i] = worlds[i]
                       /\ Append(sessions, s)[i] = sessions[i]
        BY <1>0, <3>1, <3>2, <4>1
      <4> QED BY <3>2, <4>2, <4>3 DEF Beside
    <3> QED BY <1>0, <3>3, <3>4, <3>5, <3>6 DEF PlaysOK
  <2>2. CASE task.world \in Played
    <3>1. UNCHANGED <<view, plays>>
      BY <1>3, <2>2 DEF Added, view, plays
    <3> QED BY <1>0, <3>1, ViewSame
  <2> QED BY <2>1, <2>2
<1>4. CASE Deleted
  <2> DEFINE rest == Filter(worlds, Worlds \ {task.world})
  <2>1. rest \in Seq(Worlds)
    BY <1>0, Filtered
  <2>2. reconcile(sessions, rest) /\ reconcile_worlds(rest)
    BY <1>4 DEF Deleted
  <2> HIDE DEF rest
  <2>3. ViewOK' /\ worlds' = rest
    BY <1>0, <2>1, <2>2, ViewReconciled
  <2>4. /\ sessions' \in Seq(Sessions) /\ Beside(sessions', rest)
        /\ token' \in Nat /\ reader' \in [Tokens -> ReaderStates]
    BY <1>0, <2>1, <2>2, Reconciled
  <2> QED BY <2>3, <2>4 DEF PlaysOK
<1>5. CASE Reconnected
  <2>0. UNCHANGED view /\ UNCHANGED token
    BY <1>5 DEF Reconnected
  <2>1. CASE task.world \in Played
    <3> DEFINE old == SessionOf(task.world)
               s == NewSession(task.world, task.token)
    <3>1. old \in Sessions /\ old.world = task.world /\ old \in ToSet(sessions) /\ task.world \in Worlds
      <4>1. task.world \in ToSet(worlds)
        BY <1>0, <2>1, PlayedShown
      <4> QED BY <1>0, <4>1, SessionFound, SetIn DEF SessionOf
    <3>2. /\ sessions' = [sessions EXCEPT ![IndexOf(sessions, old)] = s]
          /\ reader' = reader \/ reader' = [reader EXCEPT ![old.token] = "ending"]
      BY <1>5, <2>1 DEF Reconnected
    <3>3. s \in Sessions /\ s.world = task.world
      BY <1>t, <3>1 DEF NewSession, Sessions
    <3> HIDE DEF old, s
    <3>4. IndexOf(sessions, old) \in DOMAIN sessions /\ sessions[IndexOf(sessions, old)] = old
      BY <3>1, Indexed
    <3>5. reader' \in [Tokens -> ReaderStates]
      BY <1>0, <3>2, ReaderSet DEF ReaderStates
    <3>6. sessions' \in Seq(Sessions)
      BY <1>0, <3>2, <3>3, <3>4
    <3>7. Beside(sessions', worlds)
      BY <1>0, <3>1, <3>2, <3>3, <3>4 DEF Beside
    <3> QED BY <1>0, <2>0, <3>5, <3>6, <3>7 DEF ViewOK, PlaysOK, view
  <2>2. CASE task.world \notin Played
    <3>1. UNCHANGED <<view, plays>>
      BY <1>5, <2>0, <2>2 DEF Reconnected, plays
    <3> QED BY <1>0, <3>1, ViewSame
  <2> QED BY <2>1, <2>2
<1>6. CASE Focused
  <2>1. CASE UNCHANGED <<active, mode>>
    <3>1. UNCHANGED <<view, plays>>
      BY <1>6, <2>1 DEF Focused, view
    <3> QED BY <1>0, <3>1, ViewSame
  <2>2. CASE ~UNCHANGED <<active, mode>>
    <3>1. /\ pane_route(task.world) /\ active' = IndexOf(worlds, task.world) /\ mode' = "world"
          /\ UNCHANGED <<worlds, plays>>
      BY <1>6, <2>2 DEF Focused
    <3>2. active' \in DOMAIN worlds
      BY <3>1, Indexed DEF pane_route
    <3> QED BY <1>0, <3>1, <3>2 DEF ViewOK, PlaysOK, plays
  <2> QED BY <2>1, <2>2
<1> QED BY <1>1, <1>2, <1>3, <1>4, <1>5, <1>6 DEF poll

LEMMA ViewStep == ASSUME ShellInv, Next PROVE ViewOK' /\ PlaysOK'
<1>0. /\ ViewOK /\ PlaysOK /\ worlds \in Seq(Worlds) /\ sessions \in Seq(Sessions)
      /\ Beside(sessions, worlds) /\ token \in Nat /\ reader \in [Tokens -> ReaderStates]
      /\ server \in Seq(Worlds) /\ slot \in Snapshots \union {none}
  BY DEF ShellInv, Typed, ViewOK, PlaysOK, OutsideOK, FetchOK
<1>1. CASE Joined \/ Refresh \/ OtherClient \/ Closed
  <2>1. UNCHANGED <<view, plays>>
    BY <1>1 DEF Joined, Refresh, refresh_begin, refresh_list, refresh_sync, refresh_failed,
                OtherClient, Closed, vars
  <2> QED BY <1>0, <2>1, ViewSame
<1>2. CASE run
  <2> DEFINE new == group_by_context(server)
  <2>1. new \in Seq(Worlds)
    BY <1>0, Grouped
  <2>2. /\ worlds' = new /\ sessions' = [i \in DOMAIN new |-> NewSession(new[i], i - 1)] /\ token' = Len(new)
        /\ reader' = [t \in Tokens |-> IF t < Len(new) THEN "reading" ELSE "none"]
        /\ active' = 1 /\ mode' = "control"
    BY <1>2 DEF run
  <2> HIDE DEF new
  <2>3. sessions' \in Seq(Sessions) /\ Beside(sessions', new)
    BY <2>1, <2>2, SessionsFor
  <2>4. token' \in Nat /\ reader' \in [Tokens -> ReaderStates]
    BY <2>1, <2>2 DEF ReaderStates
  <2> QED BY <2>1, <2>2, <2>3, <2>4 DEF ViewOK, PlaysOK
<1>3. CASE Quit
  <2>1. /\ worlds' = <<>> /\ sessions' = <<>> /\ token' = 0 /\ active' = 1 /\ mode' = "control"
        /\ reader' = [t \in Tokens |-> "none"]
    BY <1>3 DEF Quit
  <2>2. /\ <<>> \in Seq(Worlds) /\ <<>> \in Seq(Sessions) /\ Beside(<<>>, <<>>)
    BY DEF Beside
  <2>3. [t \in Tokens |-> "none"] \in [Tokens -> ReaderStates]
    BY DEF ReaderStates
  <2> QED BY <2>1, <2>2, <2>3 DEF ViewOK, PlaysOK
<1>4. CASE turn
  <2>1. drain_output \in Seq(Sessions) /\ Beside(drain_output, worlds)
    BY <1>0, DrainKeeps
  <2>2. CASE ~has_work /\ take_current_snapshot /\ ~slot.failed
    <3>1. slot.found \in Seq(Worlds)
      BY <1>0, <2>2 DEF take_current_snapshot, Snapshots
    <3>2. reconcile(drain_output, slot.found) /\ reconcile_worlds(slot.found)
      BY <1>4, <2>2 DEF turn
    <3>3. ViewOK' /\ worlds' = slot.found
      BY <1>0, <3>1, <3>2, ViewReconciled
    <3>4. /\ sessions' \in Seq(Sessions) /\ Beside(sessions', slot.found)
          /\ token' \in Nat /\ reader' \in [Tokens -> ReaderStates]
      BY <1>0, <2>1, <3>1, <3>2, Reconciled
    <3> QED BY <3>3, <3>4 DEF PlaysOK
  <2>3. CASE ~(~has_work /\ take_current_snapshot /\ ~slot.failed)
    <3>1. sessions' = drain_output /\ UNCHANGED <<view, token, reader>>
      BY <1>4, <2>3 DEF turn
    <3> QED BY <1>0, <2>1, <3>1 DEF ViewOK, PlaysOK, view
  <2> QED BY <2>2, <2>3
<1>5. CASE poll
  BY <1>5, ViewPolls
<1>6. CASE start_next
  <2>1. UNCHANGED <<view, sessions, reader>> /\ token' \in {token, token + 1}
    BY <1>6 DEF start_next
  <2> QED BY <1>0, <2>1 DEF ViewOK, PlaysOK, Beside, view
<1>7. CASE dispatch_event
  <2>1. UNCHANGED plays
    BY <1>7 DEF dispatch_event
  <2>2. CASE Navigate
    <3>1. UNCHANGED worlds /\ worlds # <<>> /\ mode' \in {"world", "control"}
          /\ (active' = active \/ active' \in DOMAIN worlds)
      BY <2>2 DEF Navigate
    <3>2. 1 \in DOMAIN worlds
      BY <1>0, <3>1
    <3>3. active' \in DOMAIN worlds
      BY <1>0, <3>1, <3>2 DEF ViewOK
    <3> QED BY <1>0, <2>1, <3>1, <3>3 DEF ViewOK, PlaysOK, plays
  <2>3. CASE UNCHANGED view
    BY <1>0, <2>1, <2>3, ViewSame
  <2> QED BY <1>7, <2>2, <2>3
      DEF dispatch_event, KeyReconnect, AnswerCapacity, Confirm, RemoveWaiting
<1>8. CASE Worker
  <2>1. UNCHANGED <<view, sessions, token>>
    BY <1>8 DEF Worker
  <2>2. \/ reader' = reader
        \/ \E t : \E r \in ReaderStates : reader' = [reader EXCEPT ![t] = r]
        \/ \E t : reader' = [reader EXCEPT ![t] = IF @ = "none" THEN @ ELSE "ending"]
    <3>1. CASE start_world
      <4>1. PICK r \in ReaderStates : reader' = [reader EXCEPT ![task.token] = r]
        BY <3>1 DEF start_world, ReaderStates
      <4> QED BY <4>1
    <3>2. CASE wait_for_control_master
      BY <3>2 DEF wait_for_control_master
    <3>3. CASE create_request \/ create_cancelled \/ create_list \/ create_sync \/ delete_request \/ focus
      BY <3>3 DEF create_request, create_cancelled, create_list, create_sync, delete_request, focus
    <3> QED BY <1>8, <3>1, <3>2, <3>3 DEF Worker
  <2>3. \A t : [reader EXCEPT ![t] = IF @ = "none" THEN @ ELSE "ending"] \in [Tokens -> ReaderStates]
    BY <1>0 DEF ReaderStates
  <2>4. reader' \in [Tokens -> ReaderStates]
    BY <1>0, <2>2, <2>3, ReaderSet
  <2> QED BY <1>0, <2>1, <2>4, ReadersOnly
<1>9. ASSUME NEW t \in Tokens, SessionEnds(t) \/ read_output(t) PROVE ViewOK' /\ PlaysOK'
  <2>1. UNCHANGED <<view, sessions, token>>
    BY <1>9 DEF SessionEnds, read_output
  <2>2. reader' = reader \/ \E r \in ReaderStates : reader' = [reader EXCEPT ![t] = r]
    BY <1>9 DEF SessionEnds, read_output, ReaderStates
  <2>3. reader' \in [Tokens -> ReaderStates]
    BY <1>0, <2>2, ReaderSet
  <2> QED BY <1>0, <2>1, <2>3, ReadersOnly
<1> QED BY <1>1, <1>2, <1>3, <1>4, <1>5, <1>6, <1>7, <1>8, <1>9 DEF Next, Loop

LEMMA TypedStep == ASSUME ShellInv, Next PROVE Typed' /\ QueueOK' /\ [Order!Next]_(Order!vars)
<1>1. Typed /\ ScanOK /\ QueueOK /\ OutsideOK /\ queue \in Queues
  BY DEF ShellInv, Typed
<1>2. OutsideOK'
  BY <1>1, OutsideStep, OutsideMoves, SyncedWorlds DEF OutsideOK
<1>3. UiOK' /\ EventsOK' /\ FetchOK' /\ HistoryOK'
  BY <1>1, UiStep, EventsStep, FetchStep, HistoryStep
<1>4. ViewOK' /\ PlaysOK' /\ task' \in Tasks \union {none}
  BY ViewStep, TaskStep
<1>5. queue' \in Queues /\ QueueOK' /\ [Order!Next]_(Order!vars)
  BY <1>1, QueueStep, QueueMoves
<1> QED BY <1>2, <1>3, <1>4, <1>5 DEF Typed, Queues, Tasks

-----------------------------------------------------------------------------
(* Steps: the loop and the phases of the task *)

LEMMA LoopStep == ASSUME ShellInv, Next PROVE LoopOK'
<1>0. LoopOK /\ Typed /\ queue \in Queues
  BY DEF ShellInv, Typed
<1>1. CASE Refresh \/ OtherClient \/ Closed
  <2>1. UNCHANGED <<ui, task, queue, kept, gone>>
    BY <1>1 DEF Refresh, refresh_begin, refresh_list, refresh_sync, refresh_failed, OtherClient,
                Closed, vars, history
  <2> QED BY <1>0, <2>1 DEF LoopOK, Busy
<1>2. CASE \E t \in Tokens : SessionEnds(t) \/ read_output(t)
  <2>1. UNCHANGED <<ui, task, queue, kept, gone>>
    BY <1>2 DEF SessionEnds, read_output, history
  <2> QED BY <1>0, <2>1 DEF LoopOK, Busy
<1>3. CASE run \/ Quit
  BY <1>0, <1>3 DEF run, Quit, LoopOK, Busy
<1>4. CASE turn
  <2>1. /\ ui = "turn" /\ UNCHANGED <<queue, task>>
        /\ ui' = IF task # none THEN "poll"
                 ELSE CASE task' # none /\ queue'.active = none -> "join"
                        [] task' = none /\ queue'.queued # <<>> -> "start"
                        [] OTHER -> "turn"
    BY <1>4 DEF turn, AfterPoll
  <2> QED BY <1>0, <2>1 DEF LoopOK, Busy
<1>5. CASE poll \/ Joined
  <2>1. ui' = CASE task' # none /\ queue'.active = none -> "join"
                [] task' = none /\ queue'.queued # <<>> -> "start"
                [] OTHER -> "turn"
    BY <1>5 DEF poll, Joined, AfterPoll
  <2> QED BY <2>1 DEF LoopOK, Busy
<1>6. CASE start_next
  <2>1. ui = "start" /\ ui' = "turn" /\ task = none
    BY <1>0, <1>6 DEF start_next, LoopOK
  <2>2. task' = none \/ queue' = activated
    BY <1>6, <2>1 DEF start_next
  <2>3. activated.active # none
    BY <2>1, StartEntry
  <2> QED BY <2>1, <2>2, <2>3 DEF LoopOK, Busy
<1>7. CASE dispatch_event
  <2>1. ui = "turn" /\ ui' = "turn"
    BY <1>7 DEF dispatch_event
  <2>2. task' = task \/ task # none
    BY <1>7 DEF dispatch_event, KeyReconnect, AnswerCapacity, Asking, Navigate, Confirm, RemoveWaiting
  <2>3. queue'.active = queue.active
    <3>1. \/ queue' = queue \/ (\E kind, w : enqueue(kind, w))
          \/ queue' = begin_cancellation \/ \E i : queue' = remove(i)
      BY <1>7 DEF dispatch_event, KeyReconnect, AnswerCapacity, Navigate, Confirm, RemoveWaiting
    <3> QED BY <1>0, <3>1, QueueFields DEF enqueue, begin_cancellation, remove
  <2> QED BY <1>0, <2>1, <2>2, <2>3 DEF LoopOK, Busy
<1>8. CASE Worker
  <2>1. task # none /\ ui # "join" /\ UNCHANGED <<ui, queue, kept, gone>>
    BY <1>8 DEF Worker, Working, history
  <2>2. task' # none
    BY <1>0, <1>8, WorkerTask, TaskFields
  <2> QED BY <1>0, <2>1, <2>2 DEF LoopOK, Busy
<1> QED BY <1>1, <1>2, <1>3, <1>4, <1>5, <1>6, <1>7, <1>8 DEF Next, Loop

\* What a phase says stays true while others create and remove worlds.
LEMMA PhaseSame ==
    ASSUME Typed, Busy => PhaseOK, Busy' => Busy, OutsideMove, UNCHANGED <<task, worlds, gone>>
    PROVE  (Busy => PhaseOK)'
<1>1. born \subseteq born' /\ ToSet(server') \subseteq ToSet(server) \union (born' \ born)
  BY OutsideMoves DEF Typed
<1> QED BY <1>1 DEF PhaseOK

LEMMA PhaseWorker == ASSUME ShellInv, Worker PROVE (Busy => PhaseOK)'
<1>0. /\ Busy /\ PhaseOK /\ task \in Tasks /\ UNCHANGED <<worlds, gone, ui>> /\ BornOK
      /\ DOMAIN task = {"kind", "id", "pc", "world", "token", "asked", "found"}
  BY DEF ShellInv, Typed, Worker, Working, Busy, view, history, Tasks
<1>b. /\ born \subseteq born' /\ ToSet(server') \subseteq ToSet(server) \union (born' \ born)
  BY OutsideStep, OutsideMoves DEF ShellInv, Typed, Next
<1> USE DEF Begun, Connecting
<1>1. ASSUME NEW pc, Goes(pc), pc \notin Begun, pc # "deleted" PROVE PhaseOK'
  <2>1. task'.pc = pc
    BY <1>0, <1>1 DEF Goes
  <2> QED BY <1>1, <2>1 DEF PhaseOK
<1>2. ASSUME NEW pc, task'.pc = pc, task'.kind = task.kind, task'.world = task.world,
             \/ task.pc = "list" /\ pc \in {"list", "sync"}
             \/ task.pc = "sync" /\ pc = "created"
             \/ task.pc = "connect" /\ pc = "connecting"
             \/ task.pc = "connecting" /\ pc = "connected"
      PROVE  PhaseOK'
  BY <1>0, <1>2, <1>b DEF PhaseOK
<1>g. ASSUME NEW pc, Goes(pc) PROVE task'.pc = pc /\ task'.kind = task.kind /\ task'.world = task.world
  BY <1>0, <1>g DEF Goes
<1>3. CASE create_request
  <2>1. CASE Goes("capacity") \/ Goes("failed")
    BY <1>1, <2>1
  <2>2. ASSUME NEW w \in Worlds \ born, born' = born \union {w},
               task' = [task EXCEPT !.pc = "list", !.world = w]
        PROVE  PhaseOK'
    <3>1. task'.pc = "list" /\ task'.kind = "create" /\ task'.world = w
      BY <1>0, <1>3, <2>2 DEF create_request
    <3>2. w \notin gone \union ToSet(worlds)
      BY <1>0, <2>2 DEF BornOK
    <3> QED BY <1>0, <2>2, <3>1, <3>2 DEF PhaseOK
  <2> QED BY <1>3, <2>1, <2>2 DEF create_request
<1>4. CASE create_cancelled
  BY <1>1, <1>4 DEF create_cancelled
<1>5. CASE create_list
  <2>1. CASE Goes("failed")
    BY <1>1, <2>1
  <2>2. ASSUME NEW n \in Nat, NEW pc \in {"list", "sync"}, NEW found \in Seq(Worlds),
               task' = [task EXCEPT !.asked = n, !.found = found, !.pc = pc]
        PROVE  PhaseOK'
    <3>1. task'.pc = pc /\ task'.kind = task.kind /\ task'.world = task.world
      BY <1>0, <2>2
    <3> QED BY <1>2, <1>5, <2>2, <3>1 DEF create_list
  <2> QED BY <1>5, <2>1, <2>2, ListedTask DEF ShellInv
<1>6. CASE create_sync
  <2>1. CASE Goes("failed")
    BY <1>1, <2>1
  <2>2. CASE task' = [task EXCEPT !.pc = "created", !.asked = 0, !.found = <<>>]
    <3>1. task'.pc = "created" /\ task'.kind = task.kind /\ task'.world = task.world
      BY <1>0, <2>2
    <3> QED BY <1>2, <1>6, <3>1 DEF create_sync
  <2> QED BY <1>6, <2>1, <2>2 DEF create_sync
<1>7. CASE start_world
  BY <1>2, <1>7, <1>g DEF start_world
<1>8. CASE wait_for_control_master
  <2>1. CASE Goes("failed")
    BY <1>1, <2>1
  <2>2. CASE Goes("connected")
    BY <1>2, <1>8, <1>g, <2>2 DEF wait_for_control_master
  <2> QED BY <1>8, <2>1, <2>2 DEF wait_for_control_master
<1>9. CASE delete_request
  <2>1. CASE Goes("failed")
    BY <1>1, <2>1
  <2>2. CASE /\ task.world \in ToSet(server) /\ server' = Filter(server, Worlds \ {task.world})
             /\ Goes("deleted") /\ task.kind = "delete"
    <3>1. task'.pc = "deleted" /\ task'.kind = "delete" /\ task'.world = task.world
      BY <1>g, <2>2
    <3>2. task.world \in born \ ToSet(server')
      <4>1. ToSet(server') = ToSet(server) \intersect (Worlds \ {task.world})
        BY <2>2, Filtered DEF ShellInv, Typed, OutsideOK
      <4> QED BY <1>0, <2>2, <4>1 DEF BornOK
    <3> QED BY <1>b, <3>1, <3>2 DEF PhaseOK
  <2> QED BY <1>9, <2>1, <2>2 DEF delete_request
<1>10. CASE focus
  BY <1>1, <1>10 DEF focus
<1> QED BY <1>3, <1>4, <1>5, <1>6, <1>7, <1>8, <1>9, <1>10 DEF Worker

LEMMA PhaseStep == ASSUME ShellInv, Next PROVE (Busy => PhaseOK)'
<1>0. /\ Typed /\ (Busy => PhaseOK) /\ LoopOK /\ OutsideMove
  BY OutsideStep DEF ShellInv
<1>1. CASE Refresh \/ OtherClient \/ Closed
  <2>1. UNCHANGED <<ui, task, worlds, gone>>
    BY <1>1 DEF Refresh, refresh_begin, refresh_list, refresh_sync, refresh_failed, OtherClient,
                Closed, vars, history, view
  <2> QED BY <1>0, <2>1, PhaseSame DEF Busy
<1>2. CASE \E t \in Tokens : SessionEnds(t) \/ read_output(t)
  <2>1. UNCHANGED <<ui, task, worlds, gone>>
    BY <1>2 DEF SessionEnds, read_output, history, view
  <2> QED BY <1>0, <2>1, PhaseSame DEF Busy
<1>3. CASE run \/ Quit \/ Joined
  <2>1. task' = none
    BY <1>0, <1>3 DEF run, Quit, Joined, LoopOK
  <2> QED BY <2>1 DEF Busy
<1>4. CASE turn
  <2>1. ui = "turn" /\ UNCHANGED <<task, gone>>
    BY <1>4 DEF turn, history
  <2>2. CASE task = none
    BY <2>1, <2>2 DEF Busy
  <2>3. CASE task # none
    <3>1. Busy /\ has_work
      BY <1>0, <2>1, <2>3 DEF Busy, LoopOK, has_work
    <3>2. UNCHANGED worlds
      BY <1>4, <3>1 DEF turn, view
    <3> QED BY <1>0, <2>1, <3>1, <3>2, PhaseSame
  <2> QED BY <2>2, <2>3
<1>5. CASE poll
  <2>0. Busy /\ PhaseOK /\ task \in Tasks
    BY <1>5, Polled
  <2>1. CASE Failed \/ Added \/ Deleted \/ Focused
    <3>1. task' = none
      BY <2>1 DEF Failed, Added, Deleted, Focused
    <3> QED BY <3>1 DEF Busy
  <2>2. CASE NoNews
    <3>1. UNCHANGED <<task, worlds, gone>>
      BY <2>2 DEF NoNews, view, history
    <3> QED BY <1>0, <2>0, <3>1, PhaseSame
  <2>3. CASE CapacityAsked
    <3>1. task'.pc = "asking"
      BY <2>0, <2>3 DEF CapacityAsked, Tasks
    <3> QED BY <3>1 DEF PhaseOK, Begun, Connecting
  <2>4. CASE Created /\ task' = none
    BY <2>4 DEF Busy
  <2>c. CASE Created /\ task' # none
    <3>1. /\ task'.pc = "connect" /\ task'.kind = task.kind /\ task'.world = task.world
          /\ task.pc = "created" /\ UNCHANGED <<worlds, gone>>
      BY <2>0, <2>c DEF Created, Tasks, view, history
    <3>2. UNCHANGED born
      BY <1>5 DEF poll, outside
    <3> QED BY <2>0, <3>1, <3>2 DEF PhaseOK, Begun, Connecting
  <2>5. CASE Reconnected
    <3>1. queue'.active = none
      <4>1. PICK ok \in BOOLEAN : queue' = acknowledged(queue, ok)
        BY <2>5 DEF Reconnected
      <4> QED BY <4>1, Acknowledges DEF ShellInv, Typed, QueueOK
    <3>2. ui' = CASE task' # none /\ queue'.active = none -> "join"
                  [] task' = none /\ queue'.queued # <<>> -> "start"
                  [] OTHER -> "turn"
      BY <1>5 DEF poll, AfterPoll
    <3> QED BY <3>1, <3>2 DEF Busy
  <2> QED BY <1>5, <2>1, <2>2, <2>3, <2>4, <2>c, <2>5 DEF poll
<1>6. CASE start_next
  <2> DEFINE entry == activated.active
  <2>1. ui = "start" /\ task = none /\ UNCHANGED worlds
    BY <1>0, <1>6 DEF start_next, LoopOK, view
  <2>2. \/ task' = none
        \/ /\ CanStart(entry)
           /\ \/ \E t : entry.kind = "open" /\ task' = NewTask(entry, "focus", entry.world, t)
              \/ \E t : entry.kind = "reconnect" /\ task' = NewTask(entry, "connect", entry.world, t)
              \/ \E t : task' = NewTask(entry, "request", entry.world, t)
    BY <1>6, <2>1 DEF start_next
  <2> HIDE DEF entry
  <2>3. CASE task' = none
    BY <2>3 DEF Busy
  <2>4. CASE \E t : task' = NewTask(entry, "focus", entry.world, t) \/ task' = NewTask(entry, "request", entry.world, t)
    <3>1. task'.pc \in {"focus", "request"}
      BY <2>4 DEF NewTask
    <3> QED BY <3>1 DEF PhaseOK, Begun, Connecting
  <2>5. ASSUME NEW t, CanStart(entry), entry.kind = "reconnect", task' = NewTask(entry, "connect", entry.world, t)
        PROVE  PhaseOK'
    <3>1. task'.pc = "connect" /\ task'.kind = "reconnect" /\ task'.world = entry.world
      BY <2>5 DEF NewTask
    <3>2. entry.world \in ToSet(worlds)
      BY <2>5 DEF CanStart
    <3> QED BY <2>1, <3>1, <3>2 DEF PhaseOK, Begun, Connecting
  <2> QED BY <2>2, <2>3, <2>4, <2>5
<1>7. CASE dispatch_event
  <2>0. ui = "turn" /\ UNCHANGED <<ui, worlds, gone>>
    BY <1>7 DEF dispatch_event, KeyReconnect, AnswerCapacity, Navigate, Confirm, RemoveWaiting, history, view
  <2>1. CASE AnswerCapacity
    <3>1. task \in Tasks
      BY <1>0, <2>1 DEF Typed, AnswerCapacity, Asking
    <3>2. task'.pc \in {"request", "cancelled"}
      BY <2>1, <3>1 DEF AnswerCapacity, Tasks
    <3> QED BY <3>2 DEF PhaseOK, Begun, Connecting
  <2>2. CASE UNCHANGED task
    BY <1>0, <2>0, <2>2, PhaseSame DEF Busy
  <2> QED BY <1>7, <2>1, <2>2 DEF dispatch_event, KeyReconnect, Navigate, Confirm, RemoveWaiting
<1>8. CASE Worker
  BY <1>8, PhaseWorker
<1> QED BY <1>1, <1>2, <1>3, <1>4, <1>5, <1>6, <1>7, <1>8 DEF Next, Loop

-----------------------------------------------------------------------------
(* Steps: the listings *)

ListingsOK == BornOK /\ ScanOK /\ SlotOK /\ ShownOK

LEMMA OwedBorn == ASSUME ShellInv PROVE Owed \subseteq born
BY DEF ShellInv, BornOK, Owed, PhaseOK, Begun

\* Steps that take no listing and show or hide nothing.
LEMMA ListingsSame ==
    ASSUME ShellInv, OutsideMove, Owed' \subseteq Owed,
           UNCHANGED <<worlds, kept, gone, gen, refresh, slot>>
    PROVE  ListingsOK'
<1>1. /\ born \subseteq born' /\ ToSet(server') \subseteq ToSet(server) \union (born' \ born)
      /\ ToSet(server') \subseteq born'
  BY OutsideMoves DEF ShellInv, Typed, BornOK
<1>2. BornOK /\ ScanOK /\ SlotOK /\ ShownOK
  BY DEF ShellInv
<1>3. Owed \intersect ToSet(server') \subseteq ToSet(server) /\ gone \subseteq born /\ kept \subseteq born
  BY <1>1, <1>2, OwedBorn DEF BornOK
<1>4. BornOK'
  BY <1>1, <1>2 DEF BornOK
<1>5. ShownOK'
  BY <1>1, <1>2, <1>3 DEF ShownOK
<1>6. SlotOK'
  BY <1>1, <1>2, <1>3 DEF SlotOK
<1>7. ScanOK'
  BY <1>1, <1>2, <1>3 DEF ScanOK
<1> QED BY <1>4, <1>5, <1>6, <1>7 DEF ListingsOK

\* The debt of a task that is left alone, ends, or is not a creation being connected.
LEMMA OwedLess ==
    ASSUME kept' \subseteq kept,
           \/ task' = none
           \/ task' # none /\ task'.pc \notin Connecting
           \/ task' # none /\ task'.kind # "create"
           \/ Busy /\ task.pc \in Connecting /\ task'.kind = task.kind /\ task'.world = task.world
           \/ UNCHANGED <<task, ui>>
           \/ Busy /\ UNCHANGED task
    PROVE  Owed' \subseteq Owed
BY DEF Owed, Busy

LEMMA OwedWorker == ASSUME ShellInv, Worker PROVE Owed' \subseteq Owed
<1>0. /\ Busy /\ task \in Tasks /\ UNCHANGED kept
      /\ DOMAIN task = {"kind", "id", "pc", "world", "token", "asked", "found"}
  BY DEF ShellInv, Typed, Worker, Working, Busy, history, Tasks
<1>1. task' \in Tasks /\ task' # none
  BY WorkerTask, TaskFields DEF ShellInv
<1>g. ASSUME NEW pc, Goes(pc) PROVE task'.pc = pc /\ task'.kind = task.kind /\ task'.world = task.world
  BY <1>0, <1>g DEF Goes
<1>l. CASE create_list
  <2>1. task'.pc \in {"failed", "list", "sync"}
    BY <1>0, <1>g, <1>l, ListedTask DEF ShellInv
  <2>2. task'.pc \notin Connecting
    BY <2>1 DEF Connecting
  <2> QED BY <1>0, <1>1, <2>2, OwedLess
<1>2. CASE create_request \/ create_cancelled \/ create_sync \/ delete_request \/ focus
  <2>1. \/ \E pc \in Phases \ Connecting : Goes(pc)
        \/ \E w : task' = [task EXCEPT !.pc = "list", !.world = w]
        \/ task' = [task EXCEPT !.pc = "created", !.asked = 0, !.found = <<>>]
    BY <1>2 DEF create_request, create_cancelled, create_sync, delete_request, focus,
                Phases, Connecting
  <2>2. task'.pc \notin Connecting
    BY <1>0, <1>g, <2>1 DEF Connecting
  <2> QED BY <1>0, <1>1, <2>2, OwedLess
<1>3. CASE start_world \/ wait_for_control_master
  <2>1. task.pc \in Connecting /\ \E pc : Goes(pc)
    BY <1>3 DEF start_world, wait_for_control_master, Connecting
  <2> QED BY <1>0, <1>g, <2>1, OwedLess
<1> QED BY <1>l, <1>2, <1>3 DEF Worker

\* Steps of the loop and of others that neither take a listing nor change the list.
LEMMA ListingsRest ==
    ASSUME ShellInv, Next,
           \/ start_next \/ Joined \/ dispatch_event \/ Worker \/ OtherClient \/ Closed
           \/ \E t \in Tokens : SessionEnds(t) \/ read_output(t)
    PROVE  ListingsOK'
<1>0. OutsideMove
  BY OutsideStep
<1>1. CASE start_next
  <2>1. UNCHANGED <<worlds, kept, gone, gen, refresh, slot>> /\ task = none
    BY <1>1 DEF start_next, view, fetch, history, ShellInv, LoopOK
  <2>2. \/ task' = none
        \/ \E t : task' = NewTask(activated.active, "focus", activated.active.world, t)
        \/ \E t : task' = NewTask(activated.active, "request", activated.active.world, t)
        \/ activated.active.kind = "reconnect"
           /\ \E t : task' = NewTask(activated.active, "connect", activated.active.world, t)
    BY <1>1, <2>1 DEF start_next
  <2>3. task' = none \/ task'.pc \notin Connecting \/ task'.kind # "create"
    BY <2>2 DEF NewTask, Connecting
  <2>4. Owed' \subseteq Owed
    BY <2>1, <2>3, OwedLess
  <2> QED BY <1>0, <2>1, <2>4, ListingsSame
<1>2. CASE Joined
  <2>1. UNCHANGED <<worlds, kept, gone, gen, refresh, slot>> /\ task' = none
    BY <1>2 DEF Joined, view, fetch, history
  <2> QED BY <1>0, <2>1, OwedLess, ListingsSame
<1>3. CASE dispatch_event
  <2>1. UNCHANGED <<ui, worlds, kept, gone, gen, refresh, slot>>
    BY <1>3 DEF dispatch_event, KeyReconnect, AnswerCapacity, Navigate, Confirm, RemoveWaiting,
                view, fetch, history
  <2>2. CASE UNCHANGED task
    BY <1>0, <2>1, <2>2, OwedLess, ListingsSame
  <2>3. CASE AnswerCapacity
    <3>1. task \in Tasks
      BY <2>3 DEF ShellInv, Typed, AnswerCapacity, Asking
    <3>2. task'.pc \in {"request", "cancelled"}
      BY <2>3, <3>1 DEF AnswerCapacity, Tasks
    <3>3. Owed' \subseteq Owed
      BY <2>1, <3>2, OwedLess DEF Connecting
    <3> QED BY <1>0, <2>1, <3>3, ListingsSame
  <2> QED BY <1>3, <2>2, <2>3 DEF dispatch_event, KeyReconnect, Navigate, Confirm, RemoveWaiting
<1>4. CASE Worker
  <2>1. UNCHANGED <<worlds, kept, gone, gen, refresh, slot>>
    BY <1>4 DEF Worker, view, fetch, history
  <2> QED BY <1>0, <1>4, <2>1, OwedWorker, ListingsSame
<1>5. CASE OtherClient \/ Closed \/ \E t \in Tokens : SessionEnds(t) \/ read_output(t)
  <2>1. UNCHANGED <<ui, task, worlds, kept, gone, gen, refresh, slot>>
    BY <1>5 DEF OtherClient, Closed, SessionEnds, read_output, vars, view, fetch, history
  <2> QED BY <1>0, <2>1, OwedLess, ListingsSame
<1> QED BY <1>1, <1>2, <1>3, <1>4, <1>5

LEMMA ListingsPolls == ASSUME ShellInv, Next, poll PROVE ListingsOK'
<1>0. /\ Busy /\ PhaseOK /\ task \in Tasks /\ OutsideMove /\ UNCHANGED <<outside, refresh, slot>>
      /\ BornOK /\ ScanOK /\ SlotOK /\ ShownOK /\ gen \in Nat /\ FetchOK /\ ViewOK /\ worlds \in Seq(Worlds)
  BY Polled, OutsideStep DEF ShellInv, Typed, FetchOK, ViewOK, poll
<1>s. server' = server /\ born' = born /\ refresh' = refresh /\ slot' = slot
  BY <1>0 DEF outside
<1>g. /\ refresh.gen \in Nat /\ (slot # none => slot.gen \in Nat)
  BY <1>0 DEF FetchOK, Scans, Snapshots
<1>1. CASE Failed \/ CapacityAsked \/ Reconnected \/ Focused \/ NoNews
  <2>1. UNCHANGED <<worlds, kept, gone, gen>>
    BY <1>1 DEF Failed, CapacityAsked, Reconnected, Focused, NoNews, view, history
  <2>2. \/ task' = none \/ UNCHANGED task \/ task' = [task EXCEPT !.pc = "asking"]
        \/ \E t : task.kind = "reconnect" /\ task' = [task EXCEPT !.token = t]
    BY <1>1 DEF Failed, CapacityAsked, Reconnected, Focused, NoNews
  <2>3. task' = none \/ UNCHANGED task \/ task'.pc \notin Connecting \/ task'.kind # "create"
    BY <1>0, <2>2 DEF Connecting, Tasks
  <2>4. Owed' \subseteq Owed
    BY <1>0, <2>1, <2>3, OwedLess
  <2> QED BY <1>0, <1>s, <2>1, <2>4, ListingsSame
<1>2. CASE Created
  <2>1. gen' = gen + 1 /\ UNCHANGED <<worlds, kept, gone>>
    BY <1>2 DEF Created, view, history
  <2>2. refresh.gen <= gen => refresh.gen # gen' /\ refresh.gen <= gen'
    BY <1>0, <1>g, <2>1
  <2>3. slot # none /\ slot.gen <= gen => slot.gen # gen' /\ slot.gen <= gen'
    BY <1>0, <1>g, <2>1
  <2>4. BornOK' /\ ShownOK'
    BY <1>0, <1>s, <2>1 DEF BornOK, ShownOK
  <2>5. ScanOK'
    BY <1>0, <1>s, <2>1, <2>2 DEF ScanOK
  <2>6. SlotOK'
    BY <1>0, <1>s, <2>1, <2>3 DEF SlotOK
  <2> QED BY <2>4, <2>5, <2>6 DEF ListingsOK
<1>3. CASE Added
  <2>1. gen' = gen /\ gone' = gone /\ task' = none /\ task.kind = "create" /\ task.pc = "connected"
    BY <1>3 DEF Added
  <2>2. task.world \in born \ (gone \union ToSet(worlds)) /\ task.world \in Owed
    BY <1>0, <2>1 DEF PhaseOK, Begun, Connecting, Owed
  <2>3. task.world \in Worlds
    BY <2>2 DEF ShellInv, Typed, OutsideOK
  <2>4. task.world \notin Played
    BY <2>2, PlayedShown DEF ShellInv, Typed
  <2>5. kept' = kept \union {task.world} /\ worlds' = Append(worlds, task.world)
    BY <1>3, <2>4 DEF Added, reconcile_worlds
  <2>6. ToSet(worlds') = ToSet(worlds) \union {task.world}
    BY <1>0, <2>3, <2>5, Appended
  <2>7. Owed' \subseteq Owed
    BY <2>1, <2>2, <2>5 DEF Owed, Busy
  <2>8. BornOK' /\ ShownOK'
    BY <1>0, <1>s, <2>1, <2>2, <2>5, <2>6 DEF BornOK, ShownOK
  <2>9. ScanOK'
    BY <1>0, <1>s, <2>1, <2>7 DEF ScanOK
  <2>10. SlotOK'
    BY <1>0, <1>s, <2>1, <2>7 DEF SlotOK
  <2> QED BY <2>8, <2>9, <2>10 DEF ListingsOK
<1>4. CASE Deleted
  <2>1. gen' = gen + 1 /\ kept' = kept /\ gone' = gone \union {task.world} /\ task.pc = "deleted"
        /\ worlds' = Filter(worlds, Worlds \ {task.world})
    BY <1>4 DEF Deleted, reconcile_worlds
  <2>2. task.world \in born \ ToSet(server)
    BY <1>0, <2>1 DEF PhaseOK
  <2>3. ToSet(worlds') = ToSet(worlds) \intersect (Worlds \ {task.world}) /\ ToSet(worlds) \subseteq Worlds
    BY <1>0, <2>1, Filtered, SetIn
  <2>4. refresh.gen <= gen => refresh.gen # gen' /\ refresh.gen <= gen'
    BY <1>0, <1>g, <2>1
  <2>5. slot # none /\ slot.gen <= gen => slot.gen # gen' /\ slot.gen <= gen'
    BY <1>0, <1>g, <2>1
  <2>6. BornOK' /\ ShownOK'
    BY <1>0, <1>s, <2>1, <2>2, <2>3 DEF BornOK, ShownOK
  <2>7. ScanOK'
    BY <1>0, <1>s, <2>1, <2>4 DEF ScanOK
  <2>8. SlotOK'
    BY <1>0, <1>s, <2>1, <2>5 DEF SlotOK
  <2> QED BY <2>6, <2>7, <2>8 DEF ListingsOK
<1> QED BY <1>1, <1>2, <1>3, <1>4 DEF poll

LEMMA Joint ==
    ASSUME NEW S, NEW s \in Seq(S), NEW t \in Seq(S)
    PROVE  ToSet(s \o t) = ToSet(s) \union ToSet(t)
<1> DEFINE u == s \o t
<1>1. /\ Len(s) \in Nat /\ Len(t) \in Nat /\ DOMAIN s = 1..Len(s) /\ DOMAIN t = 1..Len(t)
      /\ DOMAIN u = 1..(Len(s) + Len(t))
      /\ \A i \in 1..Len(s) : u[i] = s[i]
      /\ \A i \in (Len(s) + 1)..(Len(s) + Len(t)) : u[i] = t[i - Len(s)]
  OBVIOUS
<1> HIDE DEF u
<1>2. ASSUME NEW x \in ToSet(u) PROVE x \in ToSet(s) \union ToSet(t)
  <2>1. PICK i \in DOMAIN u : u[i] = x
    BY Members
  <2>2. CASE i <= Len(s)
    <3>1. i \in 1..Len(s) /\ s[i] = x
      BY <1>1, <2>1, <2>2
    <3> QED BY <1>1, <3>1, Members
  <2>3. CASE i > Len(s)
    <3>1. i - Len(s) \in 1..Len(t) /\ t[i - Len(s)] = x
      BY <1>1, <2>1, <2>3
    <3> QED BY <1>1, <3>1, Members
  <2> QED BY <1>1, <2>2, <2>3
<1>3. ASSUME NEW x \in ToSet(s) PROVE x \in ToSet(u)
  <2>1. PICK i \in 1..Len(s) : s[i] = x
    BY <1>1, Members
  <2>2. i \in 1..(Len(s) + Len(t)) /\ u[i] = x
    BY <1>1, <2>1
  <2> QED BY <1>1, <2>2, Members
<1>4. ASSUME NEW x \in ToSet(t) PROVE x \in ToSet(u)
  <2>1. PICK i \in 1..Len(t) : t[i] = x
    BY <1>1, Members
  <2>2. i + Len(s) \in 1..(Len(s) + Len(t)) /\ u[i + Len(s)] = x
    BY <1>1, <2>1
  <2> QED BY <1>1, <2>2, Members
<1> QED BY <1>2, <1>3, <1>4 DEF u

LEMMA HeadAndTail ==
    ASSUME NEW S, NEW s \in Seq(S), s # <<>>
    PROVE  /\ Tail(s) \in Seq(S) /\ ToSet(s) \subseteq {Head(s)} \union ToSet(Tail(s))
           /\ Len(s) > 1 <=> Tail(s) # <<>>
<1>1. /\ Len(s) \in Nat \ {0} /\ DOMAIN s = 1..Len(s) /\ DOMAIN Tail(s) = 1..(Len(s) - 1)
      /\ Head(s) = s[1] /\ Tail(s) \in Seq(S) /\ \A i \in 1..(Len(s) - 1) : Tail(s)[i] = s[i + 1]
  OBVIOUS
<1>2. ASSUME NEW x \in ToSet(s), x # Head(s) PROVE x \in ToSet(Tail(s))
  <2>1. PICK i \in 1..Len(s) : s[i] = x
    BY <1>1, Members
  <2>2. i - 1 \in 1..(Len(s) - 1) /\ Tail(s)[i - 1] = x
    BY <1>1, <1>2, <2>1
  <2> QED BY <1>1, <2>2, Members
<1>3. Len(s) > 1 <=> Tail(s) # <<>>
  <2>1. Len(Tail(s)) = Len(s) - 1
    BY <1>1
  <2>2. Tail(s) = <<>> <=> Len(Tail(s)) = 0
    BY <1>1
  <2> QED BY <1>1, <2>1, <2>2
<1> QED BY <1>1, <1>2, <1>3

LEMMA NoMembers == ToSet(<<>>) = {}
BY DEF ToSet

LEMMA ListingsScans == ASSUME ShellInv, Refresh PROVE ListingsOK'
<1>0. /\ BornOK /\ ScanOK /\ SlotOK /\ ShownOK /\ gen \in Nat /\ refresh \in Scans
      /\ slot \in Snapshots \union {none} /\ server \in Seq(Worlds) /\ born \subseteq Worlds
  BY DEF ShellInv, Typed, FetchOK, OutsideOK
<1>f. /\ refresh.found \in Seq(Worlds) /\ refresh.todo \in Seq(ToSet(Contexts)) /\ refresh.gen \in Nat
      /\ DOMAIN refresh = {"pc", "todo", "gen", "found"}
  BY <1>0 DEF Scans
<1>1. UNCHANGED <<server, born, ui, task, worlds, kept, gone, gen>>
  BY DEF Refresh, refresh_begin, refresh_list, refresh_sync, refresh_failed, outside, view, history
<1>2. BornOK' /\ ShownOK' /\ Owed' = Owed
  BY <1>0, <1>1 DEF BornOK, ShownOK, Owed, Busy
<1>w. Owed \subseteq Worlds
  BY <1>0, OwedBorn
<1>3. CASE refresh_begin
  <2>1. refresh' = [todo |-> Contexts, gen |-> gen, found |-> <<>>, pc |-> "list"] /\ UNCHANGED slot
    BY <1>3 DEF refresh_begin
  <2>2. /\ refresh'.pc = "list" /\ refresh'.todo = Contexts /\ refresh'.gen = gen /\ refresh'.found = <<>>
    BY <2>1
  <2>3. Contexts # <<>> /\ \A w \in Worlds : ContextOf[w] \in ToSet(Contexts)
    BY ShellAssumption
  <2>4. gen <= gen
    BY <1>0
  <2>5. ScanOK'
    BY <1>1, <1>2, <1>w, <2>2, <2>3, <2>4, NoMembers DEF ScanOK
  <2>6. SlotOK'
    BY <1>0, <1>1, <1>2, <2>1 DEF SlotOK
  <2> QED BY <1>2, <2>5, <2>6 DEF ListingsOK
<1>4. CASE refresh_list
  <2> DEFINE more == Filter(server, In(Head(refresh.todo)))
             pc == IF Len(refresh.todo) > 1 THEN "list" ELSE "sync"
  <2>1. refresh' = [refresh EXCEPT !.todo = Tail(refresh.todo), !.found = refresh.found \o more, !.pc = pc]
        /\ UNCHANGED slot /\ refresh.pc = "list"
    BY <1>4 DEF refresh_list
  <2>2. more \in Seq(Worlds) /\ ToSet(more) = ToSet(server) \intersect In(Head(refresh.todo))
    BY <1>0, Filtered
  <2>3. refresh.todo # <<>>
    BY <1>0, <2>1 DEF ScanOK
  <2>4. pc # "sleep" /\ (pc = "list" <=> Tail(refresh.todo) # <<>>)
    BY <1>f, <2>3, HeadAndTail
  <2> HIDE DEF more, pc
  <2>5. /\ refresh'.todo = Tail(refresh.todo) /\ refresh'.found = refresh.found \o more
        /\ refresh'.pc = pc /\ refresh'.gen = refresh.gen
    BY <1>f, <2>1
  <2>6. ToSet(refresh'.found) = ToSet(refresh.found) \union ToSet(more)
    BY <1>f, <2>2, <2>5, Joint
  <2>7. ToSet(refresh.todo) \subseteq {Head(refresh.todo)} \union ToSet(refresh'.todo)
    BY <1>f, <2>3, <2>5, HeadAndTail
  <2>8. /\ ToSet(refresh.found) \subseteq born /\ refresh.gen <= gen
        /\ refresh.gen = gen =>
              /\ gone \intersect ToSet(refresh.found) = {}
              /\ \A w \in Owed \intersect ToSet(server) :
                     ContextOf[w] \in ToSet(refresh.todo) \/ w \in ToSet(refresh.found)
    BY <1>0, <2>1 DEF ScanOK
  <2>9. ToSet(refresh'.found) \subseteq born /\ gone \intersect ToSet(more) = {}
    BY <1>0, <2>2, <2>6, <2>8 DEF BornOK
  <2>10. ASSUME refresh.gen = gen, NEW w \in Owed \intersect ToSet(server)
         PROVE  ContextOf[w] \in ToSet(refresh'.todo) \/ w \in ToSet(refresh'.found)
    <3>1. CASE ContextOf[w] = Head(refresh.todo)
      <4>1. w \in ToSet(more)
        BY <1>w, <2>2, <3>1 DEF In
      <4> QED BY <2>6, <4>1
    <3>2. CASE ContextOf[w] # Head(refresh.todo)
      BY <2>6, <2>7, <2>8, <2>10, <3>2
    <3> QED BY <3>1, <3>2
  <2>11. ScanOK'
    <3>1. /\ ToSet(refresh'.found) \subseteq born' /\ refresh'.gen <= gen'
          /\ (refresh'.pc = "list" <=> refresh'.todo # <<>>)
      BY <1>1, <2>4, <2>5, <2>8, <2>9
    <3>2. refresh'.gen = gen' => gone' \intersect ToSet(refresh'.found) = {}
      BY <1>1, <2>5, <2>6, <2>8, <2>9
    <3>3. refresh'.gen = gen' => \A w \in Owed' \intersect ToSet(server') :
              ContextOf[w] \in ToSet(refresh'.todo) \/ w \in ToSet(refresh'.found)
      BY <1>1, <1>2, <2>5, <2>10
    <3> QED BY <3>1, <3>2, <3>3 DEF ScanOK
  <2>12. SlotOK'
    BY <1>0, <1>1, <1>2, <2>1 DEF SlotOK
  <2> QED BY <1>2, <2>11, <2>12 DEF ListingsOK
<1>5. CASE refresh_sync \/ refresh_failed
  <2>1. refresh.pc = "sync" /\ refresh'.pc = "sleep"
    BY <1>5, SleepingIs DEF refresh_sync, refresh_failed
  <2>2. ScanOK'
    BY <2>1 DEF ScanOK
  <2>3. CASE slot' = slot
    <3>1. SlotOK'
      BY <1>0, <1>1, <1>2, <2>3 DEF SlotOK
    <3> QED BY <1>2, <2>2, <3>1 DEF ListingsOK
  <2>4. CASE refresh_sync /\ slot = none
    <3> DEFINE found == group_by_context(refresh.found)
    <3>1. slot' = [gen |-> refresh.gen, found |-> found, failed |-> FALSE]
      BY <2>4 DEF refresh_sync
    <3>2. ToSet(found) = ToSet(refresh.found)
      BY <1>f, Grouped
    <3> HIDE DEF found
    <3>3. slot'.gen = refresh.gen /\ slot'.found = found /\ slot'.failed = FALSE
      BY <3>1
    <3>4. /\ ToSet(refresh.found) \subseteq born /\ refresh.gen <= gen /\ refresh.todo = <<>>
          /\ refresh.gen = gen =>
                /\ gone \intersect ToSet(refresh.found) = {}
                /\ \A w \in Owed \intersect ToSet(server) :
                       ContextOf[w] \in ToSet(refresh.todo) \/ w \in ToSet(refresh.found)
      BY <1>0, <2>1 DEF ScanOK
    <3>5. SlotOK'
      BY <1>1, <1>2, <3>2, <3>3, <3>4, NoMembers DEF SlotOK
    <3> QED BY <1>2, <2>2, <3>5 DEF ListingsOK
  <2>5. CASE refresh_failed /\ slot = none
    <3>1. slot' = [gen |-> refresh.gen, found |-> <<>>, failed |-> TRUE]
      BY <2>5 DEF refresh_failed
    <3>2. slot'.gen = refresh.gen /\ slot'.found = <<>> /\ slot'.failed = TRUE
      BY <3>1
    <3>3. refresh.gen <= gen
      BY <1>0, <2>1 DEF ScanOK
    <3>4. SlotOK'
      BY <1>1, <3>2, <3>3, NoMembers DEF SlotOK
    <3> QED BY <1>2, <2>2, <3>4 DEF ListingsOK
  <2> QED BY <1>5, <2>3, <2>4, <2>5 DEF refresh_sync, refresh_failed
<1> QED BY <1>3, <1>4, <1>5 DEF Refresh

LEMMA ListingsStep == ASSUME ShellInv, Next PROVE ListingsOK'
<1>0. /\ BornOK /\ ScanOK /\ SlotOK /\ ShownOK /\ LoopOK /\ server \in Seq(Worlds) /\ FetchOK
      /\ slot \in Snapshots \union {none}
  BY DEF ShellInv, Typed, OutsideOK, FetchOK
<1>1. CASE run
  <2>1. /\ UNCHANGED <<server, born, kept, gone, task, gen, refresh, slot>>
        /\ kept = {} /\ gone = {} /\ task = none /\ worlds' = group_by_context(server)
    BY <1>0, <1>1 DEF run, LoopOK, outside, fetch, history
  <2>2. ToSet(worlds') = ToSet(server)
    BY <1>0, <2>1, Grouped
  <2>3. Owed = {} /\ Owed' = {}
    BY <2>1 DEF Owed, Busy
  <2>4. BornOK' /\ ShownOK'
    BY <1>0, <2>1, <2>2 DEF BornOK, ShownOK
  <2>5. ScanOK' /\ SlotOK'
    BY <1>0, <2>1, <2>3 DEF ScanOK, SlotOK
  <2> QED BY <2>4, <2>5 DEF ListingsOK
<1>2. CASE Quit
  <2>1. /\ UNCHANGED <<server, born>> /\ worlds' = <<>> /\ kept' = {} /\ gone' = {} /\ slot' = none
        /\ refresh'.pc = "sleep"
    BY <1>2, SleepingIs DEF Quit, outside
  <2> QED BY <1>0, <2>1, NoMembers DEF ListingsOK, BornOK, ScanOK, SlotOK, ShownOK
<1>3. CASE turn
  <2>1. /\ UNCHANGED <<server, born, kept, gone, task, gen, refresh>> /\ slot' = none /\ ui = "turn"
    BY <1>3 DEF turn, outside, history
  <2>2. Owed' \subseteq Owed /\ kept \subseteq Owed
    <3>1. task = none \/ Busy
      BY <2>1 DEF Busy
    <3> QED BY <2>1, <3>1, OwedLess DEF Owed
  <2>3. ScanOK' /\ SlotOK'
    BY <1>0, <2>1, <2>2 DEF ScanOK, SlotOK
  <2>4. CASE ~has_work /\ take_current_snapshot /\ ~slot.failed
    <3>1. worlds' = slot.found
      BY <1>3, <2>4 DEF turn, reconcile_worlds
    <3>2. /\ ToSet(slot.found) \subseteq born /\ gone \intersect ToSet(slot.found) = {}
          /\ Owed \intersect ToSet(server) \subseteq ToSet(slot.found)
      BY <1>0, <2>4 DEF take_current_snapshot, SlotOK
    <3>3. BornOK' /\ ShownOK'
      BY <1>0, <2>1, <2>2, <3>1, <3>2 DEF BornOK, ShownOK
    <3> QED BY <2>3, <3>3 DEF ListingsOK
  <2>5. CASE UNCHANGED worlds
    <3>1. BornOK' /\ ShownOK'
      BY <1>0, <2>1, <2>5 DEF BornOK, ShownOK
    <3> QED BY <2>3, <3>1 DEF ListingsOK
  <2> QED BY <1>3, <2>4, <2>5 DEF turn, view
<1> QED BY <1>1, <1>2, <1>3, ListingsPolls, ListingsScans, ListingsRest DEF Next, Loop

-----------------------------------------------------------------------------
(* The invariant and what follows from it *)

LEMMA ShellInit == Init => ShellInv /\ Order!Init
<1> SUFFICES ASSUME Init PROVE ShellInv /\ Order!Init
  OBVIOUS
<1>1. /\ server \in Seq(Worlds) /\ born = ToSet(server) /\ ssh = {} /\ ui = "opening" /\ worlds = <<>>
      /\ active = 1 /\ mode = "control" /\ queue = EmptyQueue /\ task = none /\ sessions = <<>> /\ token = 0
      /\ reader = [t \in Tokens |-> "none"] /\ events = <<>> /\ gen = 0 /\ refresh = Sleeping
      /\ slot = none /\ kept = {} /\ gone = {} /\ happened = 0
  <2>1. <<>> \in Seq(Worlds) /\ \A w \in Worlds : <<w>> \in Seq(Worlds)
    OBVIOUS
  <2> QED BY <2>1 DEF Init
<1>2. OutsideOK /\ UiOK
  BY <1>1, SetIn DEF OutsideOK, UiOK
<1>3. ViewOK /\ PlaysOK
  <2>1. <<>> \in Seq(Worlds) /\ <<>> \in Seq(Sessions) /\ Beside(<<>>, <<>>)
    BY DEF Beside
  <2>2. [t \in Tokens |-> "none"] \in [Tokens -> ReaderStates]
    BY DEF ReaderStates
  <2> QED BY <1>1, <2>1, <2>2 DEF ViewOK, PlaysOK
<1>4. EventsOK /\ FetchOK /\ HistoryOK
  <2>1. <<>> \in Seq({"output", "closed"} \X Tokens) /\ Len(<<>>) = 0 /\ OUTPUT_QUEUE \in Nat
        /\ 0 <= OUTPUT_QUEUE /\ 0 \in 0..MaxOutside
    BY ShellAssumption
  <2>2. EventsOK
    BY <1>1, <2>1 DEF EventsOK
  <2> QED BY <1>1, <2>1, <2>2, SleepingIs DEF FetchOK, HistoryOK
<1>5. queue \in Queues /\ QueueOK /\ Order!Init
  BY <1>1, QueueEmpty DEF QueueOK, Order!Init, Ids, EmptyQueue
<1>6. LoopOK /\ ~Busy /\ BornOK /\ ScanOK /\ SlotOK /\ ShownOK
  BY <1>1, NoMembers, SleepingIs DEF LoopOK, Busy, BornOK, ScanOK, SlotOK, ShownOK
<1> QED BY <1>1, <1>2, <1>3, <1>4, <1>5, <1>6 DEF ShellInv, Typed

LEMMA ShellStep == ShellInv /\ [Next]_vars => ShellInv' /\ [Order!Next]_(Order!vars)
<1> SUFFICES ASSUME ShellInv, [Next]_vars PROVE ShellInv' /\ [Order!Next]_(Order!vars)
  OBVIOUS
<1>1. CASE Next
  <2>1. Typed' /\ QueueOK' /\ [Order!Next]_(Order!vars)
    BY <1>1, TypedStep
  <2>2. LoopOK' /\ (Busy => PhaseOK)' /\ ListingsOK'
    BY <1>1, LoopStep, PhaseStep, ListingsStep
  <2> QED BY <2>1, <2>2 DEF ShellInv, ListingsOK
<1>2. CASE UNCHANGED vars
  <2>1. ui' = ui /\ UNCHANGED <<outside, ssh, view, queue, task, plays, events, fetch, history>>
    BY <1>2 DEF vars
  <2>2. Owed' \subseteq Owed /\ OutsideMove
    BY <2>1, OwedLess DEF history, OutsideMove
  <2>3. ListingsOK'
    <3>1. UNCHANGED <<worlds, kept, gone, gen, refresh, slot>>
      BY <2>1 DEF view, fetch, history
    <3> QED BY <2>2, <3>1, ListingsSame
  <2>4. Typed'
    BY <2>1 DEF ShellInv, Typed, OutsideOK, UiOK, ViewOK, PlaysOK, Beside, EventsOK, FetchOK, HistoryOK,
                outside, view, plays, fetch, history
  <2>5. QueueOK' /\ LoopOK' /\ UNCHANGED Order!vars
    BY <2>1 DEF ShellInv, QueueOK, Ordered, LoopOK, Busy, Order!vars, history
  <2>6. (Busy => PhaseOK)'
    <3>1. UNCHANGED <<task, worlds, gone>> /\ (Busy' => Busy) /\ OutsideMove
      BY <2>1 DEF Busy, OutsideMove, view, history
    <3> QED BY <3>1, PhaseSame DEF ShellInv
  <2> QED BY <2>3, <2>4, <2>5, <2>6 DEF ShellInv, ListingsOK
<1> QED BY <1>1, <1>2

LEMMA ShellInvariant == Spec => []ShellInv
<1>1. Init => ShellInv
  BY ShellInit
<1>2. ShellInv /\ [Next]_vars => ShellInv'
  BY ShellStep
<1> QED BY <1>1, <1>2, PTL DEF Spec

\* Every variable of the shell keeps its type, the lists and the queue included.
THEOREM ShellTyped == Spec => []TypeOK
<1>1. ShellInv => TypeOK
  BY TypedAligned DEF ShellInv
<1> QED BY <1>1, ShellInvariant, PTL

\* The n-th session is the one of the n-th world after every creation, deletion,
\* reconnection and listing (SessionSet beside ShellModel).
THEOREM SessionsBesideWorlds == Spec => []SessionsAligned
<1>1. ShellInv => SessionsAligned
  BY TypedAligned DEF ShellInv
<1> QED BY <1>1, ShellInvariant, PTL

\* No listing brings back what this shell deleted or hides what it created.
THEOREM ListingsFresh == Spec => []ListingNeverStale
<1>1. ShellInv => ListingNeverStale
  BY DEF ShellInv, ShownOK, ListingNeverStale
<1> QED BY <1>1, ShellInvariant, PTL

\* finish_add and finish_reconnect never meet the case they refuse.
THEOREM FinishesAccepted == Spec => []FinishNeverRefused
<1>1. ShellInv => FinishNeverRefused
  <2> SUFFICES ASSUME ShellInv, ui = "poll", task.pc = "connected"
               PROVE  (task.kind = "create") = (task.world \notin Played)
    BY DEF FinishNeverRefused
  <2>1. task # none /\ Busy /\ PhaseOK
    BY DEF ShellInv, LoopOK, Busy
  <2>2. Played = ToSet(worlds)
    BY PlayedShown DEF ShellInv, Typed
  <2>3. task.kind \in {"create", "reconnect"}
    BY <2>1 DEF PhaseOK, Connecting
  <2> QED BY <2>1, <2>2, <2>3 DEF PhaseOK, Begun, Connecting
<1> QED BY <1>1, ShellInvariant, PTL

\* The queue of the shell implements ActionOrder.
THEOREM OrderImplemented == Spec => ActionsInOrder
<1>1. Init => Order!Init
  BY ShellInit
<1>2. ShellInv /\ [Next]_vars => [Order!Next]_(Order!vars)
  BY ShellStep
<1> QED BY <1>1, <1>2, ShellInvariant, PTL DEF Spec, ActionsInOrder, Order!Spec
=============================================================================
