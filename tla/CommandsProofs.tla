--------------------------- MODULE CommandsProofs ---------------------------
(***************************************************************************)
(* Proofs about the commands of the client: what a form shows for review,  *)
(* what the managed SSH configuration publishes, which world a short name  *)
(* stands for and how many worlds a command makes, for any number of       *)
(* processes, contexts and worlds.                                         *)
(***************************************************************************)
EXTENDS Commands, FiniteSetTheorems, TLAPS

-----------------------------------------------------------------------------
(* The inductive invariant *)

FormFields == {"Context", "Name", "suggestion", "Vcpus", "Memory", "Disk", "focus", "stage", "error"}

FormInv ==
    form # none =>
        /\ DOMAIN form = FormFields
        /\ form.stage = "review" => input_valid(form)
        /\ form.suggestion \in BOOLEAN /\ (form.suggestion => form.Name \notin used)

ProcFields == {"pc", "cmd", "then", "ctx", "short", "name", "id", "at", "report", "failures",
               "rivals", "tries"}

\* The steps of sync that hold inventory.lock.
Writing == {"include", "config", "hosts"}

\* The context c answered a listing with r, or is among its failures.
Heard(r, c, offered) == c \in r.failures \/ aliases(r.report[c]) \in offered[c]

\* A listing has heard of every context it asked.
ListOK(r, offered) ==
    /\ r.at \in 1 .. Len(Contexts)
    /\ \A i \in 1 .. r.at - 1 : Heard(r, Contexts[i], offered)

\* The rivals of a short name are contexts that were asked and that either did
\* not answer or are in the report with a world of that name.
RivalsOK(r) ==
    /\ r.cmd \in Operations /\ r.short = TRUE
    /\ \A c \in r.rivals : \E i \in 1 .. r.at - 1 :
          /\ c = Contexts[i]
          /\ c \in r.failures \/ \E w \in r.report[c] : w.name = r.name

\* What a process with record r relies on, whatever the others do.
ProcOK(r, offered) ==
    /\ DOMAIN r = ProcFields /\ DOMAIN r.report = ContextSet
    /\ r.pc = "list" => ListOK(r, offered) /\ (r.then = "resolve" => RivalsOK(r))
    /\ r.pc \in {"lock"} \cup Writing =>
          \A c \in ContextSet : aliases(r.report[c]) \in offered[c]
    /\ r.pc \in {"get", "operate"} => r.cmd \in Operations /\ (r.short => r.rivals \subseteq {r.ctx})

MadeBy(p) == {i \in DOMAIN made : made[i] = p}

\* A process that may still make a world has made none.
MakerOK(p) ==
    /\ proc[p].pc \in {"idle", "create", "capacity"} => MadeBy(p) = {}
    /\ proc[p].pc = "api" /\ p \notin replayed => MadeBy(p) = {}
    /\ \A i, j \in MadeBy(p) : i = j

ServersOK ==
    /\ DOMAIN worlds = ContextSet /\ DOMAIN seen = ContextSet
    /\ \A c \in ContextSet : aliases(worlds[c]) \in seen[c] /\ config.full[c] \in seen[c]

FilesOK ==
    /\ torn \in BOOLEAN
    /\ \A p \in Procs : proc[p].pc \in Writing => lock = p
    /\ \A p \in Procs : proc[p].pc = "hosts" => config = Generated(proc[p].report)
    /\ ~torn /\ (\A p \in Procs : proc[p].pc # "hosts") => config.full = hosts

ClientInv ==
    /\ FormInv
    /\ DOMAIN proc = Procs
    /\ form # none => \A p \in Procs : proc[p].pc = "idle"
    /\ \A p \in Procs : ProcOK(proc[p], seen) /\ MakerOK(p)
    /\ ServersOK
    /\ FilesOK
-----------------------------------------------------------------------------
(* The form *)

\* A nonempty set of naturals has its minimum.
LEMMA MinIn ==
    ASSUME NEW S, S \subseteq Nat, S # {}
    PROVE  Min(S) \in S
<1> DEFINE R == {ss \in Nat \X Nat : ss[1] < ss[2]}
<1>1. IsWellFoundedOn(R, Nat)
  BY NatLessThanWellFounded DEF OpToRel
<1>2. PICK x \in S : \A y \in S : ~(<<y, x>> \in R)
  <2> HIDE DEF R
  <2> QED BY <1>1, WFMin
<1>3. ASSUME NEW y \in S PROVE x <= y
  <2>1. x \in Nat /\ y \in Nat
    OBVIOUS
  <2>2. y < x => <<y, x>> \in R
    BY <2>1
  <2>3. ~(y < x)
    BY <1>2, <2>2
  <2> QED BY <2>1, <2>3
<1> QED BY <1>3 DEF Min

\* Of one name more than there are names, one is free.
LEMMA OneIsFree ==
    ASSUME NEW names, IsFiniteSet(names)
    PROVE  {o \in 1 .. Cardinality(names) + 1 : Combinations + o \notin names} # {}
<1> DEFINE S == 1 .. Cardinality(names) + 1
           f == [o \in S |-> Combinations + o]
<1>0. Cardinality(names) \in Nat
  BY FS_CardinalityType
<1>1. IsFiniteSet(S) /\ Cardinality(S) = Cardinality(names) + 1
  BY <1>0, FS_Interval
<1>2. SUFFICES ASSUME \A o \in S : Combinations + o \in names PROVE FALSE
  OBVIOUS
<1>3. f \in [S -> names]
  BY <1>2
<1>4. \E x, y \in S : x # y /\ f[x] = f[y]
  <2> HIDE DEF f, S
  <2> QED BY <1>0, <1>1, <1>3, FS_PigeonHole
<1>5. Combinations \in Nat /\ S \subseteq Int
  BY <1>0, FormAssumption
<1> QED BY <1>4, <1>5

\* A suggested name is free.
LEMMA SuggestionFree ==
    ASSUME NEW names, IsFiniteSet(names), NEW start
    PROVE  suggested_name_from(names, start) \notin names
<1> DEFINE Combination(o) == ((start % Combinations) + o) % Combinations
           free == {o \in 0 .. Combinations - 1 : Combination(o) \notin names}
           numbered == {o \in 1 .. Cardinality(names) + 1 : Combinations + o \notin names}
<1>1. suggested_name_from(names, start) =
        IF free # {} THEN Combination(Min(free)) ELSE Combinations + Min(numbered)
  BY DEF suggested_name_from
<1>2. Cardinality(names) \in Nat /\ Combinations \in Nat
  BY FS_CardinalityType, FormAssumption
<1>3. free # {} => Min(free) \in free
  BY <1>2, MinIn
<1>4. Min(numbered) \in numbered
  BY <1>2, MinIn, OneIsFree
<1> QED BY <1>1, <1>3, <1>4

LEMMA ValidInput ==
    ASSUME NEW f
    PROVE  input_valid(f) <=> /\ f.Name # bad
                              /\ \A field \in {"Vcpus", "Memory", "Disk"} :
                                    f[field] \notin {junk, 0}
<1>1. DOMAIN HOST_FIELDS = 1 .. 5
  BY DEF HOST_FIELDS
<1>2. \A i \in 1 .. 5 : i = 1 \/ i = 2 \/ i = 3 \/ i = 4 \/ i = 5
  OBVIOUS
<1>3. /\ HOST_FIELDS[1] = "Context" /\ HOST_FIELDS[2] = "Name" /\ HOST_FIELDS[3] = "Vcpus"
      /\ HOST_FIELDS[4] = "Memory" /\ HOST_FIELDS[5] = "Disk"
  BY DEF HOST_FIELDS
<1>4. /\ validate(f, "Context") /\ (validate(f, "Name") <=> f.Name # bad)
      /\ \A field \in {"Vcpus", "Memory", "Disk"} : validate(f, field) <=> f[field] \notin {junk, 0}
  BY DEF validate
<1> QED BY <1>1, <1>2, <1>3, <1>4 DEF input_valid

LEMMA FormStart == FormInit => FormInv
<1> SUFFICES ASSUME FormInit PROVE FormInv
  OBVIOUS
<1>1. PICK start \in Numbers : form = Opened(start)
  BY DEF FormInit
<1>2. IsFiniteSet(used)
  <2>1. Combinations \in Int
    BY FormAssumption
  <2>2. IsFiniteSet(0 .. Combinations) /\ used \in SUBSET (0 .. Combinations)
    BY <2>1, FS_Interval DEF FormInit
  <2> QED BY <2>2, FS_Subset
<1>3. /\ DOMAIN form = FormFields /\ form.stage = "fields" /\ form.suggestion = TRUE
      /\ form.Name = suggested_name_from(used, start)
  BY <1>1 DEF Opened, FormFields
<1> QED BY <1>2, <1>3, SuggestionFree DEF FormInv

LEMMA FormStep ==
    ASSUME FormInv, FormNext
    PROVE  FormInv' /\ form # none
<1>0. /\ form # none /\ used' = used /\ DOMAIN form = FormFields
      /\ form.suggestion \in BOOLEAN /\ (form.suggestion => form.Name \notin used)
      /\ form.stage = "review" => input_valid(form)
  BY DEF FormInv, FormNext, move_focus, move_context, Type, advance, edit, step, Editing
\* A change of the fields, of the place in the form and of the stage.
<1>1. ASSUME NEW f, form' = f, DOMAIN f = FormFields, f.stage # "review",
             f.suggestion \in BOOLEAN, f.suggestion => f.Name \notin used
      PROVE  FormInv'
  BY <1>0, <1>1 DEF FormInv
<1>2. CASE move_focus
  <2>1. PICK f : f = [form EXCEPT !.focus = IF @ = OK_FOCUS THEN 1 ELSE @ + 1, !.error = FALSE]
    OBVIOUS
  <2>2. /\ DOMAIN f = FormFields /\ f.stage = form.stage /\ f.suggestion = form.suggestion
        /\ f.Name = form.Name
    BY <1>0, <2>1 DEF FormFields
  <2> QED BY <1>0, <1>1, <1>2, <2>1, <2>2 DEF move_focus, Editing
<1>3. CASE move_context
  <2>1. PICK f : f = [form EXCEPT !.Context = IF @ = Len(Contexts) THEN 1 ELSE @ + 1]
    OBVIOUS
  <2>2. /\ DOMAIN f = FormFields /\ f.stage = form.stage /\ f.suggestion = form.suggestion
        /\ f.Name = form.Name
    BY <1>0, <2>1 DEF FormFields
  <2> QED BY <1>0, <1>1, <1>3, <2>1, <2>2 DEF move_context, Editing
<1>4. ASSUME NEW increase \in BOOLEAN, step(increase) PROVE FormInv'
  <2>0. Focused \in {"Vcpus", "Memory", "Disk"}
    BY <1>4 DEF step, Sized, DEFAULT
  <2>1. PICK f : f = [form EXCEPT ![Focused] = Stepped(form, increase), !.error = FALSE]
    OBVIOUS
  <2>2. /\ DOMAIN f = FormFields /\ f.stage = form.stage /\ f.suggestion = form.suggestion
        /\ f.Name = form.Name
    BY <1>0, <2>0, <2>1 DEF FormFields
  <2> QED BY <1>0, <1>1, <1>4, <2>1, <2>2 DEF step, Editing
<1>5. CASE Type
  <2>0. Focused \in {"Vcpus", "Memory", "Disk", "Name"}
    BY <1>5 DEF Type, Sized, DEFAULT
  <2>1. PICK f, text : /\ form' = f
                       /\ f = [form EXCEPT ![Focused] = text, !.error = FALSE,
                                           !.suggestion = @ /\ Focused # "Name"]
    BY <1>5 DEF Type
  <2>2. /\ DOMAIN f = FormFields /\ f.stage = form.stage
        /\ Focused # "Name" => f.Name = form.Name
    BY <1>0, <2>0, <2>1 DEF FormFields
  <2>3. f.suggestion \in BOOLEAN /\ (f.suggestion => form.suggestion /\ Focused # "Name")
    BY <1>0, <2>0, <2>1, Zenon DEF FormFields
  <2> QED BY <1>0, <1>1, <1>5, <2>1, <2>2, <2>3 DEF Type, Editing
<1>6. CASE advance
  <2>1. ASSUME NEW f, form' = f, DOMAIN f = FormFields, f.stage = form.stage,
               f.suggestion = form.suggestion, f.Name = form.Name
        PROVE  FormInv'
    BY <1>0, <1>1, <1>6, <2>1 DEF advance, Editing
  <2>2. CASE form' = [form EXCEPT !.error = TRUE]
    BY <1>0, <2>1, <2>2 DEF FormFields
  <2>3. CASE form' = [form EXCEPT !.focus = @ + 1, !.error = FALSE]
    <3>1. PICK f : f = [form EXCEPT !.focus = @ + 1, !.error = FALSE]
      OBVIOUS
    <3>2. /\ DOMAIN f = FormFields /\ f.stage = form.stage /\ f.suggestion = form.suggestion
          /\ f.Name = form.Name
      BY <1>0, <3>1 DEF FormFields
    <3> QED BY <1>0, <2>1, <2>3, <3>1, <3>2
  <2>4. CASE input_valid(form) /\ form' = [form EXCEPT !.stage = "review", !.error = FALSE]
    <3>1. PICK f : f = [form EXCEPT !.stage = "review", !.error = FALSE]
      OBVIOUS
    <3>2. /\ DOMAIN f = FormFields /\ f.suggestion = form.suggestion /\ f.Name = form.Name
          /\ \A field \in {"Vcpus", "Memory", "Disk"} : f[field] = form[field]
      BY <1>0, <3>1 DEF FormFields
    <3>3. input_valid(f)
      BY <2>4, <3>2, ValidInput
    <3> QED BY <1>0, <2>4, <3>1, <3>2, <3>3 DEF FormInv
  <2> QED BY <1>6, <2>2, <2>3, <2>4 DEF advance
<1>7. CASE edit
  <2>1. PICK f : f = [form EXCEPT !.stage = "fields"]
    OBVIOUS
  <2>2. /\ DOMAIN f = FormFields /\ f.stage = "fields" /\ f.suggestion = form.suggestion
        /\ f.Name = form.Name
    BY <1>0, <2>1 DEF FormFields
  <2> QED BY <1>0, <1>1, <1>7, <2>1, <2>2 DEF edit
<1> QED BY <1>0, <1>2, <1>3, <1>4, <1>5, <1>6, <1>7 DEF FormNext

-----------------------------------------------------------------------------
(* Processes and servers *)

LEMMA IdleFields ==
    /\ DOMAIN Idle = ProcFields /\ Idle.pc = "idle" /\ Idle.rivals = {} /\ Idle.failures = {}
    /\ DOMAIN Idle.report = ContextSet /\ Idle.at = 1 /\ Idle.short = FALSE
    /\ DOMAIN Ended = ProcFields /\ Ended.pc = "ended" /\ DOMAIN Ended.report = ContextSet
BY DEF Idle, Ended, ProcFields

LEMMA GoEffect ==
    ASSUME DOMAIN proc = Procs, NEW p \in Procs, NEW r, Go(p, r)
    PROVE  /\ DOMAIN proc' = Procs /\ proc'[p] = r
           /\ \A q \in Procs \ {p} : proc'[q] = proc[q]
BY DEF Go

\* What a context was seen to offer, it was.
Grows == \A c \in ContextSet : seen[c] \subseteq seen'[c]

LEMMA ProcKept ==
    ASSUME NEW r, ProcOK(r, seen), Grows
    PROVE  ProcOK(r, seen')
<1>1. r.pc = "list" /\ ListOK(r, seen) => ListOK(r, seen')
  <2>1. SUFFICES ASSUME ListOK(r, seen), NEW i \in 1 .. r.at - 1
                 PROVE  Heard(r, Contexts[i], seen')
    BY DEF ListOK
  <2>2. Contexts[i] \in ContextSet
    BY <2>1, FormAssumption DEF ListOK, ContextSet
  <2> QED BY <2>1, <2>2 DEF ListOK, Heard, Grows
<1> QED BY <1>1 DEF ProcOK, Grows

LEMMA EndedOK == ProcOK(Ended, seen)
BY IdleFields DEF ProcOK, Writing

\* A listing that has asked nobody yet.
LEMMA ListingOK ==
    ASSUME NEW r, DOMAIN r = ProcFields, NEW then,
           then = "resolve" => r.cmd \in Operations /\ r.short = TRUE /\ r.rivals = {}
    PROVE  ProcOK(Listing(r, then), seen) /\ Listing(r, then).pc = "list"
<1>1. PICK l : l = Listing(r, then)
  OBVIOUS
<1>2. /\ DOMAIN l = ProcFields /\ l.pc = "list" /\ l.then = then /\ l.at = 1
      /\ l.report = Idle.report /\ l.cmd = r.cmd /\ l.short = r.short /\ l.rivals = r.rivals
  BY <1>1 DEF Listing, ProcFields
<1>3. 1 \in 1 .. Len(Contexts) /\ 1 .. 1 - 1 = {}
  BY FormAssumption
<1>4. ListOK(l, seen) /\ (l.then = "resolve" => RivalsOK(l))
  BY <1>2, <1>3 DEF ListOK, RivalsOK
<1> QED BY <1>1, <1>2, <1>4, IdleFields DEF ProcOK, Writing

\* A step of p outside the lock is right if it is right about p.
LEMMA StepOK ==
    ASSUME ClientInv, NEW p \in Procs, form = none, UNCHANGED <<form, used, files>>,
           NEW r, Go(p, r), ProcOK(r, seen), r.pc \notin Writing, proc[p].pc \notin Writing,
           Grows, ServersOK', MakerOK(p)',
           \A q \in Procs \ {p} : MadeBy(q)' \subseteq MadeBy(q) /\ (q \in replayed => q \in replayed')
    PROVE  ClientInv'
<1>1. /\ DOMAIN proc' = Procs /\ proc'[p] = r
      /\ \A q \in Procs \ {p} : proc'[q] = proc[q]
  BY GoEffect DEF ClientInv
<1>2. ASSUME NEW q \in Procs PROVE ProcOK(proc'[q], seen') /\ MakerOK(q)'
  <2>1. ProcOK(proc'[q], seen)
    BY <1>1 DEF ClientInv
  <2>2. CASE q = p
    BY <2>1, <2>2, ProcKept
  <2>3. CASE q # p
    BY <1>1, <2>1, <2>3, ProcKept DEF ClientInv, MakerOK
  <2> QED BY <2>2, <2>3
<1>3. FilesOK'
  <2>1. UNCHANGED <<lock, config, hosts, torn>>
    BY DEF files
  <2>2. \A q \in Procs : q = p \/ proc'[q] = proc[q]
    BY <1>1
  <2>3. proc'[p].pc # "hosts" /\ proc[p].pc # "hosts" /\ proc'[p].pc \notin Writing
    BY <1>1 DEF Writing
  <2> QED BY <2>1, <2>2, <2>3 DEF FilesOK, ClientInv
<1>4. FormInv' /\ form' = none
  BY DEF ClientInv, FormInv
<1> QED BY <1>1, <1>2, <1>3, <1>4 DEF ClientInv

\* The same, when the servers do nothing.
LEMMA QuietOK ==
    ASSUME ClientInv, NEW p \in Procs, form = none, UNCHANGED <<form, used, files, servers>>,
           NEW r, Go(p, r), ProcOK(r, seen), r.pc \notin Writing, proc[p].pc \notin Writing,
           r.pc \in {"idle", "create", "capacity", "api"} =>
              MadeBy(p) = {} \/ (r.pc = "api" /\ proc[p].pc = "api")
    PROVE  ClientInv'
<1>1. Grows /\ ServersOK' /\ UNCHANGED <<made, replayed>>
  BY DEF Grows, ServersOK, ClientInv, servers, files
<1>2. \A q \in Procs : MadeBy(q)' = MadeBy(q)
  BY <1>1 DEF MadeBy
<1>3. proc'[p] = r
  BY GoEffect DEF ClientInv
<1>4. MakerOK(p)'
  BY <1>1, <1>2, <1>3 DEF ClientInv, MakerOK
<1> QED BY <1>1, <1>2, <1>4, StepOK

\* A server that is left with another inventory.
LEMMA ServeEffect ==
    ASSUME ServersOK, NEW c, NEW inventory, Serve(c, inventory), config' = config
    PROVE  ServersOK' /\ Grows
<1>1. /\ DOMAIN worlds' = ContextSet /\ DOMAIN seen' = ContextSet
      /\ \A d \in ContextSet : seen[d] \subseteq seen'[d]
      /\ \A d \in ContextSet \ {c} : worlds'[d] = worlds[d]
      /\ c \in ContextSet => worlds'[c] = inventory /\ aliases(inventory) \in seen'[c]
  BY DEF Serve, ServersOK
<1>2. \A d \in ContextSet : aliases(worlds'[d]) \in seen'[d]
  BY <1>1 DEF ServersOK
<1> QED BY <1>1, <1>2 DEF ServersOK, Grows

-----------------------------------------------------------------------------
(* The commands *)

\* Starting a command.
LEMMA RunFromOK ==
    ASSUME ClientInv, NEW p \in Procs, run_from(p)
    PROVE  ClientInv'
<1>0. /\ form = none /\ UNCHANGED <<form, used, files, servers>> /\ proc[p].pc = "idle"
      /\ MadeBy(p) = {} /\ proc[p].pc \notin Writing
  BY DEF run_from, At, ClientInv, MakerOK, Writing
<1>1. CASE Go(p, Ended)
  BY <1>0, <1>1, EndedOK, IdleFields, QuietOK DEF Writing
<1>2. ASSUME NEW then \in {"ls", "sync"}, Go(p, Listing(Idle, then)) PROVE ClientInv'
  BY <1>0, <1>2, ListingOK, IdleFields, QuietOK DEF Writing
<1>3. ASSUME NEW name \in Names, NEW c \in ContextSet \union {none},
             NEW cmd \in Operations \union {"open"}, NEW r,
             r = [Idle EXCEPT !.cmd = cmd, !.name = name, !.ctx = c, !.short = (c = none)],
             Go(p, IF cmd = "open" THEN Listing(r, "open")
                   ELSE IF c # none THEN [r EXCEPT !.pc = "get"]
                   ELSE IF Len(Contexts) = 1 THEN [r EXCEPT !.pc = "get", !.ctx = Contexts[1]]
                   ELSE Listing(r, "resolve"))
      PROVE  ClientInv'
  <2>1. /\ DOMAIN r = ProcFields /\ r.cmd = cmd /\ r.rivals = {} /\ r.short = (c = none)
        /\ DOMAIN r.report = ContextSet
    BY <1>3, IdleFields DEF ProcFields
  <2>2. CASE cmd = "open"
    BY <1>0, <1>3, <2>1, <2>2, ListingOK, QuietOK DEF Writing
  <2>3. ASSUME cmd # "open", NEW g, Go(p, g), DOMAIN g = ProcFields, g.pc = "get", g.cmd = cmd,
               g.rivals = {}, DOMAIN g.report = ContextSet
        PROVE  ClientInv'
    <3>1. ProcOK(g, seen) /\ g.pc \notin Writing
      BY <1>3, <2>3 DEF ProcOK, Writing
    <3> QED BY <1>0, <2>3, <3>1, QuietOK
  <2>4. CASE cmd # "open" /\ c # none
    <3>1. PICK g : g = [r EXCEPT !.pc = "get"]
      OBVIOUS
    <3> QED BY <1>3, <2>1, <2>3, <2>4, <3>1 DEF ProcFields
  <2>5. CASE cmd # "open" /\ c = none /\ Len(Contexts) = 1
    <3>1. PICK g : g = [r EXCEPT !.pc = "get", !.ctx = Contexts[1]]
      OBVIOUS
    <3> QED BY <1>3, <2>1, <2>3, <2>5, <3>1 DEF ProcFields
  <2>6. CASE cmd # "open" /\ c = none /\ Len(Contexts) # 1
    <3>1. Go(p, Listing(r, "resolve")) /\ r.cmd \in Operations /\ r.short = TRUE
      BY <1>3, <2>1, <2>6
    <3> QED BY <1>0, <2>1, <3>1, ListingOK, QuietOK DEF Writing
  <2> QED BY <2>2, <2>4, <2>5, <2>6
\* A request of wt api.
<1>4. ASSUME NEW r, Go(p, r), DOMAIN r = ProcFields, r.pc = "api", DOMAIN r.report = ContextSet
      PROVE  ClientInv'
  <2>1. ProcOK(r, seen) /\ r.pc \notin Writing
    BY <1>4 DEF ProcOK, Writing
  <2> QED BY <1>0, <1>4, <2>1, QuietOK
<1>5. ASSUME NEW name \in Names, NEW c \in ContextSet,
             Go(p, [Idle EXCEPT !.pc = "api", !.cmd = "create", !.name = name, !.ctx = c])
      PROVE  ClientInv'
  <2>1. PICK r : r = [Idle EXCEPT !.pc = "api", !.cmd = "create", !.name = name, !.ctx = c]
    OBVIOUS
  <2> QED BY <1>4, <1>5, <2>1, IdleFields DEF ProcFields
<1>6. ASSUME NEW c \in ContextSet, NEW w \in worlds[c],
             Go(p, [Idle EXCEPT !.pc = "api", !.cmd = "delete", !.id = w.id, !.ctx = c])
      PROVE  ClientInv'
  <2>1. PICK r : r = [Idle EXCEPT !.pc = "api", !.cmd = "delete", !.id = w.id, !.ctx = c]
    OBVIOUS
  <2> QED BY <1>4, <1>6, <2>1, IdleFields DEF ProcFields
<1> QED BY <1>1, <1>2, <1>3, <1>5, <1>6 DEF run_from

\* A listing has heard of every context.
AllHeard(r) ==
    /\ DOMAIN r = ProcFields /\ DOMAIN r.report = ContextSet
    /\ \A c \in ContextSet : Heard(r, c, seen)
    /\ r.then = "resolve" =>
          /\ r.cmd \in Operations /\ r.short = TRUE
          /\ \A c \in r.rivals : /\ c \in ContextSet
                                 /\ c \in r.failures \/ \E w \in r.report[c] : w.name = r.name

\* What follows a listing publishes all contexts, and acts on a short name only
\* where no other context had it.
LEMMA ListedOK ==
    ASSUME NEW r, AllHeard(r), NEW l \in Listed(r)
    PROVE  ProcOK(l, seen) /\ l.pc \in {"ended", "lock", "get", "list"}
<1>1. CASE l = Ended
  BY <1>1, EndedOK, IdleFields
<1>2. CASE l = [r EXCEPT !.pc = "lock"] /\ r.failures = {}
  <2>1. /\ DOMAIN l = ProcFields /\ l.pc = "lock" /\ l.report = r.report
    BY <1>2 DEF AllHeard, ProcFields
  <2>2. \A c \in ContextSet : aliases(l.report[c]) \in seen[c]
    BY <1>2, <2>1 DEF AllHeard, Heard
  <2> QED BY <2>1, <2>2 DEF ProcOK, AllHeard
<1>3. CASE /\ r.then = "resolve" /\ r.failures = {}
           /\ \E m \in Matches(r) :
                 /\ Matches(r) = {m}
                 /\ l = [r EXCEPT !.pc = "get", !.ctx = m[1], !.report = Idle.report]
  <2>1. PICK m \in Matches(r) :
          /\ Matches(r) = {m}
          /\ l = [r EXCEPT !.pc = "get", !.ctx = m[1], !.report = Idle.report]
    BY <1>3
  <2>2. /\ DOMAIN l = ProcFields /\ l.pc = "get" /\ l.ctx = m[1] /\ l.report = Idle.report
        /\ l.rivals = r.rivals /\ l.cmd = r.cmd
    BY <2>1 DEF AllHeard, ProcFields
  <2>3. ASSUME NEW c \in r.rivals PROVE c = m[1]
    <3>1. PICK w \in r.report[c] : w.name = r.name
      BY <1>3 DEF AllHeard
    <3>2. c \in ContextSet /\ r.short
      BY <1>3 DEF AllHeard
    <3>3. PICK n : n = <<c, w>>
      OBVIOUS
    <3>4. n \in {c} \X r.report[c] /\ n[1] = c /\ n[2] = w
      BY <3>1, <3>3
    <3>5. n \in Matches(r)
      BY <3>1, <3>2, <3>3, <3>4 DEF Matches
    <3> QED BY <2>1, <3>3, <3>5
  <2> QED BY <1>3, <2>2, <2>3, IdleFields DEF ProcOK, AllHeard, Writing
<1>4. CASE r.then = "new" /\ l = Listing([r EXCEPT !.tries = @ + 1], "new")
  <2>1. PICK t : t = [r EXCEPT !.tries = @ + 1]
    OBVIOUS
  <2>2. DOMAIN t = ProcFields
    BY <2>1 DEF AllHeard
  <2> QED BY <1>4, <2>1, <2>2, ListingOK
<1>5. \A m \in Matches(r) : Matches(r) = {m} => (CHOOSE n \in Matches(r) : TRUE) = m
  OBVIOUS
<1>6. CASE r.then = "resolve"
  BY <1>1, <1>3, <1>5, <1>6 DEF Listed, Resolved, Complete
<1>7. CASE r.then = "open"
  BY <1>1, <1>2, <1>7 DEF Listed, Complete
<1>8. CASE r.then = "new"
  BY <1>1, <1>2, <1>4, <1>8 DEF Listed, sync_complete_inventory
<1>9. CASE r.then \notin {"resolve", "open", "new"}
  BY <1>1, <1>2, <1>9 DEF Listed, sync_complete_inventory
<1> QED BY <1>6, <1>7, <1>8, <1>9

\* One context more is asked.
LEMMA ListStepOK ==
    ASSUME ClientInv, NEW p \in Procs, list_all_inner(p)
    PROVE  ClientInv'
<1> DEFINE r == proc[p]
           c == Contexts[r.at]
           rivals == IF r.then = "resolve" /\ \E w \in worlds[c] : w.name = r.name
                     THEN r.rivals \union {c} ELSE r.rivals
           asked == [r EXCEPT !.at = @ + 1, !.rivals = rivals]
<1>0. /\ form = none /\ UNCHANGED <<form, used, files, servers>> /\ r.pc = "list"
      /\ r.pc \notin Writing /\ ProcOK(r, seen) /\ ServersOK
  BY DEF list_all_inner, At, ClientInv, Writing
<1>1. /\ DOMAIN r = ProcFields /\ DOMAIN r.report = ContextSet /\ r.at \in 1 .. Len(Contexts)
      /\ Len(Contexts) \in Nat /\ c \in ContextSet
  BY <1>0, FormAssumption DEF ProcOK, ListOK, ContextSet
<1>2. PICK a :
        /\ a = [asked EXCEPT !.report[c] = worlds[c]] \/ a = [asked EXCEPT !.failures = @ \union {c}]
        /\ IF r.at < Len(Contexts) THEN Go(p, a)
           ELSE \E l \in Listed([a EXCEPT !.at = 1]) : Go(p, l)
  BY DEF list_all_inner
<1>3. /\ DOMAIN a = ProcFields /\ a.pc = "list" /\ a.at = r.at + 1 /\ a.rivals = rivals
      /\ a.then = r.then /\ a.cmd = r.cmd /\ a.short = r.short /\ a.name = r.name
      /\ DOMAIN a.report = ContextSet
      /\ \A d \in ContextSet \ {c} :
            a.report[d] = r.report[d] /\ (d \in a.failures <=> d \in r.failures)
      /\ r.failures \subseteq a.failures
      /\ c \in a.failures \/ a.report[c] = worlds[c]
  <2>1. PICK b : b = asked
    OBVIOUS
  <2>2. /\ DOMAIN b = ProcFields /\ b.pc = "list" /\ b.at = r.at + 1 /\ b.rivals = rivals
        /\ b.then = r.then /\ b.cmd = r.cmd /\ b.short = r.short /\ b.name = r.name
        /\ b.report = r.report /\ b.failures = r.failures
    BY <1>0, <1>1, <2>1 DEF ProcFields
  <2>3. CASE a = [b EXCEPT !.report[c] = worlds[c]]
    BY <1>1, <2>2, <2>3 DEF ProcFields
  <2>4. CASE a = [b EXCEPT !.failures = @ \union {c}]
    BY <1>1, <2>2, <2>4 DEF ProcFields
  <2> QED BY <1>2, <2>1, <2>3, <2>4
<1> HIDE DEF rivals
<1>4. ASSUME NEW i \in 1 .. r.at PROVE Contexts[i] \in ContextSet /\ Heard(a, Contexts[i], seen)
  <2>1. CASE i = r.at
    BY <1>0, <1>1, <1>3, <2>1 DEF Heard, ServersOK
  <2>2. CASE i # r.at
    <3>1. i \in 1 .. r.at - 1 /\ i \in DOMAIN Contexts /\ r.at \in DOMAIN Contexts
      BY <1>1, <2>2, FormAssumption
    <3>2. Contexts[i] # c /\ Contexts[i] \in ContextSet /\ Heard(r, Contexts[i], seen)
      BY <1>0, <2>2, <3>1, FormAssumption DEF ProcOK, ListOK, ContextSet
    <3> QED BY <1>3, <3>2 DEF Heard
  <2> QED BY <2>1, <2>2
<1>5. r.then = "resolve" =>
        /\ a.cmd \in Operations /\ a.short = TRUE
        /\ \A d \in a.rivals : \E i \in 1 .. r.at :
              /\ d = Contexts[i]
              /\ d \in a.failures \/ \E w \in a.report[d] : w.name = a.name
  <2>1. SUFFICES ASSUME r.then = "resolve", NEW d \in a.rivals
                 PROVE  /\ a.cmd \in Operations /\ a.short = TRUE
                        /\ \E i \in 1 .. r.at :
                              /\ d = Contexts[i]
                              /\ d \in a.failures \/ \E w \in a.report[d] : w.name = a.name
    BY <1>0, <1>3 DEF ProcOK, RivalsOK
  <2>2. a.cmd \in Operations /\ a.short = TRUE
    BY <1>0, <1>3, <2>1 DEF ProcOK, RivalsOK
  <2>3. CASE d \in r.rivals
    <3>1. PICK i \in 1 .. r.at - 1 :
            d = Contexts[i] /\ (d \in r.failures \/ \E w \in r.report[d] : w.name = r.name)
      BY <1>0, <2>1, <2>3 DEF ProcOK, RivalsOK
    <3>2. i \in 1 .. r.at /\ i # r.at /\ i \in DOMAIN Contexts /\ r.at \in DOMAIN Contexts
      BY <1>1, <3>1, FormAssumption
    <3>3. d # c /\ d \in ContextSet
      BY <3>1, <3>2, FormAssumption DEF ContextSet
    <3> QED BY <1>3, <2>2, <3>1, <3>2, <3>3
  <2>4. CASE d \notin r.rivals
    <3>1. d = c /\ \E w \in worlds[c] : w.name = r.name
      BY <1>3, <2>4 DEF rivals
    <3>2. r.at \in 1 .. r.at
      BY <1>1
    <3> QED BY <1>3, <2>2, <3>1, <3>2
  <2> QED BY <2>3, <2>4
<1>6. CASE r.at < Len(Contexts)
  <2>1. a.at \in 1 .. Len(Contexts) /\ a.at - 1 = r.at
    BY <1>1, <1>3, <1>6
  <2>2. ListOK(a, seen) /\ (a.then = "resolve" => RivalsOK(a))
    <3> HIDE DEF r, c
    <3>1. ListOK(a, seen)
      BY <1>4, <2>1 DEF ListOK
    <3>2. a.then = "resolve" => RivalsOK(a)
      BY <1>3, <1>5, <2>1 DEF RivalsOK
    <3> QED BY <3>1, <3>2
  <2>3. ProcOK(a, seen) /\ a.pc \notin Writing
    BY <1>3, <2>2 DEF ProcOK, Writing
  <2> QED BY <1>0, <1>2, <1>3, <1>6, <2>3, QuietOK
<1>7. CASE ~(r.at < Len(Contexts))
  <2>1. PICK b : b = [a EXCEPT !.at = 1]
    OBVIOUS
  <2>2. /\ DOMAIN b = ProcFields /\ b.then = a.then /\ b.cmd = a.cmd /\ b.short = a.short
        /\ b.name = a.name /\ b.report = a.report /\ b.failures = a.failures /\ b.rivals = a.rivals
    BY <1>3, <2>1 DEF ProcFields
  <2>3. r.at = Len(Contexts)
    BY <1>1, <1>7
  <2>4. ASSUME NEW d \in ContextSet PROVE Heard(b, d, seen)
    <3>1. PICK i \in 1 .. r.at : d = Contexts[i]
      BY <2>3, FormAssumption DEF ContextSet
    <3> QED BY <1>4, <2>2, <3>1 DEF Heard
  <2>5. AllHeard(b)
    <3>1. b.then = "resolve" =>
             /\ b.cmd \in Operations /\ b.short = TRUE
             /\ \A d \in b.rivals : /\ d \in ContextSet
                                    /\ d \in b.failures \/ \E w \in b.report[d] : w.name = b.name
      BY <1>3, <1>4, <1>5, <2>2
    <3> QED BY <1>3, <2>2, <2>4, <3>1 DEF AllHeard
  <2>6. PICK l \in Listed(b) : Go(p, l)
    BY <1>2, <1>7, <2>1
  <2> QED BY <1>0, <2>5, <2>6, ListedOK, QuietOK DEF Writing
<1> QED BY <1>6, <1>7

\* The steps of a command between its listing and its end.
LEMMA CommandOK ==
    ASSUME ClientInv, NEW p \in Procs, resolve_operation_target(p) \/ Command(p)
    PROVE  ClientInv'
<1> DEFINE r == proc[p]
<1>0. /\ form = none /\ UNCHANGED <<form, used, files, made, replayed>>
      /\ r.pc \in {"get", "operate"} /\ r.pc \notin Writing /\ ProcOK(r, seen) /\ ServersOK
  BY DEF resolve_operation_target, Command, At, ClientInv, Writing, servers
<1>1. CASE resolve_operation_target(p)
  <2>1. CASE Go(p, Ended)
    BY <1>0, <1>1, <2>1, EndedOK, IdleFields, QuietOK DEF resolve_operation_target, Writing
  <2>2. ASSUME NEW id, Go(p, [r EXCEPT !.pc = "operate", !.id = id]) PROVE ClientInv'
    <3>1. PICK o : o = [r EXCEPT !.pc = "operate", !.id = id]
      OBVIOUS
    <3>2. /\ DOMAIN o = ProcFields /\ o.pc = "operate" /\ o.report = r.report /\ o.cmd = r.cmd
          /\ o.short = r.short /\ o.rivals = r.rivals /\ o.ctx = r.ctx
      BY <1>0, <3>1 DEF ProcOK, ProcFields
    <3>3. ProcOK(o, seen) /\ o.pc \notin Writing
      BY <1>0, <3>2 DEF ProcOK, Writing
    <3> QED BY <1>0, <1>1, <2>2, <3>1, <3>2, <3>3, QuietOK DEF resolve_operation_target
  <2> QED BY <1>1, <2>1, <2>2 DEF resolve_operation_target
<1>2. CASE Command(p)
  <2>1. PICK l : Go(p, l) /\ ProcOK(l, seen) /\ l.pc \in {"ended", "list"}
    <3>1. PICK i : i = [Idle EXCEPT !.cmd = r.cmd]
      OBVIOUS
    <3>2. DOMAIN i = ProcFields
      BY <3>1, IdleFields
    <3> QED BY <1>2, <3>1, <3>2, EndedOK, IdleFields, ListingOK DEF Command
  <2>2. UNCHANGED <<worlds, seen>> \/ \E inventory : Serve(r.ctx, inventory)
    <3>1. r.cmd \in Operations
      BY <1>0 DEF ProcOK
    <3>2. UNCHANGED <<worlds, seen>> \/ Operate(r.cmd, r.ctx, r.id)
      BY <1>2 DEF Command
    <3> QED BY <3>1, <3>2 DEF Operate, Remove, Operations
  <2>3. ServersOK' /\ Grows
    <3>1. config' = config
      BY <1>0 DEF files
    <3>2. CASE UNCHANGED <<worlds, seen>>
      BY <1>0, <3>1, <3>2 DEF ServersOK, Grows
    <3> QED BY <1>0, <2>2, <3>1, <3>2, ServeEffect
  <2>4. \A q : MadeBy(q)' = MadeBy(q)
    BY <1>0 DEF MadeBy
  <2>5. MakerOK(p)'
    <3>1. proc'[p] = l
      BY <2>1, GoEffect DEF ClientInv
    <3> QED BY <2>1, <2>4, <3>1 DEF ClientInv, MakerOK
  <2> QED BY <1>0, <2>1, <2>3, <2>4, <2>5, StepOK DEF Writing
<1> QED BY <1>1, <1>2

\* A world that p makes is the first one it makes, and it makes no other.
LEMMA MakeOK ==
    ASSUME ClientInv, NEW p \in Procs, form = none, UNCHANGED <<form, used, files>>,
           proc[p].pc \in {"create", "api"}, MadeBy(p) = {}, NEW c, NEW name, Make(p, c, name),
           NEW r, Go(p, r), ProcOK(r, seen), r.pc \in {"ended", "list", "api"},
           r.pc = "api" => p \in replayed', replayed \subseteq replayed'
    PROVE  ClientInv'
<1>0. ServersOK /\ config' = config
  BY DEF ClientInv, files
<1>1. ServersOK' /\ Grows
  BY <1>0, ServeEffect DEF Make
<1>2. PICK id : made' = [i \in DOMAIN made \union {id} |-> IF i = id THEN p ELSE made[i]]
  BY DEF Make
<1>3. MadeBy(p)' = {id} /\ \A q \in Procs \ {p} : MadeBy(q)' \subseteq MadeBy(q)
  BY <1>2 DEF MadeBy
<1>4. proc'[p] = r
  BY GoEffect DEF ClientInv
<1>5. MakerOK(p)'
  BY <1>3, <1>4 DEF MakerOK
<1> QED BY <1>1, <1>3, <1>5, StepOK DEF Writing

\* The creation of wt new.
LEMMA RunOK ==
    ASSUME ClientInv, NEW p \in Procs, run(p) \/ retry(p)
    PROVE  ClientInv'
<1> DEFINE r == proc[p]
<1>0. /\ form = none /\ UNCHANGED <<form, used, files, replayed>>
      /\ r.pc \in {"create", "capacity"} /\ r.pc \notin Writing /\ ProcOK(r, seen) /\ MadeBy(p) = {}
  BY DEF run, retry, At, ClientInv, MakerOK, Writing, servers
<1>1. CASE UNCHANGED servers
  <2>1. CASE Go(p, Ended)
    BY <1>0, <1>1, <2>1, EndedOK, IdleFields, QuietOK DEF Writing
  <2>2. ASSUME NEW n, Go(p, n), DOMAIN n = ProcFields, n.pc \in {"create", "capacity"},
               n.report = r.report
        PROVE  ClientInv'
    <3>1. ProcOK(n, seen) /\ n.pc \notin Writing
      BY <1>0, <2>2 DEF ProcOK, Writing
    <3> QED BY <1>0, <1>1, <2>2, <3>1, QuietOK
  <2>3. CASE Go(p, [r EXCEPT !.pc = "capacity"])
    <3>1. PICK n : n = [r EXCEPT !.pc = "capacity"]
      OBVIOUS
    <3>2. DOMAIN n = ProcFields /\ n.pc = "capacity" /\ n.report = r.report
      BY <1>0, <3>1 DEF ProcOK, ProcFields
    <3> QED BY <2>2, <2>3, <3>1, <3>2
  <2>4. CASE Go(p, [r EXCEPT !.pc = "create", !.tries = @ + 1])
    <3>1. PICK n : n = [r EXCEPT !.pc = "create", !.tries = @ + 1]
      OBVIOUS
    <3>2. DOMAIN n = ProcFields /\ n.pc = "create" /\ n.report = r.report
      BY <1>0, <3>1 DEF ProcOK, ProcFields
    <3> QED BY <2>2, <2>4, <3>1, <3>2
  <2>5. CASE Go(p, Listing([Idle EXCEPT !.cmd = "new", !.tries = 1], "new"))
    <3>1. PICK i : i = [Idle EXCEPT !.cmd = "new", !.tries = 1]
      OBVIOUS
    <3>2. DOMAIN i = ProcFields
      BY <3>1, IdleFields
    <3> QED BY <1>0, <1>1, <2>5, <3>1, <3>2, ListingOK, QuietOK DEF Writing
  <2> QED BY <2>1, <2>3, <2>4, <2>5 DEF run, retry
<1>2. CASE run(p) /\ Make(p, r.ctx, r.name)
           /\ (Go(p, Listing([Idle EXCEPT !.cmd = "new", !.tries = 1], "new")) \/ Go(p, Ended))
  <2>1. PICK l : Go(p, l) /\ ProcOK(l, seen) /\ l.pc \in {"ended", "list"}
    <3>1. PICK i : i = [Idle EXCEPT !.cmd = "new", !.tries = 1]
      OBVIOUS
    <3>2. DOMAIN i = ProcFields
      BY <3>1, IdleFields
    <3> QED BY <1>2, <3>1, <3>2, EndedOK, IdleFields, ListingOK
  <2>2. r.pc = "create"
    BY <1>2 DEF run, At
  <2> QED BY <1>0, <1>2, <2>1, <2>2, MakeOK
<1> QED BY <1>0, <1>1, <1>2 DEF run, retry, servers

\* A request of wt api, sent once or again.
LEMMA CallOK ==
    ASSUME ClientInv, NEW p \in Procs, call(p)
    PROVE  ClientInv'
<1> DEFINE r == proc[p]
<1>0. /\ form = none /\ UNCHANGED <<form, used, files>> /\ r.pc = "api" /\ r.pc \notin Writing
      /\ ProcOK(r, seen) /\ (p \notin replayed => MadeBy(p) = {}) /\ ServersOK /\ config' = config
  BY DEF call, At, ClientInv, MakerOK, Writing, files
<1>1. PICK n : Go(p, n) /\ ProcOK(n, seen) /\ n.pc \in {"ended", "api"}
  <2>1. CASE Go(p, Ended)
    BY <2>1, EndedOK, IdleFields
  <2>2. CASE Go(p, [r EXCEPT !.tries = @ + 1])
    <3>1. PICK n : n = [r EXCEPT !.tries = @ + 1]
      OBVIOUS
    <3>2. DOMAIN n = ProcFields /\ n.pc = "api" /\ n.report = r.report
      BY <1>0, <3>1 DEF ProcOK, ProcFields
    <3>3. ProcOK(n, seen)
      BY <1>0, <3>2 DEF ProcOK, Writing
    <3> QED BY <2>2, <3>1, <3>2, <3>3
  <2> QED BY <2>1, <2>2 DEF call
<1>2. CASE UNCHANGED servers
  BY <1>0, <1>1, <1>2, QuietOK DEF Writing
<1>3. CASE p \notin replayed /\ replayed' = replayed \union {p} /\ Make(p, r.ctx, r.name)
  BY <1>0, <1>1, <1>3, MakeOK
<1>4. CASE p \notin replayed /\ replayed' = replayed \union {p} /\ Remove(r.ctx, r.id) /\ made' = made
  <2>1. ServersOK' /\ Grows
    BY <1>0, <1>4, ServeEffect DEF Remove
  <2>2. \A q : MadeBy(q)' = MadeBy(q)
    BY <1>4 DEF MadeBy
  <2>3. MakerOK(p)'
    <3>1. proc'[p] = n
      BY <1>1, GoEffect DEF ClientInv
    <3> QED BY <1>0, <1>1, <1>4, <2>2, <3>1 DEF MakerOK
  <2> QED BY <1>0, <1>1, <1>4, <2>1, <2>2, <2>3, StepOK DEF Writing
<1> QED BY <1>2, <1>3, <1>4 DEF call, replayable

-----------------------------------------------------------------------------
(* The managed SSH configuration *)

\* The steps of sync: p, that gets or has inventory.lock, is alone in it.
LEMMA SyncOK ==
    ASSUME ClientInv, NEW p \in Procs,
           sync(p) \/ ensure_managed_include(p) \/ replace_config(p) \/ replace_known_hosts(p)
           \/ Fail(p)
    PROVE  ClientInv'
<1> DEFINE r == proc[p]
<1>0. /\ form = none /\ UNCHANGED <<form, used, worlds, made, seen, replayed>>
      /\ r.pc \in {"lock"} \cup Writing /\ ProcOK(r, seen) /\ ServersOK /\ FilesOK /\ FormInv
  BY DEF sync, ensure_managed_include, replace_config, replace_known_hosts, Fail, At, ClientInv,
     Writing, servers
<1>1. /\ none \notin Procs /\ p # none
      /\ r.pc = "lock" => \A q \in Procs : proc[q].pc \notin Writing \/ lock = q
      /\ r.pc \in Writing => lock = p /\ \A q \in Procs \ {p} : proc[q].pc \notin Writing
  BY <1>0, CommandsAssumption DEF FilesOK
\* The next record of p, over the same report.
<1>2. ASSUME NEW n, Go(p, n), n = Ended \/ (/\ DOMAIN n = ProcFields /\ n.pc \in Writing
                                             /\ n.report = r.report),
             FilesOK', ServersOK'
      PROVE  ClientInv'
  <2>1. /\ DOMAIN proc' = Procs /\ proc'[p] = n
        /\ \A q \in Procs \ {p} : proc'[q] = proc[q]
    BY <1>2, GoEffect DEF ClientInv
  <2>2. ProcOK(n, seen) /\ n.pc \in Writing \cup {"ended"}
    <3>1. CASE n = Ended
      BY <3>1, EndedOK, IdleFields
    <3>2. CASE n # Ended
      BY <1>0, <1>2, <3>2 DEF ProcOK, Writing
    <3> QED BY <3>1, <3>2
  <2>3. ASSUME NEW q \in Procs PROVE ProcOK(proc'[q], seen') /\ MakerOK(q)'
    <3>1. MadeBy(q)' = MadeBy(q)
      BY <1>0 DEF MadeBy
    <3>2. CASE q = p
      BY <1>0, <2>1, <2>2, <3>1, <3>2 DEF ClientInv, MakerOK, Writing
    <3>3. CASE q # p
      BY <1>0, <2>1, <3>1, <3>3 DEF ClientInv, MakerOK
    <3> QED BY <3>2, <3>3
  <2>4. FormInv' /\ form' = none
    BY <1>0 DEF FormInv
  <2> QED BY <1>2, <2>1, <2>3, <2>4 DEF ClientInv
<1>3. ASSUME NEW pc \in Writing
      PROVE  LET n == [r EXCEPT !.pc = pc]
             IN  DOMAIN n = ProcFields /\ n.pc = pc /\ n.report = r.report
  BY <1>0 DEF ProcOK, ProcFields
<1>4. ASSUME NEW n, Go(p, n)
      PROVE  proc'[p] = n /\ \A q \in Procs \ {p} : proc'[q] = proc[q]
  BY <1>4, GoEffect DEF ClientInv
<1>5. config' = config => ServersOK'
  BY <1>0 DEF ServersOK
<1>6. CASE sync(p)
  <2>1. PICK n : n = [r EXCEPT !.pc = "include"]
    OBVIOUS
  <2>2. DOMAIN n = ProcFields /\ n.pc = "include" /\ n.report = r.report
    BY <1>3, <2>1 DEF Writing
  <2>3. Go(p, n) /\ lock = none /\ lock' = p /\ UNCHANGED <<config, hosts, torn>> /\ r.pc = "lock"
    BY <1>6, <2>1 DEF sync, At
  <2>4. /\ proc'[p] = n /\ \A q \in Procs \ {p} : proc'[q] = proc[q]
        /\ \A q \in Procs \ {p} : proc[q].pc \notin Writing
    BY <1>1, <1>4, <2>3
  <2>5. FilesOK'
    BY <1>0, <2>2, <2>3, <2>4 DEF FilesOK, Writing
  <2> QED BY <1>2, <1>5, <2>2, <2>3, <2>5 DEF Writing
<1>7. CASE ensure_managed_include(p)
  <2>0. UNCHANGED <<config, hosts, torn>> /\ r.pc = "include" /\ lock = p
    BY <1>1, <1>7 DEF ensure_managed_include, At, Writing
  <2>1. CASE Go(p, Ended) /\ lock' = none
    <3>1. /\ proc'[p] = Ended /\ \A q \in Procs \ {p} : proc'[q] = proc[q]
      BY <1>4, <2>1
    <3>2. FilesOK'
      BY <1>0, <1>1, <2>0, <3>1, IdleFields DEF FilesOK, Writing
    <3> QED BY <1>2, <1>5, <2>0, <2>1, <3>2
  <2>2. CASE Go(p, [r EXCEPT !.pc = "config"]) /\ lock' = lock
    <3>1. PICK n : n = [r EXCEPT !.pc = "config"]
      OBVIOUS
    <3>2. DOMAIN n = ProcFields /\ n.pc = "config" /\ n.report = r.report
      BY <1>3, <3>1 DEF Writing
    <3>3. Go(p, n) /\ proc'[p] = n /\ \A q \in Procs \ {p} : proc'[q] = proc[q]
      BY <1>4, <2>2, <3>1
    <3>4. FilesOK'
      BY <1>0, <1>1, <2>0, <2>2, <3>2, <3>3 DEF FilesOK, Writing
    <3> QED BY <1>2, <1>5, <2>0, <3>2, <3>3, <3>4 DEF Writing
  <2> QED BY <1>7, <2>1, <2>2 DEF ensure_managed_include
<1>8. CASE replace_config(p)
  <2>1. PICK n : n = [r EXCEPT !.pc = "hosts"]
    OBVIOUS
  <2>2. DOMAIN n = ProcFields /\ n.pc = "hosts" /\ n.report = r.report
    BY <1>3, <2>1 DEF Writing
  <2>3. /\ Go(p, n) /\ UNCHANGED <<lock, hosts, torn>> /\ r.pc = "config"
        /\ config' = Generated(r.report)
    BY <1>8, <2>1 DEF replace_config, At
  <2>4. proc'[p] = n /\ \A q \in Procs \ {p} : proc'[q] = proc[q]
    BY <1>4, <2>3
  <2>5. FilesOK'
    BY <1>0, <1>1, <2>2, <2>3, <2>4 DEF FilesOK, Writing
  <2>6. ServersOK'
    <3>1. \A c \in ContextSet : config'.full[c] = aliases(r.report[c])
      BY <2>3 DEF Generated
    <3>2. \A c \in ContextSet : aliases(r.report[c]) \in seen[c]
      BY <1>0 DEF ProcOK
    <3> QED BY <1>0, <3>1, <3>2 DEF ServersOK
  <2> QED BY <1>2, <2>2, <2>3, <2>5, <2>6 DEF Writing
<1>9. CASE replace_known_hosts(p)
  <2>1. /\ Go(p, Ended) /\ config' = config /\ hosts' = Generated(r.report).full /\ lock' = none
        /\ torn' = FALSE /\ r.pc = "hosts"
    BY <1>9 DEF replace_known_hosts, At
  <2>2. /\ proc'[p] = Ended /\ \A q \in Procs \ {p} : proc'[q] = proc[q]
    BY <1>4, <2>1
  <2>3. config.full = hosts'
    BY <1>0, <2>1 DEF FilesOK
  <2>4. FilesOK'
    BY <1>1, <2>1, <2>2, <2>3, IdleFields DEF FilesOK, Writing
  <2> QED BY <1>2, <1>5, <2>1, <2>4
<1>10. CASE Fail(p)
  <2>1. /\ Go(p, Ended) /\ UNCHANGED <<config, hosts>> /\ lock' = none
        /\ torn' = (torn \/ r.pc = "hosts") /\ r.pc \in Writing
    BY <1>10 DEF Fail, At, Writing
  <2>2. /\ proc'[p] = Ended /\ \A q \in Procs \ {p} : proc'[q] = proc[q]
    BY <1>4, <2>1
  <2>3. torn' \in BOOLEAN /\ (~torn' => ~torn /\ r.pc # "hosts")
    BY <2>1
  <2>4. FilesOK'
    BY <1>0, <1>1, <2>1, <2>2, <2>3, IdleFields DEF FilesOK, Writing
  <2> QED BY <1>2, <1>5, <2>1, <2>4
<1> QED BY <1>6, <1>7, <1>8, <1>9, <1>10

\* The form is left for the creation, or for nothing.
LEMMA HandleKeyOK ==
    ASSUME ClientInv, handle_key
    PROVE  ClientInv'
<1>0. /\ form # none /\ form' = none /\ UNCHANGED <<servers, files>> /\ New \in Procs
      /\ \A q \in Procs : proc[q].pc = "idle" /\ MadeBy(q) = {}
  BY CommandsAssumption DEF handle_key, ClientInv, MakerOK
<1>1. PICK n : Go(New, n) /\ ProcOK(n, seen) /\ n.pc \in {"create", "ended"}
  <2>1. CASE Go(New, Ended)
    BY <2>1, EndedOK, IdleFields
  <2>2. ASSUME NEW name, NEW c,
               Go(New, [Idle EXCEPT !.pc = "create", !.cmd = "new", !.name = name, !.ctx = c])
        PROVE  \E n : Go(New, n) /\ ProcOK(n, seen) /\ n.pc \in {"create", "ended"}
    <3>1. PICK n : n = [Idle EXCEPT !.pc = "create", !.cmd = "new", !.name = name, !.ctx = c]
      OBVIOUS
    <3>2. DOMAIN n = ProcFields /\ n.pc = "create" /\ n.report = Idle.report
      BY <3>1, IdleFields DEF ProcFields
    <3>3. ProcOK(n, seen)
      BY <3>2, IdleFields DEF ProcOK, Writing
    <3> QED BY <2>2, <3>1, <3>2, <3>3
  <2> QED BY <2>1, <2>2 DEF handle_key
<1>2. /\ DOMAIN proc' = Procs /\ proc'[New] = n
      /\ \A q \in Procs \ {New} : proc'[q] = proc[q]
  BY <1>0, <1>1, GoEffect DEF ClientInv
<1>3. UNCHANGED <<worlds, made, seen, replayed, lock, config, hosts, torn>>
  BY <1>0 DEF servers, files
<1>4. ASSUME NEW q \in Procs PROVE ProcOK(proc'[q], seen') /\ MakerOK(q)' /\ proc'[q].pc \notin Writing
  <2>1. MadeBy(q)' = {}
    BY <1>0, <1>3 DEF MadeBy
  <2> QED BY <1>0, <1>1, <1>2, <1>3, <2>1 DEF ClientInv, MakerOK, Writing
<1>5. ServersOK' /\ FilesOK'
  <2>1. ServersOK'
    BY <1>3 DEF ClientInv, ServersOK
  <2>2. \A q \in Procs : proc[q].pc \notin Writing /\ proc'[q].pc \notin Writing
    BY <1>0, <1>4 DEF Writing
  <2> QED BY <1>3, <2>1, <2>2 DEF ClientInv, FilesOK, Writing
<1> QED BY <1>0, <1>2, <1>4, <1>5 DEF ClientInv, FormInv

LEMMA ClientKept ==
    ASSUME ClientInv, (FormNext /\ UNCHANGED <<servers, proc, files>>) \/ UNCHANGED vars
    PROVE  ClientInv'
<1>1. UNCHANGED <<proc, worlds, made, seen, replayed, lock, config, hosts, torn>>
  BY DEF vars, servers, files
<1>2. FormInv' /\ (form' # none => form # none)
  BY FormStep DEF ClientInv, FormInv, vars
<1>3. \A p \in Procs : (ProcOK(proc[p], seen) /\ MakerOK(p))'
  BY <1>1 DEF ClientInv, MakerOK, MadeBy
<1> QED BY <1>1, <1>2, <1>3 DEF ClientInv, ServersOK, FilesOK

LEMMA ClientStart == Init => ClientInv
<1> SUFFICES ASSUME Init PROVE ClientInv
  OBVIOUS
<1>1. FormInv
  BY FormStart DEF Init
<1>2. /\ DOMAIN worlds = ContextSet /\ DOMAIN proc = Procs /\ \A p \in Procs : proc[p] = Idle
      /\ seen = [c \in ContextSet |-> {aliases(worlds[c])}] /\ config = Generated(worlds)
      /\ hosts = config.full /\ torn = FALSE
      /\ made = [i \in {w.id : w \in UNION {worlds[c] : c \in ContextSet}} |-> none]
  BY CommandsAssumption DEF Init, CommandsInit
<1>3. ProcOK(Idle, seen)
  BY IdleFields DEF ProcOK, Writing
<1>4. ASSUME NEW p \in Procs PROVE MakerOK(p)
  BY <1>2, CommandsAssumption DEF MakerOK, MadeBy
<1>5. ServersOK
  <2>1. \A c \in ContextSet : config.full[c] = aliases(worlds[c])
    BY <1>2 DEF Generated
  <2> QED BY <1>2, <2>1 DEF ServersOK
<1>6. FilesOK
  BY <1>2, IdleFields DEF FilesOK, Writing
<1> QED BY <1>1, <1>2, <1>3, <1>4, <1>5, <1>6, IdleFields DEF ClientInv

LEMMA ClientAlways == Spec => []ClientInv
<1>1. ClientInv /\ [Next]_vars => ClientInv'
  BY ClientKept, HandleKeyOK, RunFromOK, ListStepOK, CommandOK, RunOK, CallOK, SyncOK
     DEF Next, Over
<1> QED BY <1>1, ClientStart, PTL DEF Spec

\* What the form of wt new shows for review can be submitted as it stands,
\* and a name nobody typed is free: one more name than there are worlds cannot
\* all be taken (advance, suggested_name_from).
THEOREM ReviewsSubmittable == Spec => []ReviewIsSubmittable
<1>1. ClientInv => ReviewIsSubmittable
  BY DEF ClientInv, FormInv, ReviewIsSubmittable
<1> QED BY <1>1, ClientAlways, PTL

\* However many processes sync, list and fail at once, the two managed files
\* are of one inventory while nobody holds inventory.lock, unless the last
\* writer was cut off between them (sync_in_home).
THEOREM InventoryPublished == Spec => []OneInventoryPublished
<1>1. ClientInv => OneInventoryPublished
  BY CommandsAssumption DEF ClientInv, FilesOK, OneInventoryPublished, Writing
<1> QED BY <1>1, ClientAlways, PTL

\* Each context's part of the managed configuration is an inventory its server
\* had at some moment (sync_complete_inventory).
THEOREM PublishedTrue == Spec => []PublishedWasTrue
<1>1. ClientInv => PublishedWasTrue
  BY DEF ClientInv, ServersOK, PublishedWasTrue
<1> QED BY <1>1, ClientAlways, PTL

\* A command makes at most one world, with capacity retries, lost answers and
\* requests of wt api that are sent again (run, call).
THEOREM CommandMakesOne == Spec => []OneWorldPerCommand
<1>1. ASSUME ClientInv, NEW p \in Procs PROVE Cardinality(MadeBy(p)) <= 1
  <2>1. CASE MadeBy(p) = {}
    BY <2>1, FS_EmptySet
  <2>2. CASE MadeBy(p) # {}
    <3>1. PICK i : MadeBy(p) = {i}
      BY <1>1, <2>2 DEF ClientInv, MakerOK
    <3> QED BY <3>1, FS_Singleton
  <2> QED BY <2>1, <2>2
<1>2. ClientInv => OneWorldPerCommand
  BY <1>1 DEF OneWorldPerCommand, MadeBy
<1> QED BY <1>2, ClientAlways, PTL

\* A name without its context is acted on only where no other context had a
\* world of that name as the command asked them (resolve, list_all).
THEOREM NamesUnambiguous == Spec => []ActsUnambiguously
<1>1. ClientInv => ActsUnambiguously
  BY DEF ClientInv, ProcOK, ActsUnambiguously
<1> QED BY <1>1, ClientAlways, PTL

=============================================================================
