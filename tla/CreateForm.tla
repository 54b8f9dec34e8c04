----------------------------- MODULE CreateForm -----------------------------
(***************************************************************************)
(* The form in which a world is described before it is created.  A text is *)
(* abstracted to what its parser makes of it: nothing, no number, or a     *)
(* number of Width bits; a name is one of the numbered suggestions, good   *)
(* for any other valid name, or bad.                                       *)
(***************************************************************************)
EXTENDS Integers, Sequences, FiniteSets, FiniteSetsExt

CONSTANTS
    Contexts,      \* configured contexts, in order
    Width,         \* bits of a number
    Gib,           \* units of memory in one GiB
    Totals,        \* by context, the memory and disk of its server in GiB
    Texts,         \* numbers a user types
    Combinations,  \* adjectives times animals
    none, blank, junk,   \* no form; no text; a text that is no number
    good, bad            \* a valid and an invalid name other than the suggestions

ASSUME FormAssumption ==
    /\ Len(Contexts) \in Nat \ {0} /\ DOMAIN Contexts = 1..Len(Contexts)
    /\ \A i, j \in DOMAIN Contexts : Contexts[i] = Contexts[j] => i = j
    /\ none \notin {Contexts[i] : i \in DOMAIN Contexts}
    /\ {Width, Gib, Combinations} \subseteq Nat \ {0}
    /\ Texts \subseteq 0..(2^Width - 1)

VARIABLES form,        \* Form while it is open, otherwise none
          used         \* names of the listed worlds and of waiting creations

Numbers == 0..(2^Width - 1)
Top == 2^Width - 1
Powers == {2^i : i \in 0..(Width - 1)}
HOST_FIELDS == <<"Context", "Name", "Vcpus", "Memory", "Disk">>
OK_FOCUS == Len(HOST_FIELDS) + 1
DEFAULT == [Vcpus |-> 2, Memory |-> 4 * Gib, Disk |-> 4]
Sized == DOMAIN DEFAULT

\* suggested_name_from: the first free combination from a random one on, round
\* the end of the table; then world-1, world-2, ...
suggested_name_from(names, start) ==
    LET Free(offsets, NameAt(_)) == {o \in offsets : NameAt(o) \notin names}
        Combination(o) == ((start % Combinations) + o) % Combinations
        Numbered(o) == Combinations + o
        free == Free(0..(Combinations - 1), Combination)
    IN IF free # {} THEN Combination(Min(free))
       ELSE Numbered(Min(Free(1..(Cardinality(names) + 1), Numbered)))

number(f, field) == IF f[field] \in {blank, junk} THEN DEFAULT[field] ELSE f[field]

\* validate and parse_number: nothing means the default, zero is refused.
validate(f, field) ==
    CASE field = "Context" -> TRUE
      [] field = "Name" -> f.Name # bad
      [] OTHER -> f[field] \notin {junk, 0}

input_valid(f) == \A i \in DOMAIN HOST_FIELDS : validate(f, HOST_FIELDS[i])

AtMost(bound) == Max({x \in Powers : x <= bound})

\* The next power of two, up or down, at most the largest one within the limit.
step_power_of_two(value, increase, limit) ==
    LET v == Max({value, 1})
        above == {x \in Powers : x > v}
        stepped == IF increase THEN (IF above = {} THEN v ELSE Min(above))
                   ELSE IF v = 1 THEN 1 ELSE AtMost(v - 1)
    IN IF limit = 0 THEN stepped ELSE Min({stepped, AtMost(limit)})

DivCeil(n, d) == (n + d - 1) \div d
capacity(f) == Totals[Contexts[f.Context]]

Stepped(f, increase) ==
    LET field == HOST_FIELDS[f.focus]
    IN CASE field = "Vcpus" ->
              IF increase THEN Min({number(f, field) + 1, Top})
              ELSE Max({number(f, field) - 1, 1})
         [] field = "Memory" ->
              Min({Gib * step_power_of_two(DivCeil(number(f, field), Gib), increase,
                                           capacity(f).memory), Top})
         [] field = "Disk" ->
              step_power_of_two(number(f, field), increase, capacity(f).disk)

Opened(start) ==
    [Context |-> 1, Name |-> suggested_name_from(used, start), suggestion |-> TRUE,
     Vcpus |-> blank, Memory |-> blank, Disk |-> blank, focus |-> OK_FOCUS,
     stage |-> "fields", error |-> FALSE]

FormInit ==
    /\ used \in SUBSET (0..Combinations)
    /\ \E start \in Numbers : form = Opened(start)
-----------------------------------------------------------------------------
Focused == IF form.focus = OK_FOCUS THEN "Ok" ELSE HOST_FIELDS[form.focus]
Editing == form # none /\ form.stage = "fields"

\* Tab, the arrows and the mouse; a click on OK also advances.
move_focus ==
    /\ Editing
    /\ form' = [form EXCEPT !.focus = IF @ = OK_FOCUS THEN 1 ELSE @ + 1, !.error = FALSE]
    /\ UNCHANGED used

move_context ==
    /\ Editing /\ Focused = "Context"
    /\ form' = [form EXCEPT !.Context = IF @ = Len(Contexts) THEN 1 ELSE @ + 1]
    /\ UNCHANGED used

step(increase) ==
    /\ Editing /\ Focused \in Sized
    /\ form' = [form EXCEPT ![Focused] = Stepped(form, increase), !.error = FALSE]
    /\ UNCHANGED used

\* Typing, deleting and pasting, by the text that results.
Type ==
    /\ Editing /\ Focused \in Sized \union {"Name"}
    /\ \E text \in IF Focused = "Name" THEN {good, bad} ELSE Texts \union {blank, junk} :
          form' = [form EXCEPT ![Focused] = text, !.error = FALSE,
                               !.suggestion = @ /\ Focused # "Name"]
    /\ UNCHANGED used

\* Mutant: the OK button looks only at the focused field, and it has none.
advance_unchecked ==
    /\ Editing
    /\ form' = IF Focused = "Ok" THEN [form EXCEPT !.stage = "review", !.error = FALSE]
               ELSE [form EXCEPT !.focus = @ + 1, !.error = FALSE]
    /\ UNCHANGED used

\* Enter in a field checks that field; on OK it checks all of them.
advance ==
    /\ Editing
    /\ form' =
        IF Focused = "Ok"
        THEN IF input_valid(form) THEN [form EXCEPT !.stage = "review", !.error = FALSE]
             ELSE [form EXCEPT !.error = TRUE]
        ELSE IF validate(form, Focused) THEN [form EXCEPT !.focus = @ + 1, !.error = FALSE]
             ELSE [form EXCEPT !.error = TRUE]
    /\ UNCHANGED used

\* b in the review: back to the fields.
edit ==
    /\ form # none /\ form.stage = "review"
    /\ form' = [form EXCEPT !.stage = "fields"]
    /\ UNCHANGED used

FormNext == \/ move_focus \/ move_context \/ Type \/ advance \/ edit
            \/ \E increase \in BOOLEAN : step(increase)
-----------------------------------------------------------------------------
(* Properties.                                                             *)

\* What is shown for review can be submitted as it stands, whatever was typed,
\* stepped and corrected before; and a name nobody typed is a free one.
ReviewIsSubmittable ==
    form # none =>
        /\ form.stage = "review" => input_valid(form)
        /\ form.suggestion => form.Name \notin used
=============================================================================
