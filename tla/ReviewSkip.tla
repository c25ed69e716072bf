------------------------------ MODULE ReviewSkip ------------------------------
(* The pass over the change outputs that precedes every screen of the review *)
(* (skip_change_outputs and check_output_index_state, src/ui/display.c), as  *)
(* the loop it is: the change indices are copied, sorted, and gone through   *)
(* once.  SignTx takes it for "skip while the next output is change".        *)
EXTENDS Integers, Sequences, SequencesExt

\* What the pass works on: the counters of tx_info, and what it led to.
Review(display, confirmed, buffered, total) ==
  [display_index |-> display, confirmed_outputs |-> confirmed,
   buffer_output_len |-> buffered, outputs_len |-> total, next |-> "none"]

\* Mutant: the last place is never looked at.
SortStepShort(list, i) ==
  LET m == CHOOSE m \in i..(Len(list) - 1) : \A k \in i..(Len(list) - 1) : list[m] <= list[k]
  IN [list EXCEPT ![i] = list[m], ![m] = list[i]]

\* inplace_selection_sort: the first of the least elements comes to place i.
SortStep(list, i) ==
  LET m == CHOOSE m \in i..Len(list) : /\ \A k \in i..Len(list) : list[m] <= list[k]
                                       /\ \A k \in i..(m - 1) : list[k] > list[m]
  IN [list EXCEPT ![i] = list[m], ![m] = list[i]]

inplace_selection_sort(list) ==
  LET sorted[i \in 0..(Len(list) - 1)] == IF i = 0 THEN list ELSE SortStep(sorted[i - 1], i)
  IN sorted[Len(list) - 1]

\* check_output_index_state: ask for the approval, or for more data.
check_output_index_state(r) ==
  CASE r.confirmed_outputs = r.outputs_len -> [r EXCEPT !.next = "confirm"]
    [] /\ r.confirmed_outputs # r.outputs_len
       /\ r.display_index = r.buffer_output_len ->
         [r EXCEPT !.next = "more", !.buffer_output_len = 0, !.display_index = 0]
    [] OTHER -> r

\* uint8_t
Incr(b) == (b + 1) % 256
Advance(r) == [r EXCEPT !.display_index = Incr(@), !.confirmed_outputs = Incr(@)]

skip_change_outputs(r, change) ==
  LET indices == inplace_selection_sort(change)
      pass[i \in 0..Len(change)] ==
        IF i = 0 THEN r
        ELSE LET before == pass[i - 1]
             IN IF before.next = "none" /\ before.confirmed_outputs = indices[i]
                THEN check_output_index_state(Advance(before))
                ELSE before
  IN pass[Len(change)]

\* prepare_display_output, before it shows anything.
prepare_display_output(r, change) ==
  LET checked == check_output_index_state(r)
  IN IF checked.next # "none" THEN checked ELSE skip_change_outputs(checked, change)

\* ui_confirm_output(true), up to the next screen.
ui_confirm_output(r, change) ==
  LET skipped == skip_change_outputs(Advance(r), change)
  IN IF skipped.next # "none" THEN skipped ELSE prepare_display_output(skipped, change)

===============================================================================
