----------------------------- MODULE MCRoundTrip -----------------------------
(***************************************************************************)
(* RoundTrip for TLC.  Both sides leave what a closed row said in their    *)
(* per-depth arrays, and overwrite it when the depth is opened again; two  *)
(* states that differ there only have the same future, and are told apart  *)
(* by neither the next-state relation nor the invariants.                  *)
(***************************************************************************)
EXTENDS RoundTrip

\* The entries of an array that the next step can read.
Upto(n, f) == [i \in {j \in DOMAIN f : j < n} |-> f[i]]

\* A "/" may still follow the row that closed at this depth.
Rejoins == array_depth + (IF w_after_row_end \/ w_after_dim THEN 1 ELSE 0)

Frames == [l \in 0..array_nesting_level |->
              IF l < array_nesting_level THEN arr_frames[l]
              ELSE [open |-> arr_frames[l].open_struct_level,
                    dim  |-> IF arr_frames[l].in_dim_seq \/ next_state = "array_outro"
                             THEN <<arr_frames[l].in_dim_seq, arr_frames[l].dim_row_size>> ELSE <<>>]]

live ==
    <<stream, w_awaiting_value, need_semi, annotated, gov, emitted_unit, w_after_row_end, w_after_dim,
      commas[1], struct_depth, array_depth, in_octet_stream,
      Upto(Rejoins, arr_gov), Upto(Rejoins, arr_emitted_unit),
      Upto(Rejoins, arr_dim_set), Upto(Rejoins, [i \in Depths |-> IF arr_dim_set[i] THEN arr_dim_count[i] ELSE 0]),
      Upto(array_depth, arr_count), Upto(array_depth, arr_need_comma),
      Upto(array_depth, struct_depth_at_array_start),
      status, next_state, last_state, token_type, in_array_element, ver_checked,
      struct_nesting_level, array_nesting_level, Frames, curr_row_size, array_row_size, array_items,
      value_type, trip>>
=============================================================================
