------------------------------ MODULE Selection ------------------------------
(***************************************************************************)
(* The selection of the elements of a sequence that are in a set, in their *)
(* order: SelectSeq for a test that is a set, written out as a recursive   *)
(* function so that facts about it can be proved (module InductionFacts).  *)
(***************************************************************************)
EXTENDS Naturals, Sequences

Selected(s, T) ==
  LET kept[n \in 0..Len(s)] ==
        IF n = 0 THEN <<>>
        ELSE IF s[n] \in T THEN Append(kept[n - 1], s[n]) ELSE kept[n - 1]
  IN kept[Len(s)]
=============================================================================
