------------------------------ MODULE ListOps ------------------------------
(***************************************************************************)
(* Lists that lose some of their elements.                                 *)
(***************************************************************************)
EXTENDS Integers, Sequences

(* The elements of seq that are in S, in their order.  (SelectSeq, with a  *)
(* set for the test and its recursion written out, so that it can be       *)
(* reasoned about.)                                                        *)
Kept(seq, S) ==
    LET kept[n \in 0 .. Len(seq)] ==
            IF n = 0 THEN << >>
            ELSE IF seq[n] \in S THEN Append(kept[n - 1], seq[n]) ELSE kept[n - 1]
    IN  kept[Len(seq)]
=============================================================================
