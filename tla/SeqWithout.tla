----------------------------- MODULE SeqWithout -----------------------------
(***************************************************************************)
(* Sequences rid of some of their members: SelectSeq of a test of          *)
(* membership, as a recursive function, which can be reasoned about.       *)
(***************************************************************************)
EXTENDS Naturals, Sequences

\* What is left of s, in its order, without the members of gone.
Without(s, gone) ==
    LET left[n \in 0..Len(s)] == IF n = 0 THEN <<>>
                                 ELSE IF s[n] \in gone THEN left[n - 1]
                                 ELSE Append(left[n - 1], s[n])
    IN  left[Len(s)]

=============================================================================
