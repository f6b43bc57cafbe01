---------------------------- MODULE Subsequences ----------------------------
(***************************************************************************)
(* Parts of sequences that a loop of the code leaves when it goes through  *)
(* a vector and keeps, or erases, some of its elements.                    *)
(***************************************************************************)
EXTENDS Integers, Sequences

\* The elements of a sequence at these places, in their order.
ElementsAt(s, places) ==
    LET upto[i \in 0..Len(s)] ==
          IF i = 0 THEN <<>> ELSE IF i \in places THEN Append(upto[i - 1], s[i]) ELSE upto[i - 1]
    IN upto[Len(s)]

\* Those that pass the test.
Those(s, Test(_)) == ElementsAt(s, {i \in DOMAIN s : Test(s[i])})

=============================================================================
