------------------------------- MODULE Lists -------------------------------
(***************************************************************************)
(* The loops over slices that the code repeats: a range loop that appends  *)
(* the elements that pass a test, or adds them up.  SelectSeq and FoldLeft *)
(* say the same, by recursive operators whose results cannot be proved; a  *)
(* recursive function can be reasoned about (Lists_proofs).                *)
(***************************************************************************)
EXTENDS Integers, Sequences

\* The elements of a list at the given places, in order.
ElementsAt(list, places) ==
    LET upTo[n \in Nat] ==
            IF n = 0 THEN <<>>
            ELSE IF n \in places THEN Append(upTo[n - 1], list[n]) ELSE upTo[n - 1]
    IN upTo[Len(list)]

\* The elements that are in a set.
KeptIn(list, set) == ElementsAt(list, {i \in DOMAIN list : list[i] \in set})

\* The first of each group of equal elements, in order.
FirstsOnly(list) ==
    ElementsAt(list, {i \in DOMAIN list : \A j \in 1 .. i - 1 : list[j] # list[i]})

\* The sum of a list of amounts.
Total(amounts) ==
    LET upTo[n \in 0 .. Len(amounts)] == IF n = 0 THEN 0 ELSE upTo[n - 1] + amounts[n]
    IN upTo[Len(amounts)]
=============================================================================
