----------------------- MODULE MCSingleInitiatorRouter -----------------------
(***************************************************************************)
(* Four bytes, in two granules for the tags and two for the reservations.  *)
(***************************************************************************)
EXTENDS SingleInitiatorRouter

(* The last one is refused: a range has at least two bytes.                *)
MCRanges ==
  {[base |-> 0, top |-> 1], [base |-> 2, top |-> 3], [base |-> 0, top |-> 3], [base |-> 1, top |-> 1]}

(* Scatters of single bytes over both granules, one of elements that span  *)
(* them, and stores of unit stride, over both granules and within one,     *)
(* with and without the first element.                                     *)
MCVectors ==
  {[addresses |-> a, mask |-> m, el_size |-> 1] :
     a \in {<<0, 2>>, <<3, 1>>}, m \in {<<TRUE, TRUE>>, <<FALSE, TRUE>>}}
  \cup {[addresses |-> <<0, 1>>, mask |-> <<TRUE, TRUE>>, el_size |-> 2]}
  \cup {[addresses |-> a, mask |-> m, el_size |-> 1] :
          a \in {<<1>>, <<2>>}, m \in {<<TRUE, TRUE>>, <<FALSE, TRUE>>}}

(* Of the history only the stores to granules that are reserved now matter *)
(* to ReservationsTracked (a new reservation forgets those before it), and *)
(* none once a store was not contained.                                    *)
View ==
  <<tags, ll_tag_set, capability, contained /\ ll_tag_set \cap stored # {}, contained, targets, default_target>>
=============================================================================
