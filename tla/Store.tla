--------------------------------- MODULE Store ---------------------------------
(***************************************************************************)
(* What a business server promises to the buyers who share its table: a     *)
(* purchase looks at the stock and takes from it in one step, and takes no  *)
(* more than there is.  The buyer is told of it, or is told of a failure    *)
(* although the goods are gone; nobody is told of goods that were not taken.*)
(* Nothing is promised for a row once it is spoilt, by an order that is not *)
(* one amount of one row, or by an answer that came to the wrong call.      *)
(***************************************************************************)
EXTENDS Integers

CONSTANTS Rows,      \* the goods
          Initial,   \* the stock of each at the start
          Nums       \* the amounts a buyer may name: a negative one gives back

VARIABLES stock,     \* what is left of each
          sold,      \* what buyers were told they got of each
          added,     \* what negative amounts put back into the stock of each
          spoilt     \* the goods for which nothing is promised any more

storeVars == <<stock, sold, added, spoilt>>

StoreInit ==
    /\ stock = Initial /\ spoilt = {}
    /\ sold = [i \in Rows |-> 0] /\ added = [i \in Rows |-> 0]

Goods(i, n) ==
    /\ n <= stock[i]
    /\ stock' = [stock EXCEPT ![i] = @ - n]
    /\ added' = [added EXCEPT ![i] = IF n < 0 THEN @ - n ELSE @]
    /\ UNCHANGED spoilt

Purchase(i, n) ==
    /\ Goods(i, n)
    /\ sold' = [sold EXCEPT ![i] = IF n > 0 THEN @ + n ELSE @]

\* The answer says that it failed: the connection was lost after the goods were taken.
Unacknowledged(i, n) == Goods(i, n) /\ UNCHANGED sold

SpoilRows(I) ==
    /\ spoilt' = spoilt \cup I
    /\ \A i \in Rows \ I : stock'[i] = stock[i] /\ sold'[i] = sold[i] /\ added'[i] = added[i]

StoreNext ==
    \/ \E i \in Rows, n \in Nums : Purchase(i, n) \/ Unacknowledged(i, n)
    \/ \E I \in SUBSET Rows : SpoilRows(I)

StoreSpec == StoreInit /\ [][StoreNext]_storeVars
================================================================================
