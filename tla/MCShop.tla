--------------------------------- MODULE MCShop ---------------------------------
(* Instances of Shop for TLC: two rows and an id without a row. *)
EXTENDS Shop

CONSTANTS row, spare

InitialStock == [i \in {row, spare} |-> IF i = row THEN 2 ELSE 1]

TakesFrom(i, n) == [j \in {row, spare} |-> IF j = i THEN n ELSE 0]
OrderOf(i, n)   == [finds |-> {i}, asked |-> n, takes |-> TakesFrom(i, n)]

GiveOne   == OrderOf(row, -1)   \* stoi() takes a sign
TakeTwo   == OrderOf(row, 2)
TakeSpare == OrderOf(spare, 1)
NoSuchRow == [finds |-> {}, asked |-> 2, takes |-> TakesFrom(row, 0)]
\* "1e1": stoi() stops at the letter, the database does not.  3 stands for 10.
Exponent  == [finds |-> {row}, asked |-> 1, takes |-> TakesFrom(row, 3)]

SomeOrders == {GiveOne, TakeTwo, TakeSpare, NoSuchRow, Exponent}
================================================================================
