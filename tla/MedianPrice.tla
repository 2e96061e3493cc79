---------------------------- MODULE MedianPrice ----------------------------
(***************************************************************************)
(* OracleRounds._median, the price a round settles with, and the value the *)
(* aggregation service and the daemon compute in its place (Median in      *)
(* backend/internal/oracle/aggregate.go).  The contract sorts by insertion,*)
(* the service with the sort of its library, of which the result is        *)
(* modelled.  Positions count from 1 here, from 0 in the code.             *)
(***************************************************************************)
EXTENDS Integers, FiniteSets, Sequences

(* The inner loop stops one place short of the front.                      *)
MutantLandsAt(a, i) ==
  CHOOSE p \in 2..i : /\ p = 2 \/ a[p - 1] <= a[i]
                      /\ \A q \in (p + 1)..i : a[q - 1] > a[i]

(* Where the inner loop, which goes down from i past the greater elements, *)
(* leaves the key a[i].                                                    *)
LandsAt(a, i) ==
  CHOOSE p \in 1..i : /\ p = 1 \/ a[p - 1] <= a[i]
                      /\ \A q \in (p + 1)..i : a[q - 1] > a[i]

(* One turn of the outer loop: the elements passed move up by a place.     *)
Insert(a, i) ==
  LET p == LandsAt(a, i)
  IN [k \in DOMAIN a |-> CASE k \in p + 1..i -> a[k - 1]
                           [] k = p          -> a[i]
                           [] OTHER          -> a[k]]

(* The array after each turn, and at the end of the outer loop.            *)
InsertionSort(values) ==
  LET turn[i \in 0..Len(values)] ==
        IF i <= 1 THEN values ELSE Insert(turn[i - 1], i)
  IN turn[Len(values)]

(* The middle value, or the mean of the two.                               *)
Middle(sorted) ==
  LET mid == Len(sorted) \div 2
  IN IF Len(sorted) % 2 = 1
     THEN sorted[mid + 1]
     ELSE (sorted[mid] + sorted[mid + 1]) \div 2

Median(values) == Middle(InsertionSort(values))

-----------------------------------------------------------------------------
(* The values a sort leaves at or before the i-th one: those that are      *)
(* smaller and, of equal ones, those that came no later.                   *)
UpTo(values, i) ==
  {j \in 1..Len(values) :
     values[j] < values[i] \/ (values[j] = values[i] /\ j <= i)}

(* sort.Slice, by its result. *)
Sorted(values) ==
  [k \in 1..Len(values) |->
     values[CHOOSE i \in 1..Len(values) : Cardinality(UpTo(values, i)) = k]]

ServiceMedian(values) == Middle(Sorted(values))
=============================================================================
