--------------------------- MODULE MCOrderIntake ---------------------------
(* Small instances of OrderIntake for TLC. *)
EXTENDS OrderIntake, TLC

OneHub == [r \in Riders |-> CHOOSE hub \in Hubs : TRUE]

Symmetric == Permutations(Orders) \cup Permutations(Pickups) \cup Permutations(Customers) \cup Permutations(Phones)
             \cup Permutations(Servers)

\* What is checked of overlapping requests, and of several customers or one who
\* goes away, is about numbers and customers only, so that these are explored where
\* stores have no hub and no pickup requests.
OneCustomer == Cardinality({c \in Customers : customers[c] # NULL}) <= 1
Apart == (alone /\ ~touched /\ OneCustomer) \/ \A s \in Stores : storeHub[s] = NULL

=============================================================================
