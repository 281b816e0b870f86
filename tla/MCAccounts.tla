----------------------------- MODULE MCAccounts -----------------------------
(* Small instances of MerchantAccount, UserSessions and Staff for TLC.     *)
EXTENDS MerchantAccount, UserSessions, Staff, TLC

\* The three share only the process that serves the requests, and are explored
\* one at a time.
VARIABLE explored

merchants == <<user, merchant, session, rows, spent, broken, hadStore>>
sessions == <<role, account, now, given>>
vars == <<merchants, sessions, staff, jobs, alone, explored>>

\* Any user and phone may be the first; which one makes no difference.
First(things) == CHOOSE thing \in things : TRUE

Init ==
  /\ AccountInit /\ SessionInit /\ StaffInit /\ NoRequests
  /\ users[First(People)] # NULL /\ users[First(People)].phone = First(Phones)
  /\ explored \in {"merchants", "sessions", "staff"}
  /\ explored # "sessions" => role = "ADMIN"

Symmetric ==
  Permutations(Servers) \cup Permutations(Methods) \cup Permutations(Passwords)
    \cup Permutations(People \ {First(People)}) \cup Permutations(Phones \ {First(Phones)})

Next ==
  /\ \/ explored = "merchants" /\ AccountNext /\ UNCHANGED <<sessions, staff>>
     \/ explored = "sessions" /\ SessionNext /\ UNCHANGED <<merchants, staff>>
     \/ explored = "staff" /\ StaffNext /\ UNCHANGED <<merchants, sessions>>
  /\ UNCHANGED explored

Spec == Init /\ [][Next]_vars

\* Tables and requests in progress are well-typed: no request writes a column of
\* one table, or a status of one kind of row, into another.
TypesOK == AccountTypeOK /\ SessionTypeOK /\ StaffTypeOK

-----------------------------------------------------------------------------
(* Bounds.                                                                 *)

\* Methods and stores share nothing either; nothing is stated of stores when
\* requests overlap.
Untouched(items) == \A i \in items : New(i)
Merchants == Untouched(Stores) \/ (Untouched(Methods) /\ alone)

\* Nothing is stated of users other than admins when requests overlap.
Sessions == alone \/ (role = "ADMIN" /\ Cardinality(sent) <= 1 /\ now <= 2)

\* Once requests overlap, what is stated of the staff does not depend on who is
\* active, and no registration that broke off is followed any further.
Desks == alone \/ (cutOff = {} /\ \A p \in Users : users[p].active)

Apart ==
  /\ explored = "merchants" => Merchants
  /\ explored = "sessions" => Sessions
  /\ explored = "staff" => Desks

=============================================================================
