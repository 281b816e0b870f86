---------------------------- MODULE UserSessions ----------------------------
(***************************************************************************)
(* One user's account as auth.service.ts and users.service.ts keep it: the *)
(* password, the refresh token of his session, and the code that resets a  *)
(* forgotten password.                                                     *)
(*                                                                         *)
(* Each operation reads the user's row, and writes columns of it by a      *)
(* later statement.  The staff's operations on riders, and a merchant's    *)
(* on his profile, save the whole row instead; those on admins read, and   *)
(* save, only the columns that are selected.                               *)
(*                                                                         *)
(* Time is counted in seconds.  A refresh token holds the user and the     *)
(* second it was issued in, so that two of one second are the same token.  *)
(* Codes are random, and taken to differ.  Whether a merchant is approved  *)
(* is left to MerchantAccount.                                             *)
(***************************************************************************)
EXTENDS Requests, Naturals

CONSTANTS
  Roles,         \* ADMIN is the one whose columns are selected
  Passwords,
  Codes,
  CodeLife,      \* how long a code is valid
  TokenLife,     \* how long a refresh token is valid
  MaxTime        \* bound: the clock stops here

Seconds == 1 .. MaxTime
NoToken == 0

User ==
  [active : BOOLEAN, password : Passwords, token : Seconds \cup {NoToken},
   code : Codes \cup {NULL}, until : 0 .. MaxTime + CodeLife]

SessionSteps ==
  {"mint", "token", "forget", "password", "code", "reset", "columns", "row"}

Call ==
  [step : SessionSteps, old : Seconds \cup {NoToken}, token : Seconds \cup {NoToken},
   password : Passwords \cup {NULL}, code : Codes \cup {NULL},
   until : 0 .. MaxTime + CodeLife, row : User \cup {NULL}]

NewCall ==
  [step |-> "mint", old |-> NoToken, token |-> NoToken, password |-> NULL, code |-> NULL,
   until |-> 0, row |-> NULL]

ASSUME SessionAssumption ==
  /\ CodeLife \in Nat /\ TokenLife \in Nat /\ MaxTime \in Nat \ {0}
  /\ NULL \notin Passwords \cup Codes \cup User

VARIABLES
  role,
  account,     \* the user's row
  now,
  held,        \* refresh tokens that were given to the user
  replaced,    \* those that were exchanged for another one
  loggedOut,   \* those that were logged out with
  sent,        \* codes that were made
  used,        \* codes that reset the password
  newest       \* the password that was last set

sessionVars == <<role, account, now, held, replaced, loggedOut, sent, used, newest, jobs, alone>>
given == <<held, replaced, loggedOut, sent, used, newest>>

SessionTypeOK ==
  /\ role \in Roles
  /\ account \in User
  /\ now \in Seconds
  /\ \A k \in Servers : jobs[k].step \in SessionSteps => jobs[k] \in Call
  /\ held \subseteq Seconds /\ replaced \subseteq held /\ loggedOut \subseteq held
  /\ used \subseteq sent /\ sent \subseteq Codes
  /\ newest \in Passwords

SessionInit ==
  /\ role \in Roles
  /\ \E pw \in Passwords :
       /\ account = [active |-> TRUE, password |-> pw, token |-> NoToken, code |-> NULL, until |-> 0]
       /\ newest = pw
  /\ now = 1
  /\ held = {} /\ replaced = {} /\ loggedOut = {} /\ sent = {} /\ used = {}

-----------------------------------------------------------------------------
Calls(k, call) == Starts(k, call) /\ UNCHANGED <<role, account, now, given>>
Verified(t) == t \in held /\ now < t + TokenLife

(* Sessions.                                                               *)

LogIn(k, password) ==
  /\ account.password = password
  /\ account.active
  /\ Calls(k, NewCall)

Refresh(k, t) ==
  /\ Verified(t)
  /\ account.token = t
  /\ Calls(k, [NewCall EXCEPT !.old = t])

\* What else the access token needs is read before the tokens are made.
GenerateTokens(k) ==
  /\ At(k, "mint")
  /\ Continues(k, [jobs[k] EXCEPT !.step = "token", !.token = now])
  /\ UNCHANGED <<role, account, now, given>>

UpdateRefreshToken(k) ==
  /\ At(k, "token")
  /\ LET call == jobs[k]
     IN  /\ account' = [account EXCEPT !.token = call.token]
         /\ held' = held \cup {call.token}
         /\ replaced' = (replaced \cup ({call.old} \ {NoToken})) \ {call.token}
         /\ loggedOut' = loggedOut \ {call.token}
  /\ Ends(k)
  /\ UNCHANGED <<role, now, sent, used, newest>>

Logout(k, t) ==
  /\ Verified(t)
  /\ account.token = t
  /\ Calls(k, [NewCall EXCEPT !.step = "forget", !.old = t])

\* No token is passed on as undefined, for which the column keeps its value.
ForgetRefreshToken(k) ==
  /\ At(k, "forget")
  /\ loggedOut' = loggedOut \cup {jobs[k].old}
  /\ Ends(k)
  /\ UNCHANGED <<role, account, now, held, replaced, sent, used, newest>>

-----------------------------------------------------------------------------
(* Passwords.                                                              *)

\* By a user who has an access token, which outlives the refresh tokens.
ChangePassword(k, old, new) ==
  /\ held # {}
  /\ account.password = old
  /\ Calls(k, [NewCall EXCEPT !.step = "password", !.password = new])

UpdatePassword(k) ==
  /\ At(k, "password")
  /\ account' = [account EXCEPT !.password = jobs[k].password]
  /\ newest' = jobs[k].password
  /\ Ends(k)
  /\ UNCHANGED <<role, now, held, replaced, loggedOut, sent, used>>

ForgotPassword(k, c) ==
  /\ c \notin sent
  /\ Starts(k, [NewCall EXCEPT !.step = "code", !.code = c, !.until = now + CodeLife])
  /\ sent' = sent \cup {c}
  /\ UNCHANGED <<role, account, now, held, replaced, loggedOut, used, newest>>

UpdateOtp(k) ==
  /\ At(k, "code")
  /\ account' = [account EXCEPT !.code = jobs[k].code, !.until = jobs[k].until]
  /\ Ends(k)
  /\ UNCHANGED <<role, now, given>>

ResetPassword(k, c, new) ==
  /\ account.code = c
  /\ now <= account.until
  /\ Calls(k, [NewCall EXCEPT !.step = "reset", !.code = c, !.password = new])

UpdatePasswordAndClearOtp(k) ==
  /\ At(k, "reset")
  /\ account' = [account EXCEPT !.password = jobs[k].password, !.code = NULL, !.until = 0]
  /\ newest' = jobs[k].password
  /\ used' = used \cup {jobs[k].code}
  /\ Ends(k)
  /\ UNCHANGED <<role, now, held, replaced, loggedOut, sent>>

-----------------------------------------------------------------------------
(* The staff, and the user himself, edit the user.                         *)

\* Riders are updated, deactivated and activated, merchants change their
\* profile: the row is read, and saved whole.
EditUser(k, active) ==
  /\ role # "ADMIN"
  /\ Calls(k, [NewCall EXCEPT !.step = "row", !.row = [account EXCEPT !.active = active]])

SaveUser(k) ==
  /\ At(k, "row")
  /\ account' = jobs[k].row
  /\ Ends(k)
  /\ UNCHANGED <<role, now, given>>

\* Mutant: an admin's row is read with all its columns.
EditAdmin_AllColumns(k, active, password) ==
  /\ role = "ADMIN"
  /\ Calls(k, [NewCall EXCEPT !.step = "row", !.row = [account EXCEPT !.active = active]])

\* An admin is updated, possibly with a new password, deactivated or activated.
EditAdmin(k, active, password) ==
  /\ role = "ADMIN"
  /\ Calls(k, [NewCall EXCEPT !.step = "columns", !.password = password,
                              !.row = [account EXCEPT !.active = active]])

SaveAdmin(k) ==
  /\ At(k, "columns")
  /\ LET call == jobs[k]
         password == IF call.password = NULL THEN account.password ELSE call.password
     IN  /\ account' = [account EXCEPT !.active = call.row.active, !.password = password]
         /\ newest' = IF call.password = NULL THEN newest ELSE password
  /\ Ends(k)
  /\ UNCHANGED <<role, now, held, replaced, loggedOut, sent, used>>

-----------------------------------------------------------------------------
CallFails(k) ==
  /\ MayFail
  /\ jobs[k].step \in SessionSteps
  /\ Ends(k)
  /\ UNCHANGED <<role, account, now, given>>

SecondPasses ==
  /\ now < MaxTime
  /\ now' = now + 1
  /\ UNCHANGED <<role, account, given, jobs, alone>>

AuthStep(k) ==
  \/ \E pw \in Passwords : LogIn(k, pw)
  \/ \E t \in Seconds : Refresh(k, t) \/ Logout(k, t)
  \/ \E old, new \in Passwords : ChangePassword(k, old, new)
  \/ \E c \in Codes : ForgotPassword(k, c) \/ \E new \in Passwords : ResetPassword(k, c, new)

EditStep(k) ==
  \E active \in BOOLEAN :
    \/ EditUser(k, active)
    \/ \E password \in Passwords \cup {NULL} : EditAdmin(k, active, password)

UpdateStep(k) ==
  \/ GenerateTokens(k) \/ UpdateRefreshToken(k) \/ ForgetRefreshToken(k)
  \/ UpdatePassword(k) \/ UpdateOtp(k) \/ UpdatePasswordAndClearOtp(k)
  \/ SaveUser(k) \/ SaveAdmin(k) \/ CallFails(k)

SessionNext ==
  \/ \E k \in Servers : AuthStep(k) \/ EditStep(k) \/ UpdateStep(k)
  \/ SecondPasses

SessionSpec == SessionInit /\ NoRequests /\ [][SessionNext]_sessionVars

-----------------------------------------------------------------------------
(* Properties.                                                             *)

\* What was replaced does not come back: the password is the one that was set
\* last, a code that reset it is gone, and so is a refresh token that was exchanged
\* ("Old refresh token is invalidated").  For admins, of whom no operation saves
\* the columns in question from an old copy, in every interleaving; for others
\* when requests are served one at a time.
NothingComesBack ==
  role = "ADMIN" \/ alone =>
    /\ account.password = newest
    /\ account.code \notin used
    /\ account.token \notin replaced

\* "Removes refresh token from database": does not hold.
LoggedOutIsOut == account.token \notin loggedOut

=============================================================================
