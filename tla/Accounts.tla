------------------------------ MODULE Accounts ------------------------------
(***************************************************************************)
(* A user's account and the tokens of his devices: backend/api/auth.py,    *)
(* backend/auth/guards.py and scripts/create_user.py.                      *)
(*                                                                         *)
(* A token carries the version of the row it was made from and is accepted *)
(* while the row still has it.  A login, a refresh, a logout and a reset   *)
(* each read the row in one step and act on what they read in a later one; *)
(* the script waits for a typed password in between.  Two that revoke side *)
(* by side both write the version they read, plus one, so the version can  *)
(* stay or go back: amiss tells when that has happened.                    *)
(***************************************************************************)
EXTENDS Integers

CONSTANTS
  Devices,      \* of the user, each with a bearer token and a cookie
  AccessTtl,    \* ACCESS_TOKEN_TTL_S
  RefreshTtl,   \* REFRESH_TOKEN_TTL_S
  MaxVersion,   \* bound: logouts and resets
  MaxSecret,    \* bound: values SECRET_KEY takes
  AccountMaxTime    \* bound on the clock

ASSUME AccountAssumption ==
  {AccessTtl, RefreshTtl, MaxVersion, MaxSecret, AccountMaxTime} \subseteq Nat \ {0}

VARIABLES
  accountTime,  \* the clock
  secretKey,    \* SECRET_KEY of the process
  account,      \* the row of the user; version -1 while there is none
  device,       \* what each device's request does, and the tokens it holds
  script,       \* create_user.py, in the shell of an operator
  amiss         \* history: whether a revocation was overwritten by one that had
                \* not seen it, and whether a registration read back another row

accountVars == <<accountTime, secretKey, account, device, script, amiss>>

-----------------------------------------------------------------------------

NoToken == [version |-> -1, secret |-> 0, expires |-> 0, password |-> -1]

NoAccount == [password |-> 0, version |-> -1]

SignedOut == [at |-> "idle", row |-> NoAccount, access |-> NoToken, refresh |-> NoToken]

NotRunning == [resets |-> FALSE, row |-> NoAccount]

AccountInit ==
  /\ accountTime = 0 /\ secretKey = 1
  /\ account = NoAccount
  /\ device = [d \in Devices |-> SignedOut]
  /\ script = NotRunning
  /\ amiss = {}

\* decode_token: signed with this key, not expired.
Decodes(token) == token.secret = secretKey /\ accountTime < token.expires

\* user_for_token: the live row has the token's version.
Accepted(token) == Decodes(token) /\ token.version = account.version

Token(row, ttl) == [version |-> row.version, secret |-> secretKey,
                    expires |-> accountTime + ttl, password |-> row.password]

-----------------------------------------------------------------------------
(* The routes of a device.                                                 *)

RouteOnly(d) == UNCHANGED <<accountTime, secretKey, script>>

\* The email is unique: one of two that make the row has made it.
Made ==
  /\ account = NoAccount
  /\ account' = [NoAccount EXCEPT !.version = 0]

Register(d) ==
  /\ device[d].at = "idle"
  /\ Made
  /\ device' = [device EXCEPT ![d].at = "registered"]
  /\ RouteOnly(d) /\ UNCHANGED amiss

\* The row is read again after the commit, whatever it has become.  The caller
\* knows the password he registered with.
ReadBack(d) ==
  /\ device[d].at = "registered"
  /\ device' = [device EXCEPT ![d].at = "issues", ![d].row = [account EXCEPT !.password = 0]]
  /\ amiss' = amiss \cup IF account.password = 0 THEN {} ELSE {"misread"}
  /\ RouteOnly(d) /\ UNCHANGED account

\* The password typed is that of the row; with any other nothing changes.
Login(d) ==
  /\ device[d].at = "idle"
  /\ account # NoAccount
  /\ device' = [device EXCEPT ![d].at = "issues", ![d].row = account]
  /\ RouteOnly(d) /\ UNCHANGED <<account, amiss>>

\* The new tokens come from the row as it was loaded with the old one.
Refresh(d) ==
  /\ device[d].at = "idle"
  /\ Accepted(device[d].refresh)
  /\ device' = [device EXCEPT ![d].at = "issues",
       ![d].row = [account EXCEPT !.password = device[d].refresh.password]]
  /\ RouteOnly(d) /\ UNCHANGED <<account, amiss>>

Issue(d) ==
  /\ device[d].at = "issues"
  /\ device' = [device EXCEPT ![d] =
       [at |-> "idle", row |-> NoAccount, access |-> Token(device[d].row, AccessTtl),
        refresh |-> Token(device[d].row, RefreshTtl)]]
  /\ RouteOnly(d) /\ UNCHANGED <<account, amiss>>

-----------------------------------------------------------------------------
(* Revocation.                                                             *)

\* get_current_user loads the row the logout will write.
LogOut(d) ==
  /\ device[d].at = "idle"
  /\ Accepted(device[d].access)
  /\ device' = [device EXCEPT ![d].at = "leaves", ![d].row = account]
  /\ RouteOnly(d) /\ UNCHANGED <<account, amiss>>

ScriptOnly == UNCHANGED <<accountTime, secretKey, device>>

\* create_user.py on an account that exists, with a new password, or with a change
\* of his rights only, and on one that does not exist.
RunScript ==
  /\ script = NotRunning
  /\ account # NoAccount
  /\ \E resets \in BOOLEAN : script' = [resets |-> resets, row |-> account]
  /\ ScriptOnly /\ UNCHANGED <<account, amiss>>

CreateByScript ==
  /\ Made
  /\ ScriptOnly /\ UNCHANGED <<script, amiss>>

\* A slip: a new password leaves the version alone.
ChangedKeepsVersion(row, resets) ==
  [account EXCEPT !.version = IF resets THEN row.version ELSE row.version + 1,
                  !.password = IF resets THEN @ + 1 ELSE @]

\* A slip: a new password makes the row anew.
ChangedStartsOver(row, resets) ==
  [account EXCEPT !.version = IF resets THEN 0 ELSE row.version + 1,
                  !.password = IF resets THEN @ + 1 ELSE @]

\* The columns that are written, from the row as it was loaded.  Every new password
\* has a number of its own.
Changed(row, resets) ==
  [account EXCEPT !.version = row.version + 1,
                  !.password = IF resets THEN @ + 1 ELSE @]

\* The version goes up from that of the row as it was loaded.
Revokes(row, resets) ==
  /\ row.version < MaxVersion
  /\ account' = Changed(row, resets)
  /\ amiss' = amiss \cup IF row = account THEN {} ELSE {"overwritten"}

\* The device may keep its tokens.
FinishLogOut(d) ==
  /\ device[d].at = "leaves"
  /\ Revokes(device[d].row, FALSE)
  /\ device' = [device EXCEPT ![d].at = "idle", ![d].row = NoAccount]
  /\ RouteOnly(d)

WriteByScript ==
  /\ script # NotRunning
  /\ Revokes(script.row, script.resets)
  /\ script' = NotRunning
  /\ ScriptOnly

\* The commit fails, or the script is told not to go on.
StayLoggedIn(d) ==
  /\ device[d].at = "leaves"
  /\ device' = [device EXCEPT ![d].at = "idle", ![d].row = NoAccount]
  /\ RouteOnly(d) /\ UNCHANGED <<account, amiss>>

GiveUpScript ==
  /\ script # NotRunning
  /\ script' = NotRunning
  /\ ScriptOnly /\ UNCHANGED <<account, amiss>>

-----------------------------------------------------------------------------

\* The process starts anew, with another SECRET_KEY; the script is another one.
Rekey ==
  /\ secretKey < MaxSecret
  /\ secretKey' = secretKey + 1
  /\ device' = [d \in Devices |-> [device[d] EXCEPT !.at = "idle", !.row = NoAccount]]
  /\ UNCHANGED <<accountTime, account, script, amiss>>

AccountTick ==
  /\ accountTime < AccountMaxTime
  /\ accountTime' = accountTime + 1
  /\ UNCHANGED <<secretKey, account, device, script, amiss>>

AccountNext ==
  \/ \E d \in Devices :
       \/ Register(d) \/ ReadBack(d) \/ Login(d) \/ Refresh(d) \/ Issue(d)
       \/ LogOut(d) \/ FinishLogOut(d) \/ StayLoggedIn(d)
  \/ RunScript \/ CreateByScript \/ WriteByScript \/ GiveUpScript
  \/ Rekey \/ AccountTick

AccountSpec == AccountInit /\ [][AccountNext]_accountVars

-----------------------------------------------------------------------------
(* Properties.                                                             *)

\* Every token that is accepted goes back, through however many refreshes, to a
\* login with the password the account has now, also when the login or the
\* refresh was under way while the password changed (create_user.py:9): unless a
\* revocation was overwritten, or a reset fell between the commit of a
\* registration and its second read.
AcceptedKnowPassword ==
  amiss = {} =>
    \A d \in Devices : \A token \in {device[d].access, device[d].refresh} :
      Accepted(token) => token.password = account.password

\* A token that was refused once is never accepted again, and a request under
\* way makes none out of it (auth.py:12), unless a revocation was overwritten.
RefusedForGood ==
  [][\A d \in Devices : \A token \in {device[d].access, device[d].refresh} :
       ~Accepted(token) /\ "overwritten" \notin amiss' => ~Accepted(token)']_accountVars
=============================================================================
