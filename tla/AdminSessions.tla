------------------------------ MODULE AdminSessions ------------------------------
(***************************************************************************)
(* The administrator's login sessions: creation at login, the idle bound   *)
(* that every authenticated request moves, logout and housekeeping         *)
(* (auth/sessions.py, auth/admin.py, web/routes.py, web/deps.py).          *)
(*                                                                         *)
(* require_admin is a synchronous dependency: it runs in a thread of the   *)
(* web server's pool, reads the clock, then the row, then commits, and     *)
(* the threads interleave. The routes' bodies are coroutines of one event  *)
(* loop that do not await between their database calls, so a login keeps   *)
(* the loop from its first query to its last. The command that initialises *)
(* the account is a process of its own.                                    *)
(*                                                                         *)
(* A password is named by the initialisation that set it. Instants are     *)
(* clock readings, 0 stands for none.                                      *)
(***************************************************************************)
EXTENDS Integers

CONSTANTS
  Tokens,      \* values secrets.token_urlsafe may return
  NoToken,     \* no session id
  Requests,    \* requests of the browser's tabs
  Absolute,    \* ABSOLUTE_LIFETIME
  Idle,        \* IDLE_LIFETIME
  Delay,       \* bound: the longest time between a request's clock reading and its end
  MaxTime,     \* bound on the clock
  MaxAccounts  \* bound on the initialisations of the account

ASSUME SessionsAssumption ==
  /\ NoToken \notin Tokens
  /\ Absolute \in Nat \ {0}
  /\ Idle \in Nat \ {0}
  /\ Delay \in Nat
  /\ MaxTime \in Nat \ {0}
  /\ MaxAccounts \in Nat

VARIABLES
  now,        \* the wall clock
  account,    \* users: the initialisation whose password is stored, or 0
  sessions,   \* the sessions table, a function of the ids that have a row
  req,        \* each request's require_admin: its step, cookie and clock reading
  login,      \* the login_submit that has the event loop; uses is a history: the latest
              \* use of each session when the purge's query ran
  began,      \* history: the clock reading of each session's login
  used        \* history: the latest clock reading with which a session was used

vars == <<now, account, sessions, req, login, began, used>>

Time == 0 .. MaxTime

Rows == [last_seen_at: Time, expires_at: 0 .. MaxTime + Absolute]

Live == DOMAIN sessions

RequestRecords ==
  [pc: {"idle", "refused", "failed"}, token: {NoToken}, clock: {0}] \union
  [pc: {"lookup", "slide", "admitted"}, token: Tokens, clock: Time \ {0}]

LoginRecords ==
  [pc: {"idle", "select", "delete", "create"}, clock: Time, chosen: SUBSET Tokens,
   uses: [Tokens -> Time]]

Answered(answer) == [pc |-> answer, token |-> NoToken, clock |-> 0]

LoginAt(step, reading) ==
  [pc |-> step, clock |-> reading, chosen |-> {}, uses |-> [t \in Tokens |-> 0]]

NoLogin == LoginAt("idle", 0)

TypeOK ==
  /\ now \in Time \ {0}
  /\ account \in 0 .. MaxAccounts
  /\ Live \subseteq Tokens
  /\ sessions \in [Live -> Rows]
  /\ req \in [Requests -> RequestRecords]
  /\ login \in LoginRecords
  /\ began \in [Tokens -> Time]
  /\ used \in [Tokens -> Time]

Init ==
  /\ now = 1
  /\ account = 0
  /\ sessions = [t \in {} |-> 0]
  /\ req = [r \in Requests |-> Answered("idle")]
  /\ login = NoLogin
  /\ began = [t \in Tokens |-> 0]
  /\ used = [t \in Tokens |-> 0]

InFlight(r) == req[r].pc \in {"lookup", "slide", "admitted"}

LoopIsFree == login.pc = "idle"

Later(x, y) == IF x > y THEN x ELSE y

------------------------------------------------------------------------------
(* require_admin: get_valid_session in a thread of its own. *)

\* Both bounds, at a clock reading.
Valid(t, at) == at < sessions[t].expires_at /\ at < sessions[t].last_seen_at + Idle

\* (The definitions named *_Faulty are deliberate mistakes that no specification uses.)
\* The commit is missing: the request is served, its row stays as it was.
Touch_Faulty(t, at) ==
  /\ sessions' = sessions
  /\ used' = [used EXCEPT ![t] = Later(used[t], at)]

\* The UPDATE of last_seen_at, and what it means to the histories.
Touch(t, at) ==
  /\ sessions' = [sessions EXCEPT ![t].last_seen_at = at]
  /\ used' = [used EXCEPT ![t] = Later(used[t], at)]

\* An empty cookie is looked up like any other.
Arrive_Faulty(r) ==
  /\ ~InFlight(r)
  /\ \E t \in Tokens \union {NoToken} :
       /\ t \in Tokens => began[t] # 0
       /\ req' = [req EXCEPT ![r] = [pc |-> "lookup", token |-> t, clock |-> now]]
  /\ UNCHANGED <<now, account, sessions, login, began, used>>

\* A request arrives with the cookie of some login and reads the clock.
Arrive(r) ==
  /\ ~InFlight(r)
  /\ \E t \in Tokens :
       /\ began[t] # 0
       /\ req' = [req EXCEPT ![r] = [pc |-> "lookup", token |-> t, clock |-> now]]
  /\ UNCHANGED <<now, account, sessions, login, began, used>>

\* db.get: no row or an expired one redirects to the login page.
Lookup(r) ==
  LET t == req[r].token
  IN /\ req[r].pc = "lookup"
     /\ req' = [req EXCEPT ![r] = IF t \in Live /\ Valid(t, req[r].clock)
                                  THEN [req[r] EXCEPT !.pc = "slide"]
                                  ELSE Answered("refused")]
     /\ UNCHANGED <<now, account, sessions, login, began, used>>

\* The row is merged: one that was deleted meanwhile is inserted again.
Slide_Faulty(r) ==
  LET t == req[r].token
      row == [last_seen_at |-> req[r].clock, expires_at |-> began[t] + Absolute]
  IN /\ req[r].pc = "slide"
     /\ sessions' = [s \in Live \union {t} |-> IF s = t THEN row ELSE sessions[s]]
     /\ used' = [used EXCEPT ![t] = Later(used[t], req[r].clock)]
     /\ req' = [req EXCEPT ![r].pc = "admitted"]
     /\ UNCHANGED <<now, account, login, began>>

\* The commit of last_seen_at. A row that was deleted meanwhile makes the UPDATE match
\* nothing: the ORM raises StaleDataError and the request answers 500.
Slide(r) ==
  LET t == req[r].token
  IN /\ req[r].pc = "slide"
     /\ IF t \in Live
        THEN Touch(t, req[r].clock) /\ req' = [req EXCEPT ![r].pc = "admitted"]
        ELSE req' = [req EXCEPT ![r] = Answered("failed")] /\ UNCHANGED <<sessions, used>>
     /\ UNCHANGED <<now, account, login, began>>

\* The route is a page, or a form whose CSRF token is refused: sessions are untouched.
Serve(r) ==
  /\ req[r].pc = "admitted"
  /\ req' = [req EXCEPT ![r] = Answered("idle")]
  /\ UNCHANGED <<now, account, sessions, login, began, used>>

\* A query or the commit of the request fails: it answers 500, its cookie stays good.
RequestFails(r) ==
  /\ InFlight(r)
  /\ req' = [req EXCEPT ![r] = Answered("failed")]
  /\ UNCHANGED <<now, account, sessions, login, began, used>>

\* POST /logout: the session of the request's own cookie, in the event loop. A row that
\* is gone already is not an error.
Logout(r) ==
  /\ req[r].pc = "admitted" /\ LoopIsFree
  /\ sessions' = [t \in Live \ {req[r].token} |-> sessions[t]]
  /\ req' = [req EXCEPT ![r] = Answered("idle")]
  /\ UNCHANGED <<now, account, login, began, used>>

------------------------------------------------------------------------------
(* The event loop: the login form and the login. *)

\* GET /login with a cookie: a valid session is used, and its browser sent home.
LoginForm ==
  /\ LoopIsFree
  /\ \E t \in Live : Valid(t, now) /\ Touch(t, now)
  /\ UNCHANGED <<now, account, req, login, began>>

\* POST /login: the clock, then verify_admin_login. A wrong password changes nothing.
VerifyAdminLogin(password) ==
  /\ LoopIsFree
  /\ account # 0 /\ password = account
  /\ login' = LoginAt("select", now)
  /\ UNCHANGED <<now, account, sessions, req, began, used>>

\* Only the idle bound is looked at.
SelectExpired_Faulty ==
  LET expired == {t \in Live : login.clock >= sessions[t].last_seen_at + Idle}
  IN /\ login.pc = "select"
     /\ \/ expired = {} /\ login' = [login EXCEPT !.pc = "create"]
        \/ /\ expired # {}
           /\ login' = [login EXCEPT !.pc = "delete", !.chosen = expired, !.uses = used]
     /\ UNCHANGED <<now, account, sessions, req, began, used>>

\* purge_expired_sessions, the query.
SelectExpired ==
  LET expired == {t \in Live : ~Valid(t, login.clock)}
  IN /\ login.pc = "select"
     /\ \/ expired = {} /\ login' = [login EXCEPT !.pc = "create"]
        \/ /\ expired # {}
           /\ login' = [login EXCEPT !.pc = "delete", !.chosen = expired, !.uses = used]
     /\ UNCHANGED <<now, account, sessions, req, began, used>>

\* ... and the DELETE by the ids it returned.
DeleteExpired ==
  /\ login.pc = "delete"
  /\ sessions' = [t \in Live \ login.chosen |-> sessions[t]]
  /\ login' = LoginAt("create", login.clock)
  /\ UNCHANGED <<now, account, req, began, used>>

CreateSession ==
  /\ login.pc = "create"
  /\ \E token \in {t \in Tokens : began[t] = 0} :
       /\ sessions' = [t \in Live \union {token} |->
                         IF t = token THEN [last_seen_at |-> login.clock,
                                            expires_at |-> login.clock + Absolute]
                                      ELSE sessions[t]]
       /\ began' = [began EXCEPT ![token] = login.clock]
       /\ used' = [used EXCEPT ![token] = login.clock]
  /\ login' = NoLogin
  /\ UNCHANGED <<now, account, req>>

\* A query or a commit of the login fails; what it has committed stays.
LoginFails ==
  /\ ~LoopIsFree
  /\ login' = NoLogin
  /\ UNCHANGED <<now, account, sessions, req, began, used>>

------------------------------------------------------------------------------

\* initialize_admin: the new password, and every session as it was.
InitializeAdmin ==
  /\ account < MaxAccounts
  /\ account' = account + 1
  /\ UNCHANGED <<now, sessions, req, login, began, used>>

\* The web process restarts: the table is all that is left.
Restart ==
  /\ req' = [r \in Requests |-> Answered("idle")]
  /\ login' = NoLogin
  /\ UNCHANGED <<now, account, sessions, began, used>>

\* Nothing in flight is older than Delay.
Tick ==
  /\ now < MaxTime
  /\ \A r \in Requests : InFlight(r) => now < req[r].clock + Delay
  /\ LoopIsFree \/ now < login.clock + Delay
  /\ now' = now + 1
  /\ UNCHANGED <<account, sessions, req, login, began, used>>

Next ==
  \/ \E r \in Requests : Arrive(r) \/ Lookup(r) \/ Slide(r) \/ Serve(r) \/ RequestFails(r) \/ Logout(r)
  \/ LoginForm
  \/ \E password \in 1 .. MaxAccounts : VerifyAdminLogin(password)
  \/ SelectExpired \/ DeleteExpired \/ CreateSession \/ LoginFails
  \/ InitializeAdmin \/ Restart \/ Tick

Spec == Init /\ [][Next]_vars

------------------------------------------------------------------------------
(* Properties. *)

\* A session is begun by one login, serves only within both its bounds, and serves no
\* more once it was logged out or purged, whatever was in flight then: a request that had
\* looked it up before does not bring it back (sessions.py:9-17).
Ended == {t \in Tokens : began[t] # 0 /\ t \notin Live}

Promise == INSTANCE SessionPromise WITH over <- Ended
KeepsSessions == Promise!Sessions

\* Nobody is sent to the login page for nothing: the session was over, seven days old, or
\* unused for the idle lifetime, give or take the duration of a request, since requests
\* that overlap may move last_seen_at backwards (sessions.py:55-72).
RefusalsAreDeserved ==
  [][\A r \in Requests :
       LET t == req[r].token
       IN req[r].pc = "lookup" /\ req'[r].pc = "refused" =>
            \/ t \notin Live
            \/ req[r].clock >= began[t] + Absolute
            \/ req[r].clock + Delay >= used[t] + Idle]_vars

\* What a login's housekeeping deletes had passed a bound when its query ran, give or take
\* the duration of a request, and it leaves nothing past the absolute bound, so the table
\* does not grow with the logins. Between the query and the DELETE, which names ids only, a
\* request can still renew a chosen session, which then goes although it is valid, unlike
\* "delete sessions that are past either lifetime bound" (sessions.py:87): that happens
\* only to one whose idle lifetime ran out less than a request's duration before the query.
PurgeTakesTheLapsed ==
  [][login.pc \in {"select", "delete"} /\ login'.pc = "create" =>
       /\ \A t \in Live \ Live' :
            /\ \/ login.clock >= began[t] + Absolute
               \/ login.clock + Delay >= login.uses[t] + Idle
            /\ Valid(t, login.clock) => login.clock < login.uses[t] + Idle + Delay
       /\ \A t \in Live' : login.clock < began[t] + Absolute]_vars

==============================================================================
