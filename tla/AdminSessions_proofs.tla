--------------------------- MODULE AdminSessions_proofs ---------------------------
(***************************************************************************)
(* Sessions for any number of tokens, requests and instants, any lifetimes *)
(* and any delay.                                                          *)
(***************************************************************************)
EXTENDS AdminSessions, TLAPS

\* Nothing in flight is younger than the clock or older than Delay allows.
Prompt(clock) == 0 < clock /\ clock <= now /\ now <= clock + Delay

RequestsArePrompt == \A r \in Requests : InFlight(r) => Prompt(req[r].clock)

LoginIsPrompt == ~LoopIsFree => Prompt(login.clock)

\* A row belongs to a login, keeps its absolute bound, which no use has passed, and
\* last_seen_at is behind the latest use by no more than a request takes.
RowIsTrue(t) ==
  /\ began[t] # 0
  /\ used[t] < began[t] + Absolute
  /\ sessions[t].expires_at = began[t] + Absolute
  /\ sessions[t].last_seen_at <= used[t]
  /\ used[t] <= sessions[t].last_seen_at + Delay

RowsAreTrue == \A t \in Live : RowIsTrue(t)

\* What a request has looked up was valid then, and uses since can only make it more so.
LookupHolds ==
  \A r \in Requests :
    LET t == req[r].token
    IN req[r].pc = "slide" => /\ began[t] # 0
                              /\ req[r].clock < began[t] + Absolute
                              /\ req[r].clock < used[t] + Idle

HistoryIsPast == \A t \in Tokens : began[t] <= now /\ used[t] <= now

Inv ==
  /\ TypeOK /\ RequestsArePrompt /\ LoginIsPrompt
  /\ RowsAreTrue /\ LookupHolds /\ HistoryIsPast

------------------------------------------------------------------------------
(* Types. *)

LEMMA AnsweredIsRequest ==
  ASSUME NEW answer \in {"idle", "refused", "failed"}
  PROVE  Answered(answer) \in RequestRecords
BY DEF Answered, RequestRecords

\* A request in flight has a token and a clock reading.
LEMMA InFlightIsTyped ==
  ASSUME TypeOK, NEW r \in Requests, InFlight(r)
  PROVE  /\ req[r].token \in Tokens
         /\ req[r].clock \in Time \ {0} /\ req[r].clock \in Nat
         /\ req[r] = [pc |-> req[r].pc, token |-> req[r].token, clock |-> req[r].clock]
<1>1. /\ req[r].token \in Tokens
      /\ req[r].clock \in Time \ {0}
      /\ req[r] = [pc |-> req[r].pc, token |-> req[r].token, clock |-> req[r].clock]
  BY DEF TypeOK, InFlight, RequestRecords
<1>2. req[r].clock \in Nat
  BY ONLY <1>1 DEF Time
<1> QED BY <1>1, <1>2

\* What a use changes.
LEMMA TouchMoves ==
  ASSUME TypeOK, NEW t \in Live, NEW at \in Time, Touch(t, at)
  PROVE  /\ Live' = Live
         /\ sessions' \in [Live -> Rows]
         /\ used' \in [Tokens -> Time]
         /\ \A s \in Live : s # t => sessions'[s] = sessions[s]
         /\ \A s \in Tokens : s # t => used'[s] = used[s]
         /\ sessions'[t].last_seen_at = at
         /\ sessions'[t].expires_at = sessions[t].expires_at
         /\ used'[t] = Later(used[t], at)
BY DEF TypeOK, Touch, Live, Rows, Later

LEMMA RowsRemain ==
  ASSUME TypeOK, NEW gone, sessions' = [t \in Live \ gone |-> sessions[t]]
  PROVE  /\ Live' = Live \ gone
         /\ sessions' \in [Live' -> Rows]
         /\ \A t \in Live' : sessions'[t] = sessions[t]
BY DEF TypeOK, Live

\* A login's record as it begins and as its purge is over.
LEMMA LoginOf ==
  ASSUME NEW pc, NEW clock
  PROVE  LoginAt(pc, clock).pc = pc /\ LoginAt(pc, clock).clock = clock
BY DEF LoginAt

LEMMA LoginOfIsTyped ==
  ASSUME NEW pc \in {"idle", "select", "delete", "create"}, NEW clock \in Time
  PROVE  LoginAt(pc, clock) \in LoginRecords
<1>1. 0 \in Time
  BY SessionsAssumption DEF Time
<1>2. [t \in Tokens |-> 0] \in [Tokens -> Time]
  BY <1>1
<1> QED BY <1>2 DEF LoginAt, LoginRecords

LEMMA TypeStep ==
  ASSUME TypeOK, [Next]_vars
  PROVE  TypeOK'
<1> USE SessionsAssumption
<1>1. ASSUME NEW r \in Requests, Arrive(r)
      PROVE  TypeOK'
  BY <1>1 DEF Arrive, TypeOK, RequestRecords, Live
<1>2. ASSUME NEW r \in Requests, Lookup(r)
      PROVE  TypeOK'
  <2>1. req'[r] \in RequestRecords
    BY <1>2, InFlightIsTyped, AnsweredIsRequest DEF Lookup, InFlight, RequestRecords, TypeOK
  <2> QED BY <1>2, <2>1 DEF Lookup, TypeOK, Live
<1>3. ASSUME NEW r \in Requests, Slide(r)
      PROVE  TypeOK'
  <2>1. req[r].pc = "slide" /\ req[r].token \in Tokens /\ req[r].clock \in Time
    BY <1>3, InFlightIsTyped DEF Slide, InFlight
  <2>2. req'[r] \in RequestRecords
    BY <1>3, <2>1, InFlightIsTyped, AnsweredIsRequest DEF Slide, InFlight, RequestRecords, TypeOK
  <2>3. CASE req[r].token \in Live
    <3>1. /\ Live' = Live /\ sessions' \in [Live -> Rows] /\ used' \in [Tokens -> Time]
      BY <1>3, <2>1, <2>3, TouchMoves DEF Slide
    <3> QED BY <1>3, <2>1, <2>2, <2>3, <3>1 DEF Slide, TypeOK, Live
  <2>4. CASE req[r].token \notin Live
    BY <1>3, <2>2, <2>4 DEF Slide, TypeOK, Live
  <2> QED BY <2>3, <2>4
<1>4. ASSUME NEW r \in Requests, Serve(r) \/ RequestFails(r)
      PROVE  TypeOK'
  BY <1>4, AnsweredIsRequest DEF Serve, RequestFails, TypeOK, Live
<1>5. ASSUME NEW r \in Requests, Logout(r)
      PROVE  TypeOK'
  <2>1. Live' = Live \ {req[r].token} /\ sessions' \in [Live' -> Rows]
    BY <1>5, RowsRemain DEF Logout
  <2> QED BY <1>5, <2>1, AnsweredIsRequest DEF Logout, TypeOK
<1>6. CASE LoginForm
  <2>1. PICK t \in Live : Touch(t, now)
    BY <1>6 DEF LoginForm
  <2>2. Live' = Live /\ sessions' \in [Live -> Rows] /\ used' \in [Tokens -> Time]
    BY <2>1, TouchMoves DEF TypeOK
  <2> QED BY <1>6, <2>2 DEF LoginForm, TypeOK
<1>7. ASSUME NEW password \in 1 .. MaxAccounts, VerifyAdminLogin(password)
      PROVE  TypeOK'
  <2>1. login' = LoginAt("select", now) /\ now \in Time
    BY <1>7 DEF VerifyAdminLogin, TypeOK
  <2>2. login' \in LoginRecords
    BY <2>1, LoginOfIsTyped
  <2> QED BY <1>7, <2>2 DEF VerifyAdminLogin, TypeOK, Live
<1>8. CASE SelectExpired
  <2>1. PICK expired \in SUBSET Live :
          \/ login' = [login EXCEPT !.pc = "create"]
          \/ login' = [login EXCEPT !.pc = "delete", !.chosen = expired, !.uses = used]
    BY <1>8 DEF SelectExpired
  <2>2. login' \in LoginRecords
    BY <2>1 DEF TypeOK, LoginRecords
  <2> QED BY <1>8, <2>2 DEF SelectExpired, TypeOK, Live
<1>9. CASE DeleteExpired
  <2>1. Live' = Live \ login.chosen /\ sessions' \in [Live' -> Rows]
    BY <1>9, RowsRemain DEF DeleteExpired
  <2>2. login' = LoginAt("create", login.clock) /\ login.clock \in Time
    BY <1>9 DEF DeleteExpired, TypeOK, LoginRecords
  <2>3. login' \in LoginRecords
    BY <2>2, LoginOfIsTyped
  <2> QED BY <1>9, <2>1, <2>3 DEF DeleteExpired, TypeOK
<1>10. CASE CreateSession
  <2>1. PICK token \in Tokens :
          /\ sessions' = [t \in Live \union {token} |->
                            IF t = token THEN [last_seen_at |-> login.clock,
                                               expires_at |-> login.clock + Absolute]
                                         ELSE sessions[t]]
          /\ began' = [began EXCEPT ![token] = login.clock]
          /\ used' = [used EXCEPT ![token] = login.clock]
    BY <1>10 DEF CreateSession
  <2>2. login.clock \in Time
    BY DEF TypeOK, LoginRecords
  <2>3. [last_seen_at |-> login.clock, expires_at |-> login.clock + Absolute] \in Rows
    BY <2>2 DEF Rows, Time
  <2>4. Live' = Live \union {token} /\ sessions' \in [Live' -> Rows]
    BY <2>1, <2>3 DEF Live, TypeOK
  <2> QED BY <1>10, <2>1, <2>2, <2>4 DEF CreateSession, TypeOK, NoLogin, LoginAt, LoginRecords, Time
<1>11. CASE LoginFails
  BY <1>11 DEF LoginFails, TypeOK, NoLogin, LoginAt, LoginRecords, Time, Live
<1>12. CASE InitializeAdmin
  BY <1>12 DEF InitializeAdmin, TypeOK, Live
<1>13. CASE Restart
  BY <1>13, AnsweredIsRequest DEF Restart, TypeOK, NoLogin, LoginAt, LoginRecords, Time, Live
<1>14. CASE Tick
  BY <1>14 DEF Tick, TypeOK, Time, Live
<1>15. CASE UNCHANGED vars
  BY <1>15 DEF vars, TypeOK, Live
<1> QED
  BY <1>1, <1>2, <1>3, <1>4, <1>5, <1>6, <1>7, <1>8, <1>9, <1>10, <1>11, <1>12, <1>13,
     <1>14, <1>15 DEF Next

LEMMA TypeInit ==
  ASSUME Init
  PROVE  TypeOK
<1> USE SessionsAssumption
<1>1. Live = {}
  BY DEF Init, Live
<1> QED BY <1>1, AnsweredIsRequest DEF Init, TypeOK, NoLogin, LoginAt, LoginRecords, Time, Rows

\* The tables, the requests and the histories always have the shape TypeOK says.
THEOREM TypeCorrect == Spec => []TypeOK
<1> QED BY TypeInit, TypeStep, PTL DEF Spec

------------------------------------------------------------------------------
(* The invariant. *)

\* A use keeps the rows true and what others have looked up so.
LEMMA TouchKeeps ==
  ASSUME Inv, TypeOK', NEW t \in Live, NEW at \in Time, Prompt(at), Touch(t, at),
         at < began[t] + Absolute, now' = now, began' = began,
         \A r \in Requests : req'[r].pc = "slide" => req'[r] = req[r]
  PROVE  RowsAreTrue' /\ LookupHolds' /\ HistoryIsPast'
<1> USE SessionsAssumption
<1>1. /\ now \in Nat /\ at \in Nat /\ at <= now /\ now <= at + Delay
  BY DEF Inv, TypeOK, Time, Prompt
<1>2. /\ Live' = Live
      /\ \A s \in Live : s # t => sessions'[s] = sessions[s]
      /\ \A s \in Tokens : s # t => used'[s] = used[s]
      /\ sessions'[t].last_seen_at = at
      /\ sessions'[t].expires_at = sessions[t].expires_at
      /\ used'[t] = Later(used[t], at)
  BY TouchMoves DEF Inv
<1>3. Live \subseteq Tokens /\ \A s \in Tokens : used[s] \in Nat /\ began[s] \in Nat
  BY DEF Inv, TypeOK, Time
<1>4. /\ used[t] <= now /\ used'[t] \in Nat /\ used[t] <= used'[t]
      /\ at <= used'[t] /\ used'[t] <= now /\ used'[t] \in {used[t], at}
  BY <1>1, <1>2, <1>3 DEF Inv, HistoryIsPast, Later
<1>5. RowsAreTrue'
  <2>1. SUFFICES ASSUME NEW s \in Live'
                 PROVE  RowIsTrue(s)'
    BY DEF RowsAreTrue
  <2>2. CASE s = t
    BY <1>1, <1>2, <1>3, <1>4, <2>2 DEF Inv, RowsAreTrue, RowIsTrue
  <2>3. CASE s # t
    BY <1>2, <1>3, <2>1, <2>3 DEF Inv, RowsAreTrue, RowIsTrue
  <2> QED BY <2>2, <2>3
<1>6. LookupHolds'
  <2>1. SUFFICES ASSUME NEW r \in Requests, req'[r].pc = "slide"
                 PROVE  /\ began'[req'[r].token] # 0
                        /\ req'[r].clock < began'[req'[r].token] + Absolute
                        /\ req'[r].clock < used'[req'[r].token] + Idle
    BY DEF LookupHolds
  <2>0. req'[r] = req[r] /\ InFlight(r)
    BY <2>1 DEF InFlight
  <2>2. req'[r] = req[r] /\ req[r].token \in Tokens /\ req[r].clock \in Nat
    BY <2>0, InFlightIsTyped DEF Inv
  <2>3. used[req[r].token] <= used'[req[r].token] /\ used'[req[r].token] \in Nat
    BY <1>2, <1>3, <1>4, <2>2
  <2> QED BY <1>3, <2>1, <2>2, <2>3 DEF Inv, LookupHolds
<1>7. HistoryIsPast'
  BY <1>1, <1>2, <1>3, <1>4 DEF Inv, HistoryIsPast
<1> QED BY <1>5, <1>6, <1>7

\* Rows that are deleted take nothing with them.
LEMMA DeleteKeeps ==
  ASSUME Inv, NEW gone, sessions' = [t \in Live \ gone |-> sessions[t]],
         UNCHANGED <<now, began, used>>,
         \A r \in Requests : req'[r].pc = "slide" => req'[r] = req[r]
  PROVE  RowsAreTrue' /\ LookupHolds' /\ HistoryIsPast'
<1>1. Live' = Live \ gone /\ \A t \in Live' : sessions'[t] = sessions[t]
  BY RowsRemain DEF Inv
<1>2. RowsAreTrue'
  BY <1>1 DEF Inv, RowsAreTrue, RowIsTrue
<1> QED BY <1>2 DEF Inv, LookupHolds, HistoryIsPast

\* A step that leaves the table and the histories alone.
LEMMA TableKeeps ==
  ASSUME Inv, UNCHANGED <<sessions, began, used>>, now' \in Nat, now <= now',
         \A r \in Requests : req'[r].pc = "slide" => req'[r] = req[r]
  PROVE  RowsAreTrue' /\ LookupHolds' /\ HistoryIsPast'
<1>1. now \in Nat /\ \A t \in Tokens : began[t] \in Nat /\ used[t] \in Nat
  BY DEF Inv, TypeOK, Time
<1>2. HistoryIsPast'
  BY <1>1 DEF Inv, HistoryIsPast
<1> QED BY <1>2 DEF Inv, RowsAreTrue, RowIsTrue, LookupHolds, Live

\* A new row is true, and its token was nobody's.
LEMMA CreateKeeps ==
  ASSUME Inv, TypeOK', CreateSession
  PROVE  RowsAreTrue' /\ LookupHolds' /\ HistoryIsPast'
<1> USE SessionsAssumption
<1>1. PICK token \in Tokens :
        /\ began[token] = 0
        /\ sessions' = [t \in Live \union {token} |->
                          IF t = token THEN [last_seen_at |-> login.clock,
                                             expires_at |-> login.clock + Absolute]
                                       ELSE sessions[t]]
        /\ began' = [began EXCEPT ![token] = login.clock]
        /\ used' = [used EXCEPT ![token] = login.clock]
  BY DEF CreateSession
<1>2. /\ now' = now /\ req' = req /\ now \in Nat
      /\ login.clock \in Nat /\ 0 < login.clock /\ login.clock <= now
  BY DEF Inv, CreateSession, LoginIsPrompt, LoopIsFree, Prompt, TypeOK, LoginRecords, Time
<1>3. Live' = Live \union {token} /\ token \notin Live
  BY <1>1 DEF Live, Inv, RowsAreTrue, RowIsTrue
<1>4. /\ \A t \in Tokens : began[t] \in Nat /\ used[t] \in Nat
      /\ DOMAIN began = Tokens /\ DOMAIN used = Tokens
      /\ Live \subseteq Tokens
  BY DEF Inv, TypeOK, Time
<1>5. \A t \in Tokens : t # token => began'[t] = began[t] /\ used'[t] = used[t]
  BY <1>1, <1>4
<1>6. began'[token] = login.clock /\ used'[token] = login.clock
  BY <1>1, <1>4
<1>7. RowsAreTrue'
  <2>1. SUFFICES ASSUME NEW t \in Live'
                 PROVE  RowIsTrue(t)'
    BY DEF RowsAreTrue
  <2>2. CASE t = token
    <3>1. /\ sessions'[t].last_seen_at = login.clock
          /\ sessions'[t].expires_at = login.clock + Absolute
      BY <1>1, <2>2
    <3> QED BY <1>2, <1>6, <2>2, <3>1 DEF RowIsTrue
  <2>3. CASE t # token
    <3>1. sessions'[t] = sessions[t] /\ t \in Live
      BY <1>1, <1>3, <2>1, <2>3
    <3> QED BY <1>4, <1>5, <2>3, <3>1 DEF Inv, RowsAreTrue, RowIsTrue
  <2> QED BY <2>2, <2>3
<1>8. LookupHolds'
  <2>1. SUFFICES ASSUME NEW r \in Requests, req[r].pc = "slide"
                 PROVE  /\ began'[req[r].token] # 0
                        /\ req[r].clock < began'[req[r].token] + Absolute
                        /\ req[r].clock < used'[req[r].token] + Idle
    BY <1>2 DEF LookupHolds
  <2>2. req[r].token # token /\ req[r].token \in Tokens
    BY <1>1, <2>1, InFlightIsTyped DEF Inv, LookupHolds, InFlight
  <2> QED BY <1>5, <2>1, <2>2 DEF Inv, LookupHolds
<1>9. HistoryIsPast'
  BY <1>2, <1>4, <1>5, <1>6 DEF Inv, HistoryIsPast
<1> QED BY <1>7, <1>8, <1>9

\* Requests and logins begin with the clock as it is, and the clock waits for them.
LEMMA PromptStep ==
  ASSUME Inv, TypeOK', [Next]_vars
  PROVE  RequestsArePrompt' /\ LoginIsPrompt'
<1> USE SessionsAssumption
<1>1. now \in Nat /\ login.clock \in Nat
  BY DEF Inv, TypeOK, LoginRecords, Time
<1>2. \A r \in Requests : InFlight(r) => req[r].clock \in Nat
  <2>1. TypeOK
    BY DEF Inv
  <2> QED BY <2>1, InFlightIsTyped
<1>3. DOMAIN req = Requests
  BY DEF Inv, TypeOK
<1>4. CASE Tick
  <2>1. RequestsArePrompt'
    BY <1>1, <1>2, <1>4 DEF Tick, Inv, RequestsArePrompt, Prompt, InFlight
  <2>2. LoginIsPrompt'
    BY <1>1, <1>4 DEF Tick, Inv, LoginIsPrompt, Prompt, LoopIsFree
  <2> QED BY <2>1, <2>2
<1>5. ASSUME ~Tick
      PROVE  now' = now
  BY <1>5 DEF Next, vars, Arrive, Lookup, Slide, Serve, RequestFails, Logout,
     LoginForm, VerifyAdminLogin,
              SelectExpired, DeleteExpired, CreateSession, LoginFails, InitializeAdmin, Restart
<1>6. ASSUME ~Tick, NEW r \in Requests, InFlight(r)'
      PROVE  Prompt(req[r].clock)' /\ req'[r].clock \in Nat
  <2>0. Prompt(now)
    BY <1>1 DEF Inv, TypeOK, Prompt, Time
  <2>1. ASSUME NEW q \in Requests, Arrive(q)
        PROVE  (req'[r] = req[r]) \/ (req'[r].clock = now)
    BY <1>3, <2>1 DEF Arrive
  <2>2. ASSUME NEW q \in Requests, Lookup(q)
        PROVE  InFlight(r) /\ req'[r].clock = req[r].clock
    BY <1>3, <1>6, <2>2, InFlightIsTyped DEF Lookup, InFlight, Answered, Inv
  <2>3. ASSUME NEW q \in Requests, Slide(q)
        PROVE  InFlight(r) /\ req'[r].clock = req[r].clock
    BY <1>3, <1>6, <2>3, InFlightIsTyped DEF Slide, InFlight, Answered, Inv
  <2>4. ASSUME NEW q \in Requests, Serve(q) \/ RequestFails(q) \/ Logout(q)
        PROVE  req'[r] = req[r]
    BY <1>3, <1>6, <2>4 DEF Serve, RequestFails, Logout, InFlight, Answered
  <2>5. ~Restart
    BY <1>6 DEF Restart, InFlight, Answered
  <2>7. \/ req'[r] = req[r]
        \/ InFlight(r) /\ req'[r].clock = req[r].clock
        \/ req'[r].clock = now
    <3>1. CASE \E q \in Requests : \/ Arrive(q) \/ Lookup(q) \/ Slide(q)
                                 \/ Serve(q) \/ RequestFails(q) \/ Logout(q)
      BY <2>1, <2>2, <2>3, <2>4, <3>1
    <3>2. CASE UNCHANGED req
      BY <3>2
    <3> QED BY <1>6, <2>5, <3>1, <3>2 DEF Next, vars, LoginForm, VerifyAdminLogin,
       SelectExpired, DeleteExpired, CreateSession, LoginFails, InitializeAdmin
  <2>8. CASE req'[r].clock = now
    BY <1>1, <1>5, <1>6, <2>0, <2>8 DEF Prompt
  <2>9. CASE InFlight(r) /\ req'[r].clock = req[r].clock
    BY <1>2, <1>5, <1>6, <2>9 DEF Inv, RequestsArePrompt, Prompt
  <2> QED BY <1>6, <2>7, <2>8, <2>9 DEF InFlight
<1>7. ASSUME ~Tick, ~LoopIsFree'
      PROVE  Prompt(login.clock)'
  <2>1. \/ login'.clock = login.clock /\ ~LoopIsFree
        \/ login'.clock = now
    <3>1. ASSUME NEW q \in Requests, \/ Arrive(q) \/ Lookup(q) \/ Slide(q)
                                     \/ Serve(q) \/ RequestFails(q) \/ Logout(q)
          PROVE  login' = login
      BY <3>1 DEF Arrive, Lookup, Slide, Serve, RequestFails, Logout
    <3>2. CASE UNCHANGED login
      BY <1>7, <3>2 DEF LoopIsFree
    <3>3. ASSUME NEW password \in 1 .. MaxAccounts, VerifyAdminLogin(password)
          PROVE  login'.clock = now
      BY <3>3, LoginOf DEF VerifyAdminLogin
    <3>4. CASE SelectExpired \/ DeleteExpired
      <4>1. login \in LoginRecords
        BY DEF Inv, TypeOK
      <4>2. CASE SelectExpired
        BY <4>1, <4>2 DEF SelectExpired, LoopIsFree, LoginRecords
      <4>3. CASE DeleteExpired
        BY <4>3, LoginOf DEF DeleteExpired, LoopIsFree
      <4> QED BY <3>4, <4>2, <4>3
    <3>5. ~CreateSession /\ ~LoginFails /\ ~Restart
      BY <1>7 DEF CreateSession, LoginFails, Restart, NoLogin, LoginAt, LoopIsFree
    <3> QED BY <1>7, <3>1, <3>2, <3>3, <3>4, <3>5 DEF Next, vars, LoginForm, InitializeAdmin
  <2>2. Prompt(now)
    BY <1>1 DEF Inv, TypeOK, Prompt, Time
  <2> QED BY <1>1, <1>5, <1>7, <2>1, <2>2 DEF Inv, LoginIsPrompt, Prompt
<1> QED BY <1>4, <1>6, <1>7 DEF RequestsArePrompt, LoginIsPrompt

LEMMA InvInit ==
  ASSUME Init
  PROVE  Inv
<1>1. Live = {}
  BY DEF Init, Live
<1> QED BY <1>1, TypeInit DEF Init, Inv, RequestsArePrompt, InFlight, Answered, LoginIsPrompt,
           LoopIsFree, NoLogin, LoginAt, RowsAreTrue, LookupHolds, HistoryIsPast

LEMMA InvStep ==
  ASSUME Inv, [Next]_vars
  PROVE  Inv'
<1> USE SessionsAssumption
<1>1. TypeOK'
  BY TypeStep DEF Inv
<1>2. RequestsArePrompt' /\ LoginIsPrompt'
  BY <1>1, PromptStep
<1>3. DOMAIN req = Requests /\ now \in Nat /\ now' \in Nat
  BY <1>1 DEF Inv, TypeOK, Time
<1> SUFFICES RowsAreTrue' /\ LookupHolds' /\ HistoryIsPast'
  BY <1>1, <1>2 DEF Inv
<1>4. ASSUME NEW r \in Requests, Arrive(r)
      PROVE  RowsAreTrue' /\ LookupHolds' /\ HistoryIsPast'
  <2>1. \A q \in Requests : req'[q].pc = "slide" => req'[q] = req[q]
    BY <1>3, <1>4 DEF Arrive
  <2> QED BY <1>3, <1>4, <2>1, TableKeeps DEF Arrive
<1>5. ASSUME NEW r \in Requests, Lookup(r)
      PROVE  RowsAreTrue' /\ LookupHolds' /\ HistoryIsPast'
  <2>1. InFlight(r) /\ req[r].token \in Tokens /\ req[r].clock \in Nat
    BY <1>5, InFlightIsTyped DEF Lookup, InFlight, Inv
  <2>2. \A q \in Requests : q # r => req'[q] = req[q]
    BY <1>3, <1>5 DEF Lookup
  <2>3. RowsAreTrue' /\ HistoryIsPast'
    BY <1>5 DEF Lookup, Inv, RowsAreTrue, RowIsTrue, HistoryIsPast, Live
  <2>4. CASE req[r].token \in Live /\ Valid(req[r].token, req[r].clock)
    <3>1. req'[r].token = req[r].token /\ req'[r].clock = req[r].clock
      BY <1>3, <1>5, <2>1, <2>4, InFlightIsTyped DEF Lookup, Inv
    <3>2. RowIsTrue(req[r].token)
      BY <2>4 DEF Inv, RowsAreTrue
    <3>3. /\ used[req[r].token] \in Nat /\ began[req[r].token] \in Nat
          /\ sessions[req[r].token].last_seen_at \in Nat
      BY <2>1, <2>4 DEF Inv, TypeOK, Time, Rows
    <3>4. /\ began[req[r].token] # 0
          /\ req[r].clock < began[req[r].token] + Absolute
          /\ req[r].clock < used[req[r].token] + Idle
      BY <2>1, <2>4, <3>2, <3>3 DEF Valid, RowIsTrue
    <3>5. UNCHANGED <<began, used>>
      BY <1>5 DEF Lookup
    <3> QED BY <2>2, <2>3, <3>1, <3>4, <3>5 DEF Inv, LookupHolds
  <2>5. CASE ~(req[r].token \in Live /\ Valid(req[r].token, req[r].clock))
    <3>1. req'[r] = Answered("refused")
      BY <1>3, <1>5, <2>5 DEF Lookup
    <3>2. req'[r].pc # "slide"
      BY <3>1 DEF Answered
    <3>3. UNCHANGED <<began, used>>
      BY <1>5 DEF Lookup
    <3> QED BY <2>2, <2>3, <3>2, <3>3 DEF Inv, LookupHolds
  <2> QED BY <2>4, <2>5
<1>6. ASSUME NEW r \in Requests, Slide(r)
      PROVE  RowsAreTrue' /\ LookupHolds' /\ HistoryIsPast'
  <2>1. InFlight(r) /\ req[r].token \in Tokens /\ req[r].clock \in Time /\ req[r].pc = "slide"
    BY <1>6, InFlightIsTyped DEF Slide, InFlight, Inv
  <2>2. Prompt(req[r].clock)
    BY <2>1 DEF Inv, RequestsArePrompt
  <2>3. \A q \in Requests : q # r => req'[q] = req[q]
    BY <1>3, <1>6 DEF Slide
  <2>4. CASE req[r].token \in Live
    <3>1. req'[r].pc = "admitted"
      BY <1>3, <1>6, <2>1, <2>4, InFlightIsTyped DEF Slide, Inv
    <3>2. \A q \in Requests : req'[q].pc = "slide" => req'[q] = req[q]
      BY <2>3, <3>1
    <3>3. Touch(req[r].token, req[r].clock) /\ now' = now /\ began' = began
      BY <1>6, <2>4 DEF Slide
    <3>4. req[r].clock < began[req[r].token] + Absolute
      BY <2>1 DEF Inv, LookupHolds
    <3> QED BY <1>1, <2>1, <2>2, <2>4, <3>2, <3>3, <3>4, TouchKeeps
  <2>5. CASE req[r].token \notin Live
    <3>1. req'[r] = Answered("failed")
      BY <1>3, <1>6, <2>5 DEF Slide
    <3>2. \A q \in Requests : req'[q].pc = "slide" => req'[q] = req[q]
      BY <2>3, <3>1 DEF Answered
    <3> QED BY <1>3, <1>6, <2>5, <3>2, TableKeeps DEF Slide
  <2> QED BY <2>4, <2>5
<1>7. ASSUME NEW r \in Requests, Serve(r) \/ RequestFails(r)
      PROVE  RowsAreTrue' /\ LookupHolds' /\ HistoryIsPast'
  <2>1. \A q \in Requests : req'[q].pc = "slide" => req'[q] = req[q]
    BY <1>3, <1>7 DEF Serve, RequestFails, Answered
  <2> QED BY <1>3, <1>7, <2>1, TableKeeps DEF Serve, RequestFails
<1>8. ASSUME NEW r \in Requests, Logout(r)
      PROVE  RowsAreTrue' /\ LookupHolds' /\ HistoryIsPast'
  <2>1. \A q \in Requests : req'[q].pc = "slide" => req'[q] = req[q]
    BY <1>3, <1>8 DEF Logout, Answered
  <2> QED BY <1>8, <2>1, DeleteKeeps DEF Logout
<1>9. CASE LoginForm
  <2>1. PICK t \in Live : Valid(t, now) /\ Touch(t, now)
    BY <1>9 DEF LoginForm
  <2>2. now \in Time /\ Prompt(now)
    BY <1>3 DEF Inv, TypeOK, Time, Prompt
  <2>3. now' = now /\ began' = began /\ req' = req
    BY <1>9 DEF LoginForm
  <2>4. now < began[t] + Absolute
    BY <2>1 DEF Valid, Inv, RowsAreTrue, RowIsTrue
  <2> QED BY <1>1, <2>1, <2>2, <2>3, <2>4, TouchKeeps
<1>10. CASE DeleteExpired
  BY <1>10, DeleteKeeps DEF DeleteExpired
<1>11. CASE CreateSession
  BY <1>1, <1>11, CreateKeeps
<1>12. CASE Restart
  <2>1. \A q \in Requests : req'[q].pc = "slide" => req'[q] = req[q]
    BY <1>12 DEF Restart, Answered
  <2> QED BY <1>3, <1>12, <2>1, TableKeeps DEF Restart
<1>13. CASE Tick
  BY <1>3, <1>13, TableKeeps DEF Tick
<1>14. CASE \/ \E password \in 1 .. MaxAccounts : VerifyAdminLogin(password)
            \/ SelectExpired \/ LoginFails \/ InitializeAdmin \/ UNCHANGED vars
  <2>1. UNCHANGED <<now, sessions, began, used, req>>
    BY <1>14 DEF VerifyAdminLogin, SelectExpired, LoginFails, InitializeAdmin, vars
  <2> QED BY <1>3, <2>1, TableKeeps
<1> QED
  BY <1>4, <1>5, <1>6, <1>7, <1>8, <1>9, <1>10, <1>11, <1>12, <1>13, <1>14 DEF Next

THEOREM Invariant == Spec => []Inv
<1> QED BY InvInit, InvStep, PTL DEF Spec

------------------------------------------------------------------------------
(* The promise. *)

\* A use of a live session within its bounds is a Use of the promise.
LEMMA TouchIsUse ==
  ASSUME Inv, NEW t \in Live, NEW at \in Time, Touch(t, at), began' = began,
         at < began[t] + Absolute, at < used[t] + Idle
  PROVE  Promise!PromiseNext
<1> USE SessionsAssumption
<1>1. /\ Live' = Live
      /\ \A s \in Tokens : s # t => used'[s] = used[s]
      /\ used'[t] = Later(used[t], at)
  BY TouchMoves DEF Inv
<1>2. /\ t \in Tokens /\ used[t] \in Nat /\ began[t] \in Nat /\ at \in Nat /\ now \in Nat
      /\ began[t] # 0
  BY DEF Inv, TypeOK, Time, RowsAreTrue, RowIsTrue
<1>3. Ended' = Ended /\ t \notin Ended
  BY <1>1 DEF Ended
<1>4. used[t] < began[t] + Absolute
  BY DEF Inv, RowsAreTrue, RowIsTrue
<1> QED BY <1>1, <1>2, <1>3, <1>4 DEF Promise!PromiseNext, Promise!Use, Promise!Rest, Later

\* Deleting rows ends their sessions.
LEMMA DeletionEnds ==
  ASSUME Inv, NEW gone, sessions' = [t \in Live \ gone |-> sessions[t]],
         UNCHANGED <<began, used>>
  PROVE  Promise!PromiseNext
<1>1. Live' = Live \ gone
  BY RowsRemain DEF Inv
<1>2. \A t \in Tokens : began[t] \in Nat
  BY DEF Inv, TypeOK, Time
<1>3. ASSUME NEW t \in Tokens
      PROVE  Promise!End(t) \/ Promise!Rest(t)
  <2>1. CASE t \in Live /\ t \in gone
    BY <1>1, <1>2, <2>1 DEF Promise!End, Ended, Inv, RowsAreTrue, RowIsTrue
  <2>2. CASE ~(t \in Live /\ t \in gone)
    BY <1>1, <2>2 DEF Promise!Rest, Ended
  <2> QED BY <2>1, <2>2
<1> QED BY <1>3 DEF Promise!PromiseNext

\* A login begins the session of one fresh token.
LEMMA CreationBegins ==
  ASSUME Inv, CreateSession
  PROVE  Promise!PromiseNext
<1>1. PICK token \in Tokens :
        /\ began[token] = 0
        /\ sessions' = [t \in Live \union {token} |->
                          IF t = token THEN [last_seen_at |-> login.clock,
                                             expires_at |-> login.clock + Absolute]
                                       ELSE sessions[t]]
        /\ began' = [began EXCEPT ![token] = login.clock]
        /\ used' = [used EXCEPT ![token] = login.clock]
  BY DEF CreateSession
<1>2. login.clock \in Nat /\ 0 < login.clock
  BY DEF Inv, CreateSession, LoginIsPrompt, LoopIsFree, Prompt, TypeOK, LoginRecords, Time
<1>3. Live' = Live \union {token}
  BY <1>1 DEF Live
<1>4. DOMAIN began = Tokens /\ DOMAIN used = Tokens
  BY DEF Inv, TypeOK
<1>5. ASSUME NEW t \in Tokens
      PROVE  Promise!Begin(t) \/ Promise!Rest(t)
  <2>1. CASE t = token
    BY <1>1, <1>2, <1>3, <1>4, <2>1 DEF Promise!Begin, Ended
  <2>2. CASE t # token
    BY <1>1, <1>3, <1>4, <2>2 DEF Promise!Rest, Ended
  <2> QED BY <2>1, <2>2
<1> QED BY <1>5 DEF Promise!PromiseNext

\* Every other step leaves what was promised as it is.
LEMMA RestRests ==
  ASSUME UNCHANGED <<sessions, began, used>>
  PROVE  Promise!PromiseNext
BY DEF Promise!PromiseNext, Promise!Rest, Ended, Live

LEMMA PromiseStep ==
  ASSUME Inv, [Next]_vars
  PROVE  Promise!PromiseNext
<1> USE SessionsAssumption
<1>1. ASSUME NEW r \in Requests, Slide(r)
      PROVE  Promise!PromiseNext
  <2>1. CASE req[r].token \in Live
    <3>1. InFlight(r) /\ req[r].clock \in Time /\ req[r].pc = "slide"
      BY <1>1, InFlightIsTyped DEF Slide, InFlight, Inv
    <3>2. /\ req[r].clock < began[req[r].token] + Absolute
          /\ req[r].clock < used[req[r].token] + Idle
      BY <3>1 DEF Inv, LookupHolds
    <3> QED BY <1>1, <2>1, <3>1, <3>2, TouchIsUse DEF Slide
  <2>2. CASE req[r].token \notin Live
    BY <1>1, <2>2, RestRests DEF Slide
  <2> QED BY <2>1, <2>2
<1>2. CASE LoginForm
  <2>1. PICK t \in Live : Valid(t, now) /\ Touch(t, now)
    BY <1>2 DEF LoginForm
  <2>2. now \in Time /\ now \in Nat /\ t \in Tokens
    BY DEF Inv, TypeOK, Time
  <2>3. RowIsTrue(t)
    BY DEF Inv, RowsAreTrue
  <2>4. sessions[t].last_seen_at \in Nat /\ used[t] \in Nat
    BY <2>2 DEF Inv, TypeOK, Rows, Time
  <2>5. now < began[t] + Absolute /\ now < used[t] + Idle
    BY <2>1, <2>2, <2>3, <2>4 DEF Valid, RowIsTrue
  <2> QED BY <1>2, <2>1, <2>2, <2>5, TouchIsUse DEF LoginForm
<1>3. ASSUME NEW r \in Requests, Logout(r)
      PROVE  Promise!PromiseNext
  BY <1>3, DeletionEnds DEF Logout
<1>4. CASE DeleteExpired
  BY <1>4, DeletionEnds DEF DeleteExpired
<1>5. CASE CreateSession
  BY <1>5, CreationBegins
<1>6. CASE UNCHANGED <<sessions, began, used>>
  BY <1>6, RestRests
<1> QED
  BY <1>1, <1>2, <1>3, <1>4, <1>5, <1>6 DEF Next, vars, Arrive, Lookup, Serve, RequestFails,
     VerifyAdminLogin, SelectExpired, LoginFails, InitializeAdmin, Restart, Tick

\* Whatever is in flight, a session serves only within its bounds and never after its end.
THEOREM SessionsKept == Spec => KeepsSessions
<1>1. ASSUME Init
      PROVE  Promise!PromiseInit
  BY <1>1 DEF Init, Promise!PromiseInit, Ended
<1>2. ASSUME Inv, [Next]_vars
      PROVE  [Promise!PromiseNext]_(Promise!promised)
  BY <1>2, PromiseStep
<1> QED BY <1>1, <1>2, Invariant, PTL DEF Spec, KeepsSessions, Promise!Sessions

------------------------------------------------------------------------------
(* Refusals and housekeeping. *)

\* A row that is past one of its bounds was not used for long.
LEMMA ExpiredIsIdle ==
  ASSUME Inv, NEW t \in Live, NEW at \in Nat, ~Valid(t, at)
  PROVE  at >= began[t] + Absolute \/ at + Delay >= used[t] + Idle
<1>1. /\ sessions[t].last_seen_at \in Nat /\ sessions[t].expires_at \in Nat
      /\ used[t] \in Nat /\ began[t] \in Nat
  BY SessionsAssumption DEF Inv, TypeOK, Rows, Time
<1>2. RowIsTrue(t)
  BY DEF Inv, RowsAreTrue
<1> QED BY <1>1, <1>2, SessionsAssumption DEF Valid, RowIsTrue

\* Whoever is sent to the login page had a session that was over or out of its bounds.
THEOREM RefusalsJustified == Spec => RefusalsAreDeserved
<1>1. ASSUME Inv, [Next]_vars, NEW r \in Requests,
             req[r].pc = "lookup", req'[r].pc = "refused"
      PROVE  \/ req[r].token \notin Live
             \/ req[r].clock >= began[req[r].token] + Absolute
             \/ req[r].clock + Delay >= used[req[r].token] + Idle
  <2>1. InFlight(r) /\ req[r].token \in Tokens /\ req[r].clock \in Nat /\ DOMAIN req = Requests
    BY <1>1, InFlightIsTyped DEF InFlight, Inv, TypeOK
  <2>2. Lookup(r)
    <3>1. ASSUME NEW q \in Requests, \/ Arrive(q) \/ Lookup(q) \/ Slide(q)
                                     \/ Serve(q) \/ RequestFails(q) \/ Logout(q)
          PROVE  q = r
      BY <1>1, <2>1, <3>1 DEF Arrive, Lookup, Slide, Serve, RequestFails, Logout
    <3>2. ~Arrive(r) /\ ~Slide(r) /\ ~Serve(r) /\ ~RequestFails(r) /\ ~Logout(r)
      BY <1>1, <2>1 DEF Arrive, Slide, Serve, RequestFails, Logout, InFlight,
         Answered
    <3>3. req' # req /\ ~Restart
      BY <1>1 DEF Restart, Answered
    <3> QED BY <1>1, <3>1, <3>2, <3>3 DEF Next, vars, LoginForm, VerifyAdminLogin,
         SelectExpired, DeleteExpired, CreateSession, LoginFails, InitializeAdmin, Tick
  <2>3. CASE req[r].token \in Live
    <3>1. ~Valid(req[r].token, req[r].clock)
      <4>1. SUFFICES ASSUME Valid(req[r].token, req[r].clock)
                     PROVE  FALSE
        OBVIOUS
      <4>2. req'[r] = [req[r] EXCEPT !.pc = "slide"]
        BY <2>1, <2>2, <2>3, <4>1 DEF Lookup
      <4>3. "pc" \in DOMAIN req[r]
        <5>1. req[r] = [pc |-> req[r].pc, token |-> req[r].token, clock |-> req[r].clock]
          BY <2>1, <1>1, InFlightIsTyped DEF Inv
        <5> QED BY ONLY <5>1
      <4>4. req'[r].pc = "slide"
        BY ONLY <4>2, <4>3
      <4> QED BY <1>1, <4>4
    <3> QED BY <1>1, <2>1, <2>3, <3>1, ExpiredIsIdle
  <2> QED BY <2>3
<1>2. ASSUME Inv, [Next]_vars
      PROVE  \A r \in Requests :
               LET t == req[r].token
               IN req[r].pc = "lookup" /\ req'[r].pc = "refused" =>
                    \/ t \notin Live
                    \/ req[r].clock >= began[t] + Absolute
                    \/ req[r].clock + Delay >= used[t] + Idle
  BY <1>1, <1>2
<1> QED BY <1>2, Invariant, PTL DEF Spec, RefusalsAreDeserved

\* What a purge in progress has chosen: nothing has renewed the row since the query, and
\* nothing in flight could but a request that found it within its idle bound; or it lapsed
\* only just before.
NotRenewed(t) ==
  /\ ~Valid(t, login.clock)
  /\ sessions[t].last_seen_at <= login.uses[t]
  /\ \A r \in Requests :
       req[r].pc = "slide" /\ req[r].token = t => req[r].clock < login.uses[t] + Idle

JustLapsed(t) == login.clock < login.uses[t] + Idle + Delay

Lapsed(t) ==
  /\ \/ login.clock >= began[t] + Absolute
     \/ login.clock + Delay >= login.uses[t] + Idle
  /\ NotRenewed(t) \/ JustLapsed(t)

PurgeHolds ==
  login.pc = "delete" =>
    /\ \A t \in Live \ login.chosen : login.clock < began[t] + Absolute
    /\ \A t \in Live \intersect login.chosen : Lapsed(t)

\* A row that the query does not choose is within its absolute bound.
LEMMA ValidIsYoung ==
  ASSUME Inv, NEW t \in Live, NEW at \in Nat, Valid(t, at)
  PROVE  at < began[t] + Absolute
BY DEF Valid, Inv, RowsAreTrue, RowIsTrue

LEMMA NumbersOf ==
  ASSUME TypeOK
  PROVE  /\ Idle \in Nat /\ Delay \in Nat /\ now \in Nat /\ login.clock \in Nat
         /\ \A t \in Tokens : began[t] \in Nat /\ used[t] \in Nat /\ login.uses[t] \in Nat
         /\ Live \subseteq Tokens
         /\ \A t \in Live : sessions[t].last_seen_at \in Nat
BY SessionsAssumption DEF TypeOK, LoginRecords, Rows, Time

LEMMA QueryChooses ==
  ASSUME Inv, SelectExpired
  PROVE  PurgeHolds'
<1>1. CASE login'.pc # "delete"
  BY <1>1 DEF PurgeHolds
<1>2. CASE login'.pc = "delete"
  <2>0. TypeOK /\ login \in LoginRecords
    BY DEF Inv, TypeOK
  <2>1. /\ login' = [login EXCEPT !.pc = "delete", !.uses = used,
                                  !.chosen = {t \in Live : ~Valid(t, login.clock)}]
        /\ UNCHANGED <<sessions, req, began, used>>
    <3>1. login' # [login EXCEPT !.pc = "create"]
      BY <1>2, <2>0 DEF LoginRecords
    <3> QED BY <3>1 DEF SelectExpired
  <2>2. /\ login'.clock = login.clock /\ login'.uses = used
        /\ login'.chosen = {t \in Live : ~Valid(t, login.clock)}
    BY <2>0, <2>1 DEF LoginRecords
  <2>3. Live' = Live /\ \A t : Valid(t, login.clock)' <=> Valid(t, login.clock)
    BY <2>1, <2>2 DEF Live, Valid
  <2>4. ASSUME NEW t \in Live', t \notin login'.chosen
        PROVE  login'.clock < began'[t] + Absolute
    BY <2>0, <2>1, <2>2, <2>3, <2>4, ValidIsYoung, NumbersOf
  <2>5. ASSUME NEW t \in Live', t \in login'.chosen
        PROVE  Lapsed(t)'
    <3>1. t \in Live /\ ~Valid(t, login.clock)
      BY <2>2, <2>3, <2>5
    <3>2. login.clock >= began[t] + Absolute \/ login.clock + Delay >= used[t] + Idle
      BY <2>0, <3>1, ExpiredIsIdle, NumbersOf
    <3>3. sessions[t].last_seen_at <= used[t]
      BY <3>1 DEF Inv, RowsAreTrue, RowIsTrue
    <3>4. \A r \in Requests :
            req[r].pc = "slide" /\ req[r].token = t => req[r].clock < used[t] + Idle
      BY DEF Inv, LookupHolds
    <3>5. NotRenewed(t)'
      BY <2>1, <2>2, <2>3, <3>1, <3>3, <3>4 DEF NotRenewed
    <3> QED BY <2>1, <2>2, <3>2, <3>5 DEF Lapsed
  <2> QED BY <2>4, <2>5 DEF PurgeHolds
<1> QED BY <1>1, <1>2

\* Nothing in the table changes, and nobody new is about to renew.
LEMMA PurgeWaits ==
  ASSUME PurgeHolds, UNCHANGED <<login, sessions, began>>,
         \A r \in Requests : req'[r].pc = "slide" => req'[r] = req[r]
  PROVE  PurgeHolds'
<1>1. Live' = Live /\ \A t : Valid(t, login.clock)' <=> Valid(t, login.clock)
  BY DEF Live, Valid
<1>2. \A t : NotRenewed(t) => NotRenewed(t)'
  BY <1>1 DEF NotRenewed
<1> QED BY <1>1, <1>2 DEF PurgeHolds, Lapsed, JustLapsed

\* A request that finds a chosen row within its bounds finds it by a use before the query.
LEMMA PurgeSurvivesLookup ==
  ASSUME Inv, PurgeHolds, NEW r \in Requests, Lookup(r)
  PROVE  PurgeHolds'
<1>1. /\ UNCHANGED <<login, sessions, began>> /\ Live' = Live
      /\ \A t : Valid(t, login.clock)' <=> Valid(t, login.clock)
  BY DEF Lookup, Live, Valid
<1>2. /\ TypeOK /\ DOMAIN req = Requests /\ InFlight(r)
      /\ req[r].token \in Tokens /\ req[r].clock \in Nat
      /\ req[r] = [pc |-> req[r].pc, token |-> req[r].token, clock |-> req[r].clock]
  BY InFlightIsTyped DEF Lookup, InFlight, Inv, TypeOK
<1>3. \A q \in Requests : q # r => req'[q] = req[q]
  BY <1>2 DEF Lookup
<1>4. req'[r].pc = "slide" =>
        /\ req[r].token \in Live /\ Valid(req[r].token, req[r].clock)
        /\ req'[r].token = req[r].token /\ req'[r].clock = req[r].clock
  BY <1>2 DEF Lookup, Answered
<1>5. ASSUME NEW t \in Live, NotRenewed(t)
      PROVE  NotRenewed(t)'
  <2>1. ASSUME NEW q \in Requests, req'[q].pc = "slide", req'[q].token = t
        PROVE  req'[q].clock < login.uses[t] + Idle
    <3>1. CASE q = r
      <4>1. req[r].clock < sessions[t].last_seen_at + Idle
        BY <1>4, <2>1, <3>1 DEF Valid
      <4>2. sessions[t].last_seen_at <= login.uses[t]
        BY <1>5 DEF NotRenewed
      <4> QED BY <1>2, <1>4, <2>1, <3>1, <4>1, <4>2, NumbersOf
    <3>2. CASE q # r
      BY <1>3, <1>5, <2>1, <3>2 DEF NotRenewed
    <3> QED BY <3>1, <3>2
  <2> QED BY <1>1, <1>5, <2>1 DEF NotRenewed
<1> QED BY <1>1, <1>5 DEF PurgeHolds, Lapsed, JustLapsed

\* The renewal that lands was asked for no longer than Delay ago, within the idle bound of
\* a use before the query.
LEMMA PurgeSurvivesSlide ==
  ASSUME Inv, PurgeHolds, NEW r \in Requests, Slide(r)
  PROVE  PurgeHolds'
<1>1. /\ TypeOK /\ DOMAIN req = Requests /\ InFlight(r) /\ req[r].pc = "slide"
      /\ req[r].token \in Tokens /\ req[r].clock \in Nat /\ req[r].clock \in Time
      /\ req[r] = [pc |-> req[r].pc, token |-> req[r].token, clock |-> req[r].clock]
  BY InFlightIsTyped DEF Slide, InFlight, Inv, TypeOK
<1>2. UNCHANGED <<login, began>>
  BY DEF Slide
<1>3. \A q \in Requests : req'[q].pc = "slide" => req'[q] = req[q]
  BY <1>1 DEF Slide, Answered
<1>4. CASE req[r].token \notin Live
  BY <1>2, <1>3, <1>4, PurgeWaits DEF Slide
<1>5. CASE req[r].token \in Live
  <2>1. PICK t \in Live : t = req[r].token
    BY <1>5
  <2>2. Touch(t, req[r].clock)
    BY <1>5, <2>1 DEF Slide
  <2>3. Live' = Live /\ \A s \in Live : s # t => sessions'[s] = sessions[s]
    BY <1>1, <2>2, TouchMoves
  <2>4. SUFFICES ASSUME login.pc = "delete"
                 PROVE  PurgeHolds'
    BY <1>2 DEF PurgeHolds
  <2>5. req[r].clock + Delay >= login.clock
    BY <1>1, <2>4, NumbersOf DEF Inv, RequestsArePrompt, LoginIsPrompt, LoopIsFree, Prompt
  <2>6. ASSUME NEW s \in Live \intersect login.chosen
        PROVE  Lapsed(s)'
    <3>1. Lapsed(s)
      BY <2>4, <2>6 DEF PurgeHolds
    <3>2. CASE s = t /\ NotRenewed(s)
      <4>1. req[r].clock < login.uses[s] + Idle
        BY <1>1, <2>1, <3>2 DEF NotRenewed
      <4>2. JustLapsed(s)
        BY <1>1, <2>5, <4>1, NumbersOf DEF JustLapsed
      <4> QED BY <1>2, <3>1, <4>2 DEF Lapsed, JustLapsed
    <3>3. CASE s # t /\ NotRenewed(s)
      <4>1. sessions'[s] = sessions[s]
        BY <2>3, <2>6, <3>3
      <4>2. NotRenewed(s)'
        BY <1>2, <1>3, <3>3, <4>1 DEF NotRenewed, Valid
      <4> QED BY <1>2, <3>1, <4>2 DEF Lapsed
    <3>4. CASE JustLapsed(s)
      BY <1>2, <3>1, <3>4 DEF Lapsed, JustLapsed
    <3> QED BY <3>1, <3>2, <3>3, <3>4 DEF Lapsed
  <2> QED BY <1>2, <2>3, <2>6 DEF PurgeHolds
<1> QED BY <1>4, <1>5

LEMMA PurgeStep ==
  ASSUME Inv, PurgeHolds, [Next]_vars
  PROVE  PurgeHolds'
<1>1. CASE login'.pc # "delete"
  BY <1>1 DEF PurgeHolds
<1>2. CASE login'.pc = "delete"
  <2>0. DOMAIN req = Requests
    BY DEF Inv, TypeOK
  <2>1. \/ SelectExpired
        \/ \E r \in Requests : Lookup(r) \/ Slide(r)
        \/ /\ UNCHANGED <<login, sessions, began>>
           /\ \A r \in Requests : req'[r].pc = "slide" => req'[r] = req[r]
    <3>1. ASSUME NEW r \in Requests, Arrive(r) \/ Serve(r) \/ RequestFails(r)
          PROVE  /\ UNCHANGED <<login, sessions, began>>
                 /\ \A q \in Requests : req'[q].pc = "slide" => req'[q] = req[q]
      <4>1. PICK answer : req' = [req EXCEPT ![r] = answer] /\ answer.pc # "slide"
        BY <2>0, <3>1 DEF Arrive, Serve, RequestFails, Answered
      <4>2. \A q \in Requests : req'[q].pc = "slide" => req'[q] = req[q]
        BY <2>0, <4>1
      <4> QED BY <3>1, <4>2 DEF Arrive, Serve, RequestFails
    <3>2. ASSUME NEW r \in Requests, Logout(r)
          PROVE  FALSE
      BY <1>2, <3>2 DEF Logout, LoopIsFree
    <3>3. ~LoginForm
      BY <1>2 DEF LoginForm, LoopIsFree
    <3>4. /\ ~DeleteExpired /\ ~CreateSession /\ ~LoginFails /\ ~Restart
          /\ \A password \in 1 .. MaxAccounts : ~VerifyAdminLogin(password)
      <4>1. ~DeleteExpired
        BY <1>2, LoginOf DEF DeleteExpired
      <4>2. \A password \in 1 .. MaxAccounts : ~VerifyAdminLogin(password)
        BY <1>2, LoginOf DEF VerifyAdminLogin
      <4>3. NoLogin.pc # "delete"
        BY DEF NoLogin, LoginAt
      <4> QED BY <1>2, <4>1, <4>2, <4>3 DEF CreateSession, LoginFails, Restart
    <3>5. CASE InitializeAdmin \/ Tick \/ UNCHANGED vars
      BY <3>5 DEF InitializeAdmin, Tick, vars
    <3> QED BY <3>1, <3>2, <3>3, <3>4, <3>5 DEF Next
  <2> QED BY <2>1, QueryChooses, PurgeSurvivesLookup, PurgeSurvivesSlide, PurgeWaits
<1> QED BY <1>1, <1>2

\* A purge deletes only what had passed a bound when its query ran, give or take the
\* duration of a request, takes a row that was renewed meanwhile only if it had lapsed less
\* than that duration before, and leaves nothing past its absolute bound
\* (sessions.py:86-107).
THEOREM PurgeTakesTheLapsedOnly == Spec => PurgeTakesTheLapsed
<1> DEFINE Purge ==
      login.pc \in {"select", "delete"} /\ login'.pc = "create" =>
        /\ \A t \in Live \ Live' :
             /\ \/ login.clock >= began[t] + Absolute
                \/ login.clock + Delay >= login.uses[t] + Idle
             /\ Valid(t, login.clock) => login.clock < login.uses[t] + Idle + Delay
        /\ \A t \in Live' : login.clock < began[t] + Absolute
<1>1. ASSUME Inv, PurgeHolds, [Next]_vars PROVE Purge
  <2>1. SUFFICES ASSUME login.pc \in {"select", "delete"}, login'.pc = "create"
                 PROVE  Purge
    OBVIOUS
  <2>2. DeleteExpired \/ SelectExpired
    <3>1. ~LoopIsFree /\ login' # login
      BY <2>1 DEF LoopIsFree
    <3>2. \A password \in 1 .. MaxAccounts : ~VerifyAdminLogin(password)
      BY <3>1 DEF VerifyAdminLogin
    <3>3. NoLogin.pc # "create"
      BY DEF NoLogin, LoginAt
    <3>4. ~CreateSession /\ ~LoginFails /\ ~Restart
      BY <2>1, <3>3 DEF CreateSession, LoginFails, Restart
    <3>5. /\ ~LoginForm /\ ~InitializeAdmin /\ ~Tick /\ ~UNCHANGED vars
      BY <3>1 DEF LoginForm, InitializeAdmin, Tick, vars
    <3>6. ASSUME NEW r \in Requests, \/ Arrive(r) \/ Lookup(r) \/ Slide(r)
                                    \/ Serve(r) \/ RequestFails(r) \/ Logout(r)
          PROVE  FALSE
      BY <3>1, <3>6 DEF Arrive, Lookup, Slide, Serve, RequestFails, Logout
    <3> QED BY <1>1, <3>2, <3>4, <3>5, <3>6 DEF Next
  <2>3. TypeOK /\ login \in LoginRecords
    BY <1>1 DEF Inv, TypeOK
  <2>4. CASE DeleteExpired
    <3>1. Live' = Live \ login.chosen
      BY <2>3, <2>4, RowsRemain DEF DeleteExpired
    <3>2. /\ \A t \in Live \ login.chosen : login.clock < began[t] + Absolute
          /\ \A t \in Live \intersect login.chosen : Lapsed(t)
      BY <1>1, <2>4 DEF PurgeHolds, DeleteExpired
    <3> QED BY <3>1, <3>2 DEF Lapsed, NotRenewed, JustLapsed
  <2>5. CASE SelectExpired
    <3>1. \A t \in Live : Valid(t, login.clock)
      <4>1. \/ {t \in Live : ~Valid(t, login.clock)} = {}
            \/ login' = [login EXCEPT !.pc = "delete", !.uses = used,
                                      !.chosen = {t \in Live : ~Valid(t, login.clock)}]
        BY <2>5 DEF SelectExpired
      <4>2. {t \in Live : ~Valid(t, login.clock)} = {}
        BY <2>1, <2>3, <4>1 DEF LoginRecords
      <4> QED BY <4>2
    <3>2. Live' = Live
      BY <2>5 DEF SelectExpired, Live
    <3> QED BY <1>1, <2>3, <3>1, <3>2, ValidIsYoung, NumbersOf
  <2> QED BY <2>2, <2>4, <2>5
<1>2. Init => PurgeHolds
  BY DEF Init, NoLogin, LoginAt, PurgeHolds
<1>3. ASSUME Inv, PurgeHolds, [Next]_vars PROVE PurgeHolds'
  BY <1>3, PurgeStep
<1>4. [][Purge]_vars => PurgeTakesTheLapsed
  BY DEF PurgeTakesTheLapsed
<1> HIDE DEF Purge
<1>5. ASSUME Inv, PurgeHolds, [Next]_vars PROVE [Purge]_vars
  BY <1>1, <1>5
<1> QED BY <1>2, <1>3, <1>4, <1>5, Invariant, PTL DEF Spec

==============================================================================
