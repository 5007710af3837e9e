---------------------------- MODULE SessionsProofs ----------------------------
(***************************************************************************)
(* Theorems about Sessions, for any number of server processes, terminals, *)
(* users and passwords.                                                    *)
(***************************************************************************)
EXTENDS Sessions, TLAPS

(* What is sent with a request: a login, a registration and a password     *)
(* change carry a password, and the change is for the sender itself.       *)
Filled(r) ==
    /\ r.op \in {"login", "register"} => r.user \in Users /\ r.passwd \in Passwords
    /\ r.op = "passwd" => r.user = r.log_user /\ r.passwd \in Passwords

(* The same for what a terminal remembers of its call.                     *)
CallFilled(t) ==
    /\ call[t].op = "login" \/ call[t].then = "login"
           => call[t].user \in Users /\ call[t].passwd \in Passwords
    /\ call[t].op = "passwd" => call[t].passwd \in Passwords
    /\ at[t] = "login" => call[t].then = "login"

Typed ==
    /\ TypeOK
    /\ \A r \in requests : Filled(r)
    /\ \A t \in Terminals : at[t] \in {"waiting", "login"} => CallFilled(t)

LEMMA TypedInit == Init => Typed
<1> SUFFICES ASSUME Init
             PROVE  Typed
  OBVIOUS
<1>1. running \subseteq Process
  BY DEF Init
<1>2. requests = {} /\ \A t \in Terminals : at[t] \notin {"waiting", "login"}
  BY DEF Init
<1>3. call \in [Terminals -> Call \cup {NoCall}]
  BY DEF Init
<1> QED
  BY <1>1, <1>2, <1>3 DEF Init, Typed, TypeOK

(* A request goes out.                                                     *)
LEMMA SendIsTyped ==
    ASSUME Typed, NEW t \in Terminals, NEW op \in Op,
           NEW u \in Users \cup {anonimo}, NEW w \in Passwords \cup {anonimo},
           NEW then \in {"prompt", "login", "exit"},
           op \in {"login", "register"} \/ then = "login" => u \in Users /\ w \in Passwords,
           op = "passwd" => u = log_user[t] /\ w \in Passwords,
           Send(t, op, u, w, then)
    PROVE  Typed'
<1> DEFINE r == [id |-> sent, op |-> op, log_user |-> log_user[t],
                 log_passwd |-> log_passwd[t], user |-> u, passwd |-> w]
           c == [id |-> sent, op |-> op, user |-> u, passwd |-> w, then |-> then]
<1>1. r \in Request /\ c \in Call
  BY DEF Typed, TypeOK, Request, Call
<1>2. Filled(r)
  BY DEF Filled
<1>3. /\ requests' = requests \cup {r}
      /\ call' = [call EXCEPT ![t] = c]
      /\ at' = [at EXCEPT ![t] = "waiting"]
      /\ sent' = sent + 1
      /\ UNCHANGED <<running, users_online, directory, reply, log_user, log_passwd,
                     unsure, apart>>
  BY DEF Send, server, history
<1> HIDE DEF r, c
<1>4. TypeOK'
  BY <1>1, <1>3 DEF Typed, TypeOK
<1>5. \A x \in requests' : Filled(x)
  BY <1>2, <1>3 DEF Typed
<1>6. ASSUME NEW x \in Terminals, at'[x] \in {"waiting", "login"}
      PROVE  CallFilled(x)'
  <2>1. CASE x = t
    BY <1>3, <2>1 DEF c, CallFilled, Typed, TypeOK
  <2>2. CASE x # t
    BY <1>3, <1>6, <2>2 DEF CallFilled, Typed, TypeOK
  <2> QED
    BY <2>1, <2>2
<1> QED
  BY <1>4, <1>5, <1>6 DEF Typed, Filled

(* A command of the user, or the second half of a login.                   *)
LEMMA TerminalIsTyped ==
    ASSUME Typed, NEW t \in Terminals, TypeIn(t) \/ GoOn(t)
    PROVE  Typed'
<1>1. ASSUME NEW u \in Users, NEW w \in Passwords, UserLogin(t, u, w)
      PROVE  Typed'
  BY <1>1, SendIsTyped DEF UserLogin, Op
<1>2. ASSUME NEW u \in Users, NEW w \in Passwords, UserRegistration(t, u, w)
      PROVE  Typed'
  BY <1>2, SendIsTyped DEF UserRegistration, Op
<1>3. ASSUME NEW w \in Passwords, UserChangePasswd(t, w)
      PROVE  Typed'
  BY <1>3, SendIsTyped DEF UserChangePasswd, Op, Typed, TypeOK
<1>4. CASE UserLogout(t) \/ UseService(t) \/ UserExit(t)
  BY <1>4, SendIsTyped DEF UserLogout, UseService, UserExit, Op
<1>5. CASE LoginAfterLogout(t)
  BY <1>5, SendIsTyped DEF LoginAfterLogout, Op, Typed, CallFilled
<1>6. CASE ExitAnonymous(t) \/ CannotConnect(t)
  <2>1. PICK place \in {"prompt", "gone"} : Leave(t, place)
    BY <1>6 DEF ExitAnonymous, CannotConnect
  <2> QED
    BY <2>1 DEF Leave, server, history, Typed, TypeOK, Filled, CallFilled
<1>7. ASSUME Receive(t) \/ TimesOut(t)
      PROVE  Typed'
  <2>1. call[t] \in Call /\ CallFilled(t)
    BY <1>7 DEF Receive, TimesOut, Typed, TypeOK
  <2>2. PICK place \in {"prompt", "login", "gone"} :
            /\ at' = [at EXCEPT ![t] = place]
            /\ place = "login" => call[t].then = "login"
    BY <1>7, <2>1 DEF Receive, TimesOut, Returns, Call
  <2>3. /\ UNCHANGED <<running, users_online, directory, requests, call, sent, apart>>
        /\ reply' = [reply EXCEPT ![t] = Nothing]
        /\ unsure' \subseteq Terminals
    BY <1>7 DEF Receive, TimesOut, server, history, Typed, TypeOK
  <2>4. log_user' \in [Terminals -> Users \cup {anonimo}]
    BY <1>7, <2>1 DEF Receive, TimesOut, CallFilled, Typed, TypeOK
  <2>5. log_passwd' \in [Terminals -> Passwords \cup {anonimo}]
    BY <1>7, <2>1 DEF Receive, TimesOut, CallFilled, Typed, TypeOK
  <2> QED
    BY <2>1, <2>2, <2>3, <2>4, <2>5 DEF Typed, TypeOK, Filled, CallFilled
<1> QED
  BY <1>1, <1>2, <1>3, <1>4, <1>5, <1>6, <1>7 DEF TypeIn, GoOn

(* A request is served: whatever is done to the two tables is an entry of  *)
(* the right type.                                                         *)
LEMMA AnswerIsTyped ==
    ASSUME Typed, NEW r \in requests, NEW code \in {"ok", "is_log", "invalid", "denied"},
           Answer(r, code),
           users_online' \in [Process -> [Users -> Passwords \cup {Nothing}]],
           directory' \in [Users -> Passwords \cup {Nothing}],
           unsure' \subseteq Terminals, apart' \in BOOLEAN
    PROVE  Typed'
<1>1. /\ requests' \subseteq requests
      /\ UNCHANGED <<at, call, log_user, log_passwd, sent, running>>
      /\ reply' \in [Terminals -> {"ok", "is_log", "invalid", "denied", Nothing}]
  BY DEF Answer, terminal, Typed, TypeOK
<1> QED
  BY <1>1 DEF Typed, TypeOK, Filled, CallFilled

LEMMA ServeIsTyped ==
    ASSUME Typed, NEW p \in Process, NEW r \in requests, Serve(p, r)
    PROVE  Typed'
<1>1. r \in Request /\ Filled(r)
  BY DEF Typed, TypeOK
<1>2. CASE ServeLogin(p, r)
  BY <1>1, <1>2, AnswerIsTyped DEF ServeLogin, Serving, Filled, Typed, TypeOK
<1>3. CASE RefuseLogin(p, r) \/ RefuseRegister(p, r) \/ ServeUse(p, r)
           \/ RefuseUse(p, r) \/ Deny(p, r)
  BY <1>3, AnswerIsTyped
  DEF RefuseLogin, RefuseRegister, ServeUse, RefuseUse, Deny, history, Typed, TypeOK
<1>4. CASE ServeRegister(p, r)
  BY <1>1, <1>4, AnswerIsTyped DEF ServeRegister, Serving, Filled, history, Typed, TypeOK
<1>5. CASE ServeNewPasswd(p, r)
  BY <1>1, <1>5, AnswerIsTyped
  DEF ServeNewPasswd, Serving, UserCanAcces, Filled, Request, Overtaken, Typed, TypeOK
<1>6. CASE ServeLogout(p, r)
  BY <1>1, <1>6, AnswerIsTyped
  DEF ServeLogout, UserCanAcces, Request, Overtaken, Typed, TypeOK
<1> QED
  BY <1>2, <1>3, <1>4, <1>5, <1>6 DEF Serve

LEMMA TypedStep == Typed /\ [Next]_vars => Typed'
<1> SUFFICES ASSUME Typed, [Next]_vars
             PROVE  Typed'
  OBVIOUS
<1>1. ASSUME NEW p \in Process, NEW child \in Process, Fork(p, child)
      PROVE  Typed'
  BY <1>1 DEF Fork, terminal, Typed, TypeOK, Filled, CallFilled
<1>2. ASSUME NEW p \in Process, Crash(p)
      PROVE  Typed'
  BY <1>2 DEF Crash, terminal, Typed, TypeOK, Filled, CallFilled
<1>3. ASSUME NEW p \in Process, Restart(p)
      PROVE  Typed'
  BY <1>3 DEF Restart, terminal, history, Typed, TypeOK, Filled, CallFilled
<1>4. CASE UNCHANGED vars
  BY <1>4 DEF vars, server, terminal, history, Typed, TypeOK, Filled, CallFilled
<1> QED
  BY <1>1, <1>2, <1>3, <1>4, TerminalIsTyped, ServeIsTyped DEF Next

(* The variables keep their types.                                         *)
THEOREM TypeCorrect == Spec => []TypeOK
<1>1. Typed => TypeOK
  BY DEF Typed
<1> QED
  BY <1>1, TypedInit, TypedStep, PTL DEF Spec
-----------------------------------------------------------------------------
(* Only a running process has sessions; while nothing came apart only one  *)
(* is running, and what it holds is what the directory holds.              *)
OneTruth ==
    /\ \A p \in Process : p \notin running => users_online[p] = [u \in Users |-> Nothing]
    /\ ~apart => \A p, q \in running : p = q
    /\ SessionHasAccountPassword

LEMMA OneTruthInit == Init => OneTruth
  BY DEF Init, OneTruth, SessionHasAccountPassword

LEMMA ServeKeepsOneTruth ==
    ASSUME Typed, OneTruth, NEW p \in Process, NEW r \in requests, Serve(p, r)
    PROVE  OneTruth'
<1>1. p \in running /\ running' = running /\ r \in Request /\ Filled(r)
  BY DEF Serve, ServeLogin, RefuseLogin, ServeRegister, RefuseRegister, ServeNewPasswd,
         ServeLogout, ServeUse, RefuseUse, Deny, Serving, Answer, Typed, TypeOK
<1>2. CASE UNCHANGED <<users_online, directory, apart>>
  BY <1>1, <1>2 DEF OneTruth, SessionHasAccountPassword
<1>3. CASE ServeLogin(p, r)
  <2>1. /\ r.user \in Users /\ directory[r.user] = r.passwd
        /\ UNCHANGED <<directory, apart>>
        /\ \/ users_online' = [users_online EXCEPT ![p][r.user] = r.passwd]
           \/ UNCHANGED users_online
    BY <1>1, <1>3 DEF ServeLogin, Serving, Filled
  <2>2. \A q \in Process : q # p => users_online'[q] = users_online[q]
    BY <2>1 DEF Typed, TypeOK
  <2>3. \A u \in Users : users_online'[p][u] \in {users_online[p][u], directory[u]}
    BY <2>1 DEF Typed, TypeOK
  <2> QED
    BY <1>1, <2>1, <2>2, <2>3 DEF OneTruth, SessionHasAccountPassword
<1>4. CASE ServeRegister(p, r)
  BY <1>1, <1>4
  DEF ServeRegister, Serving, Filled, history, OneTruth, SessionHasAccountPassword, Typed, TypeOK
<1>5. CASE ServeNewPasswd(p, r)
  <2>1. r.user \in Users /\ users_online' = [users_online EXCEPT ![p][r.user] = r.passwd]
    BY <1>1, <1>5 DEF ServeNewPasswd, UserCanAcces, Serving, Filled, Request
  <2>2. \A q \in Process : q # p => users_online'[q] = users_online[q]
    BY <2>1 DEF Typed, TypeOK
  <2>3. \A u \in Users : users_online'[p][u] = IF u = r.user THEN r.passwd
                                                             ELSE users_online[p][u]
    BY <2>1 DEF Typed, TypeOK
  <2>4. CASE apart'
    BY <1>1, <2>2, <2>4 DEF OneTruth, SessionHasAccountPassword
  <2>5. CASE ~apart'
    <3>1. directory' = [directory EXCEPT ![r.user] = r.passwd] /\ ~apart
      BY <1>5, <2>5 DEF ServeNewPasswd
    <3>2. \A q \in Process : q # p => \A u \in Users : users_online[q][u] = Nothing
      BY <1>1, <3>1 DEF OneTruth
    <3> QED
      BY <1>1, <2>2, <2>3, <3>1, <3>2 DEF OneTruth, SessionHasAccountPassword, Typed, TypeOK
  <2> QED
    BY <2>4, <2>5
<1>6. CASE ServeLogout(p, r)
  BY <1>1, <1>6
  DEF ServeLogout, UserCanAcces, Request, OneTruth, SessionHasAccountPassword, Typed, TypeOK
<1> QED
  BY <1>2, <1>3, <1>4, <1>5, <1>6
  DEF Serve, RefuseLogin, RefuseRegister, ServeUse, RefuseUse, Deny, history

LEMMA OneTruthStep == Typed /\ OneTruth /\ [Next]_vars => OneTruth'
<1> SUFFICES ASSUME Typed, OneTruth, [Next]_vars
             PROVE  OneTruth'
  OBVIOUS
<1>1. ASSUME UNCHANGED <<running, users_online, directory, apart>>
      PROVE  OneTruth'
  BY <1>1 DEF OneTruth, SessionHasAccountPassword
<1>2. ASSUME NEW t \in Terminals, TypeIn(t) \/ GoOn(t)
      PROVE  UNCHANGED <<running, users_online, directory, apart>>
  BY <1>2 DEF TypeIn, GoOn, UserLogin, UserRegistration, UserChangePasswd, UserLogout, UseService,
              UserExit, LoginAfterLogout, Send, ExitAnonymous, CannotConnect, Leave, Receive,
              TimesOut, server, history
<1>3. ASSUME NEW p \in Process, NEW child \in Process, Fork(p, child)
      PROVE  OneTruth'
  BY <1>3 DEF Fork, OneTruth, SessionHasAccountPassword, Typed, TypeOK
<1>4. ASSUME NEW p \in Process, Crash(p)
      PROVE  OneTruth'
  BY <1>4 DEF Crash, OneTruth, SessionHasAccountPassword, Typed, TypeOK
<1>5. ASSUME NEW p \in Process, Restart(p)
      PROVE  OneTruth'
  BY <1>5 DEF Restart, history, OneTruth, SessionHasAccountPassword
<1>6. CASE UNCHANGED vars
  BY <1>1, <1>6 DEF vars, server, history
<1> QED
  BY <1>1, <1>2, <1>3, <1>4, <1>5, <1>6, ServeKeepsOneTruth DEF Next

(* Until a fork or a refused change, session and account have the same     *)
(* password, whatever the order in which requests are served.              *)
THEOREM SessionsFollowAccounts == Spec => []SessionHasAccountPassword
<1>1. OneTruth => SessionHasAccountPassword
  BY DEF OneTruth
<1> QED
  BY <1>1, TypedInit, TypedStep, OneTruthInit, OneTruthStep, PTL DEF Spec
-----------------------------------------------------------------------------
(* The request that a terminal waits for is the one that it sent, and who  *)
(* has its answer has no request left.                                     *)
Corresponds ==
    /\ \A r \in requests : r.id < sent
    /\ \A r, s \in requests : r.id = s.id => r = s
    /\ \A t \in Terminals :
          /\ at[t] = "waiting" => call[t].id < sent
          /\ at[t] # "waiting" => reply[t] = Nothing
    /\ \A t \in Terminals, r \in requests : Awaits(t, r) =>
          /\ reply[t] = Nothing
          /\ r.op = call[t].op /\ r.user = call[t].user /\ r.passwd = call[t].passwd
          /\ r.log_user = log_user[t] /\ r.log_passwd = log_passwd[t]

(* What t believes once it has taken note of the answer in its socket.     *)
LoggedIn(t) == call[t].op = "login" /\ reply[t] \in {"ok", "is_log"}
LoggedOut(t) ==
    \/ reply[t] = "denied" /\ call[t].op \in {"passwd", "logout", "use"}
    \/ reply[t] = "ok" /\ call[t].op = "logout"
Changed(t) == call[t].op = "passwd" /\ reply[t] = "ok"

HasSession(p, u, w) == u # anonimo => users_online[p][u] = w

BeliefWillBeRight(t, p) ==
    \/ LoggedIn(t) /\ HasSession(p, call[t].user, call[t].passwd)
    \/ LoggedOut(t)
    \/ Changed(t) /\ HasSession(p, log_user[t], call[t].passwd)
    \/ /\ ~LoggedIn(t) /\ ~LoggedOut(t) /\ ~Changed(t)
       /\ HasSession(p, log_user[t], log_passwd[t])

Sure ==
    /\ running = {} => unsure = Terminals
    /\ ~apart => \A t \in Terminals \ unsure, p \in running : BeliefWillBeRight(t, p)

Beliefs == Corresponds /\ Sure

LEMMA BeliefsInit == Init => Beliefs
  BY ConstantsAssumption
  DEF Init, Beliefs, Corresponds, Sure, BeliefWillBeRight, LoggedIn, LoggedOut, Changed,
      HasSession

(* Nobody's belief is touched when neither he nor the server does anything.*)
LEMMA QuietIsSure ==
    ASSUME Sure, UNCHANGED <<running, users_online, apart>>, unsure \subseteq unsure',
           unsure' \subseteq Terminals,
           NEW t \in Terminals, \A x \in Terminals \ {t} :
             UNCHANGED <<call[x], reply[x], log_user[x], log_passwd[x]>>,
           \A p \in running : t \in unsure' \/ apart \/ BeliefWillBeRight(t, p)'
    PROVE  Sure'
<1>1. running' = {} => unsure' = Terminals
  BY DEF Sure
<1>2. ASSUME ~apart', NEW x \in Terminals \ unsure', NEW p \in running'
      PROVE  BeliefWillBeRight(x, p)'
  <2>1. CASE x = t
    BY <1>2, <2>1
  <2>2. CASE x # t
    BY <1>2, <2>2
    DEF Sure, BeliefWillBeRight, LoggedIn, LoggedOut, Changed, HasSession
  <2> QED
    BY <2>1, <2>2
<1> QED
  BY <1>1, <1>2 DEF Sure

LEMMA SendBelieves ==
    ASSUME Typed, Beliefs, NEW t \in Terminals, at[t] # "waiting",
           NEW op, NEW u, NEW w, NEW then, Send(t, op, u, w, then)
    PROVE  Beliefs'
<1> DEFINE r == [id |-> sent, op |-> op, log_user |-> log_user[t],
                 log_passwd |-> log_passwd[t], user |-> u, passwd |-> w]
           c == [id |-> sent, op |-> op, user |-> u, passwd |-> w, then |-> then]
<1>1. /\ requests' = requests \cup {r}
      /\ call' = [call EXCEPT ![t] = c]
      /\ at' = [at EXCEPT ![t] = "waiting"]
      /\ sent' = sent + 1
      /\ UNCHANGED <<running, users_online, directory, reply, log_user, log_passwd,
                     unsure, apart>>
  BY DEF Send, server, history
<1>2. /\ r.id = sent /\ r.op = op /\ r.user = u /\ r.passwd = w
      /\ r.log_user = log_user[t] /\ r.log_passwd = log_passwd[t]
      /\ c.id = sent /\ c.op = op /\ c.user = u /\ c.passwd = w
  OBVIOUS
<1> HIDE DEF r, c
<1>3. /\ call'[t] = c /\ at'[t] = "waiting"
      /\ \A x \in Terminals \ {t} : call'[x] = call[x] /\ at'[x] = at[x]
      /\ \A x \in requests : x.id \in Nat
      /\ \A x \in Terminals : at[x] = "waiting" => call[x].id \in Nat
      /\ reply[t] = Nothing
  BY <1>1 DEF Typed, TypeOK, Request, Call, Beliefs, Corresponds
<1>4. /\ sent \in Nat /\ \A x \in requests : x.id < sent
      /\ \A x \in Terminals : at[x] = "waiting" => call[x].id < sent
  BY DEF Typed, TypeOK, Beliefs, Corresponds
<1>5. Corresponds'
  <2>1. \A x \in requests' : x.id < sent'
    BY <1>1, <1>2, <1>3, <1>4
  <2>2. \A x, y \in requests' : x.id = y.id => x = y
    BY <1>1, <1>2, <1>3, <1>4 DEF Beliefs, Corresponds
  <2>3. \A x \in Terminals : /\ at'[x] = "waiting" => call'[x].id < sent'
                             /\ at'[x] # "waiting" => reply'[x] = Nothing
    BY <1>1, <1>2, <1>3, <1>4 DEF Beliefs, Corresponds
  <2>4. ASSUME NEW x \in Terminals, NEW y \in requests', Awaits(x, y)'
        PROVE  (/\ reply[x] = Nothing
                /\ y.op = call[x].op /\ y.user = call[x].user /\ y.passwd = call[x].passwd
                /\ y.log_user = log_user[x] /\ y.log_passwd = log_passwd[x])'
    <3>1. CASE x = t
      <4>1. y.id = sent
        BY <1>2, <1>3, <2>4, <3>1 DEF Awaits
      <4>2. y = r
        BY <1>1, <1>2, <1>3, <1>4, <4>1
      <4> QED
        BY <1>1, <1>2, <1>3, <3>1, <4>2
    <3>2. CASE x # t
      <4>1. at[x] = "waiting" /\ call'[x] = call[x] /\ call[x].id = y.id
        BY <1>3, <2>4, <3>2 DEF Awaits
      <4>2. y \in requests /\ Awaits(x, y)
        BY <1>1, <1>2, <1>3, <1>4, <4>1 DEF Awaits
      <4> QED
        BY <1>1, <4>1, <4>2 DEF Beliefs, Corresponds
    <3> QED
      BY <3>1, <3>2
  <2> QED
    BY <2>1, <2>2, <2>3, <2>4 DEF Corresponds
<1>6. Sure'
  <2>1. \A p \in running : t \in unsure \/ apart \/ BeliefWillBeRight(t, p)'
    BY <1>1, <1>3, ConstantsAssumption
    DEF Beliefs, Sure, BeliefWillBeRight, LoggedIn, LoggedOut, Changed, HasSession
  <2> QED
    BY <1>1, <1>3, <2>1, QuietIsSure DEF Beliefs, Typed, TypeOK
<1> QED
  BY <1>5, <1>6 DEF Beliefs

(* A call ends: with the answer, or without one.                           *)
LEMMA ReturnBelieves ==
    ASSUME Typed, Beliefs, NEW t \in Terminals, Receive(t) \/ TimesOut(t)
    PROVE  Beliefs'
<1>1. call[t] \in Call /\ at[t] = "waiting" /\ CallFilled(t)
  BY DEF Receive, TimesOut, Typed, TypeOK
<1>2. /\ UNCHANGED <<running, users_online, directory, requests, call, sent, apart>>
      /\ reply' = [reply EXCEPT ![t] = Nothing]
      /\ \A x \in Terminals \ {t} :
           UNCHANGED <<at[x], call[x], reply[x], log_user[x], log_passwd[x]>>
      /\ at'[t] # "waiting" /\ reply'[t] = Nothing
      /\ unsure \subseteq unsure' /\ unsure' \subseteq Terminals
  BY <1>1 DEF Receive, TimesOut, Returns, server, history, Call, Typed, TypeOK
<1>3. Corresponds'
  <2>1. ASSUME NEW x \in Terminals, NEW y \in requests', Awaits(x, y)'
        PROVE  (/\ reply[x] = Nothing
                /\ y.op = call[x].op /\ y.user = call[x].user /\ y.passwd = call[x].passwd
                /\ y.log_user = log_user[x] /\ y.log_passwd = log_passwd[x])'
    <3>1. x # t /\ Awaits(x, y) /\ y \in requests
      BY <1>2, <2>1 DEF Awaits
    <3> QED
      BY <1>2, <3>1 DEF Beliefs, Corresponds
  <2> QED
    BY <1>2, <2>1 DEF Beliefs, Corresponds
<1>4. ASSUME NEW p \in running
      PROVE  t \in unsure' \/ apart \/ BeliefWillBeRight(t, p)'
  <2>1. CASE TimesOut(t)
    BY <2>1 DEF TimesOut
  <2>2. CASE Receive(t) /\ t \notin unsure /\ ~apart
    <3>1. BeliefWillBeRight(t, p)
      BY <2>2 DEF Beliefs, Sure
    <3>2. HasSession(p, log_user[t], log_passwd[t])'
      <4>1. CASE LoggedIn(t)
        <5>1. log_user'[t] = call[t].user /\ log_passwd'[t] = call[t].passwd
          BY <2>2, <4>1 DEF Receive, LoggedIn, Typed, TypeOK
        <5> QED
          BY <1>2, <3>1, <4>1, <5>1
          DEF BeliefWillBeRight, LoggedIn, LoggedOut, Changed, HasSession
      <4>2. CASE LoggedOut(t)
        <5>1. log_user'[t] = anonimo
          BY <2>2, <4>2 DEF Receive, LoggedOut, Typed, TypeOK
        <5> QED
          BY <5>1 DEF HasSession
      <4>3. CASE Changed(t)
        <5>1. log_user'[t] = log_user[t] /\ log_passwd'[t] = call[t].passwd
          BY <2>2, <4>3 DEF Receive, Changed, Typed, TypeOK
        <5> QED
          BY <1>2, <3>1, <4>3, <5>1
          DEF BeliefWillBeRight, LoggedIn, LoggedOut, Changed, HasSession
      <4>4. CASE ~LoggedIn(t) /\ ~LoggedOut(t) /\ ~Changed(t)
        <5>1. log_user'[t] = log_user[t] /\ log_passwd'[t] = log_passwd[t]
          BY <2>2, <4>4 DEF Receive, LoggedIn, LoggedOut, Changed
        <5> QED
          BY <1>2, <3>1, <4>4, <5>1 DEF BeliefWillBeRight, HasSession
      <4> QED
        BY <4>1, <4>2, <4>3, <4>4
    <3> QED
      BY <1>2, <3>2, ConstantsAssumption DEF BeliefWillBeRight, LoggedIn, LoggedOut, Changed
  <2> QED
    BY <1>2, <2>1, <2>2
<1>5. Sure'
  BY <1>2, <1>4, QuietIsSure DEF Beliefs
<1> QED
  BY <1>3, <1>5 DEF Beliefs

LEMMA TerminalBelieves ==
    ASSUME Typed, Beliefs, NEW t \in Terminals, TypeIn(t) \/ GoOn(t)
    PROVE  Beliefs'
<1>1. CASE Receive(t) \/ TimesOut(t)
  BY <1>1, ReturnBelieves
<1>2. ASSUME NEW place, at[t] # "waiting", place # "waiting", Leave(t, place)
      PROVE  Beliefs'
  <2>1. /\ UNCHANGED <<running, users_online, directory, requests, reply, call, log_user,
                       log_passwd, sent, unsure, apart>>
        /\ \A x \in Terminals : at'[x] = "waiting" <=> at[x] = "waiting"
    BY <1>2 DEF Leave, server, history, Typed, TypeOK
  <2> QED
    BY <2>1 DEF Beliefs, Corresponds, Awaits, Sure, BeliefWillBeRight, LoggedIn, LoggedOut,
                Changed, HasSession
<1>3. CASE ExitAnonymous(t) \/ CannotConnect(t)
  BY <1>2, <1>3 DEF ExitAnonymous, CannotConnect
<1> QED
  BY <1>1, <1>3, SendBelieves
  DEF TypeIn, GoOn, UserLogin, UserRegistration, UserChangePasswd, UserLogout, UseService,
      UserExit, LoginAfterLogout, AtPrompt

(* An answer is given: of the two sides of the call, one is left.          *)
LEMMA AnswerCorresponds ==
    ASSUME Typed, Beliefs, NEW r \in requests,
           NEW code \in {"ok", "is_log", "invalid", "denied"}, Answer(r, code)
    PROVE  /\ Corresponds'
           /\ UNCHANGED <<running, call, log_user, log_passwd>>
           /\ \A t \in Terminals : reply'[t] = IF Awaits(t, r) THEN code ELSE reply[t]
<1>1. /\ requests' = requests \ {r}
      /\ reply' = [t \in Terminals |-> IF Awaits(t, r) THEN code ELSE reply[t]]
      /\ UNCHANGED <<at, call, log_user, log_passwd, sent, running>>
  BY DEF Answer, terminal
<1>2. \A t \in Terminals, y \in requests' : Awaits(t, y) => ~Awaits(t, r)
  BY <1>1 DEF Awaits, Beliefs, Corresponds
<1>3. \A t \in Terminals, y \in requests : Awaits(t, y)' <=> Awaits(t, y)
  BY <1>1 DEF Awaits
<1>4. Corresponds'
  <2>1. /\ \A x \in requests' : x.id < sent'
        /\ \A x, y \in requests' : x.id = y.id => x = y
    BY <1>1 DEF Beliefs, Corresponds
  <2>2. \A t \in Terminals : /\ at'[t] = "waiting" => call'[t].id < sent'
                             /\ at'[t] # "waiting" => reply'[t] = Nothing
    BY <1>1 DEF Beliefs, Corresponds, Awaits
  <2>3. ASSUME NEW x \in Terminals, NEW y \in requests', Awaits(x, y)'
        PROVE  (/\ reply[x] = Nothing
                /\ y.op = call[x].op /\ y.user = call[x].user /\ y.passwd = call[x].passwd
                /\ y.log_user = log_user[x] /\ y.log_passwd = log_passwd[x])'
    BY <1>1, <1>2, <1>3, <2>3 DEF Beliefs, Corresponds
  <2> QED
    BY <2>1, <2>2, <2>3 DEF Corresponds
<1> QED
  BY <1>1, <1>4

(* The belief of a terminal that gets no answer rests on sessions that are *)
(* left alone.                                                             *)
LEMMA OthersBelieve ==
    ASSUME Typed, Beliefs, NEW t \in Terminals, NEW p \in Process,
           BeliefWillBeRight(t, p),
           UNCHANGED <<call[t], reply[t], log_user[t], log_passwd[t]>>,
           \A u \in Users : users_online'[p][u] # users_online[p][u] =>
               \/ users_online[p][u] = Nothing
               \/ /\ log_user[t] # u
                  /\ ~(at[t] = "waiting" /\ call[t].op = "login" /\ call[t].user = u)
    PROVE  BeliefWillBeRight(t, p)'
<1>1. log_user[t] \in Users \cup {anonimo} /\ log_passwd[t] # Nothing
  BY ConstantsAssumption DEF Typed, TypeOK
<1>2. HasSession(p, log_user[t], log_passwd[t]) => HasSession(p, log_user[t], log_passwd[t])'
  BY <1>1 DEF HasSession
<1>3. LoggedIn(t) \/ Changed(t) =>
        /\ at[t] = "waiting" /\ call[t].user \in Users \cup {anonimo}
        /\ call[t].passwd # Nothing
  BY ConstantsAssumption
  DEF LoggedIn, Changed, Beliefs, Corresponds, Typed, TypeOK, Call
<1>4. LoggedIn(t) /\ HasSession(p, call[t].user, call[t].passwd) =>
        HasSession(p, call[t].user, call[t].passwd)'
  BY <1>3 DEF HasSession, LoggedIn
<1>5. Changed(t) /\ HasSession(p, log_user[t], call[t].passwd) =>
        HasSession(p, log_user[t], call[t].passwd)'
  BY <1>1, <1>3 DEF HasSession
<1>6. /\ LoggedIn(t)' <=> LoggedIn(t)
      /\ LoggedOut(t)' <=> LoggedOut(t)
      /\ Changed(t)' <=> Changed(t)
  BY DEF LoggedIn, LoggedOut, Changed
<1> QED
  BY <1>2, <1>4, <1>5, <1>6 DEF BeliefWillBeRight

(* What is left to say of a request that is served: that who gets the      *)
(* answer believes it with reason.                                         *)
LEMMA ServedBelieve ==
    ASSUME Typed, OneTruth, Beliefs, NEW p \in running, NEW r \in requests,
           NEW code \in {"ok", "is_log", "invalid", "denied"}, Answer(r, code),
           apart => apart', unsure' \subseteq Terminals,
           \A t \in Terminals : t \in unsure /\ ~Awaits(t, r) => t \in unsure',
           \A t \in Terminals \ unsure', u \in Users :
             ~Awaits(t, r) /\ users_online'[p][u] # users_online[p][u] =>
               \/ users_online[p][u] = Nothing
               \/ /\ log_user[t] # u
                  /\ ~(at[t] = "waiting" /\ call[t].op = "login" /\ call[t].user = u),
           \A t \in Terminals \ unsure' :
             Awaits(t, r) /\ ~apart' => BeliefWillBeRight(t, p)'
    PROVE  Beliefs'
<1>1. /\ Corresponds' /\ UNCHANGED <<running, call, log_user, log_passwd>>
      /\ \A t \in Terminals : reply'[t] = IF Awaits(t, r) THEN code ELSE reply[t]
  BY AnswerCorresponds
<1>2. p \in Process
  BY DEF Typed, TypeOK
<1>3. ASSUME ~apart', NEW t \in Terminals \ unsure', NEW q \in running'
      PROVE  BeliefWillBeRight(t, q)'
  <2>1. q = p /\ ~apart
    BY <1>1, <1>3 DEF OneTruth
  <2>2. CASE Awaits(t, r)
    BY <1>3, <2>1, <2>2
  <2>3. CASE ~Awaits(t, r)
    <3>1. BeliefWillBeRight(t, p)
      BY <2>1, <2>3 DEF Beliefs, Sure
    <3>2. UNCHANGED <<call[t], reply[t], log_user[t], log_passwd[t]>>
      BY <1>1, <2>3
    <3> QED
      BY <1>2, <2>1, <2>3, <3>1, <3>2, OthersBelieve
  <2> QED
    BY <2>2, <2>3
<1>4. running' # {}
  BY <1>1
<1> QED
  BY <1>1, <1>3, <1>4 DEF Beliefs, Sure

(* Who waits for r has sent it, and believes what its header says.         *)
LEMMA AwaitingHasSent ==
    ASSUME Typed, Beliefs, NEW r \in requests, NEW t \in Terminals, Awaits(t, r)
    PROVE  /\ r.op = call[t].op /\ r.user = call[t].user /\ r.passwd = call[t].passwd
           /\ r.log_user = log_user[t] /\ r.log_passwd = log_passwd[t]
           /\ \A p \in running : ~apart /\ t \notin unsure =>
                HasSession(p, log_user[t], log_passwd[t])
<1>1. reply[t] = Nothing
  BY DEF Beliefs, Corresponds
<1>2. ~LoggedIn(t) /\ ~LoggedOut(t) /\ ~Changed(t)
  BY <1>1, ConstantsAssumption DEF LoggedIn, LoggedOut, Changed
<1> QED
  BY <1>2 DEF Beliefs, Corresponds, Sure, BeliefWillBeRight

LEMMA ServeBelieves ==
    ASSUME Typed, OneTruth, Beliefs, NEW p \in Process, NEW r \in requests, Serve(p, r)
    PROVE  Beliefs'
<1>1. /\ p \in running /\ r \in Request /\ Filled(r)
      /\ users_online \in [Process -> [Users -> Passwords \cup {Nothing}]]
      /\ unsure \subseteq Terminals
  BY DEF Serve, ServeLogin, RefuseLogin, ServeRegister, RefuseRegister, ServeNewPasswd,
         ServeLogout, ServeUse, RefuseUse, Deny, Serving, Typed, TypeOK
<1>2. CASE ServeLogin(p, r)
  <2>1. PICK code \in {"ok", "is_log"} :
          /\ Answer(r, code) /\ r.op = "login" /\ r.user \in Users
          /\ directory[r.user] = r.passwd
          /\ unsure' = unsure \ {t \in Terminals : Awaits(t, r)} /\ UNCHANGED apart
          /\ \/ /\ users_online[p][r.user] = Nothing
                /\ users_online' = [users_online EXCEPT ![p][r.user] = r.passwd]
             \/ users_online[p][r.user] # Nothing /\ UNCHANGED users_online
    BY <1>1, <1>2 DEF ServeLogin, Serving, Filled
  <2>2. ~apart => users_online'[p][r.user] = r.passwd
    BY <1>1, <2>1 DEF OneTruth, SessionHasAccountPassword
  <2>3. ASSUME NEW t \in Terminals, Awaits(t, r), ~apart
        PROVE  BeliefWillBeRight(t, p)'
    <3>1. /\ call'[t].op = "login" /\ reply'[t] = code
          /\ call'[t].user = r.user /\ call'[t].passwd = r.passwd
      BY <2>1, <2>3, AnswerCorresponds, AwaitingHasSent
    <3> QED
      BY <2>1, <2>2, <2>3, <3>1 DEF BeliefWillBeRight, LoggedIn, HasSession
  <2>4. \A u \in Users : users_online'[p][u] # users_online[p][u] =>
          users_online[p][u] = Nothing
    BY <1>1, <2>1
  <2> QED
    BY <1>1, <2>1, <2>3, <2>4, ServedBelieve
<1>3. CASE \E code \in {"ok", "invalid", "denied"} :
             /\ Answer(r, code) /\ UNCHANGED <<users_online, apart, unsure>>
             /\ code = "ok" => r.op \in {"register", "use"}
             /\ code = "invalid" => r.op \in {"login", "register", "use"}
             /\ code = "denied" => r.op \in {"passwd", "logout", "use"}
  <2>1. PICK code \in {"ok", "invalid", "denied"} :
             /\ Answer(r, code) /\ UNCHANGED <<users_online, apart, unsure>>
             /\ code = "ok" => r.op \in {"register", "use"}
             /\ code = "invalid" => r.op \in {"login", "register", "use"}
             /\ code = "denied" => r.op \in {"passwd", "logout", "use"}
    BY <1>3
  <2>2. ASSUME NEW t \in Terminals \ unsure', Awaits(t, r), ~apart'
        PROVE  BeliefWillBeRight(t, p)'
    <3>1. call'[t].op = r.op /\ reply'[t] = code /\ UNCHANGED <<log_user, log_passwd>>
      BY <2>1, <2>2, AnswerCorresponds, AwaitingHasSent
    <3>2. HasSession(p, log_user[t], log_passwd[t])'
      BY <1>1, <2>1, <2>2, <3>1, AwaitingHasSent DEF HasSession
    <3> QED
      BY <2>1, <3>1, <3>2 DEF BeliefWillBeRight, LoggedIn, LoggedOut, Changed
  <2> QED
    BY <1>1, <2>1, <2>2, ServedBelieve
<1>4. CASE ServeNewPasswd(p, r)
  <2>1. /\ Answer(r, "ok") /\ r.op = "passwd" /\ r.user = r.log_user /\ r.user \in Users
        /\ users_online' = [users_online EXCEPT ![p][r.user] = r.passwd]
        /\ unsure' = unsure \cup Overtaken(r.user, r) /\ (apart => apart')
    BY <1>1, <1>4 DEF ServeNewPasswd, Serving, UserCanAcces, Filled, Request
  <2>2. ASSUME NEW t \in Terminals, Awaits(t, r)
        PROVE  BeliefWillBeRight(t, p)'
    <3>1. /\ call'[t].op = "passwd" /\ reply'[t] = "ok" /\ call'[t].passwd = r.passwd
          /\ log_user'[t] = r.user
      BY <2>1, <2>2, AnswerCorresponds, AwaitingHasSent
    <3> QED
      BY <1>1, <2>1, <3>1 DEF BeliefWillBeRight, Changed, HasSession
  <2>3. \A t \in Terminals \ unsure', u \in Users :
          ~Awaits(t, r) /\ users_online'[p][u] # users_online[p][u] =>
            /\ log_user[t] # u
            /\ ~(at[t] = "waiting" /\ call[t].op = "login" /\ call[t].user = u)
    BY <1>1, <2>1 DEF Overtaken
  <2> QED
    BY <1>1, <2>1, <2>2, <2>3, ServedBelieve DEF Overtaken
<1>5. CASE ServeLogout(p, r)
  <2>1. /\ Answer(r, "ok") /\ r.op = "logout" /\ r.log_user \in Users
        /\ users_online' = [users_online EXCEPT ![p][r.log_user] = Nothing]
        /\ unsure' = unsure \cup Overtaken(r.log_user, r) /\ UNCHANGED apart
    BY <1>1, <1>5 DEF ServeLogout, Serving, UserCanAcces, Request
  <2>2. ASSUME NEW t \in Terminals, Awaits(t, r)
        PROVE  BeliefWillBeRight(t, p)'
    <3>1. call'[t].op = "logout" /\ reply'[t] = "ok"
      BY <2>1, <2>2, AnswerCorresponds, AwaitingHasSent
    <3> QED
      BY <3>1 DEF BeliefWillBeRight, LoggedOut
  <2>3. \A t \in Terminals \ unsure', u \in Users :
          ~Awaits(t, r) /\ users_online'[p][u] # users_online[p][u] =>
            /\ log_user[t] # u
            /\ ~(at[t] = "waiting" /\ call[t].op = "login" /\ call[t].user = u)
    BY <1>1, <2>1 DEF Overtaken
  <2> QED
    BY <1>1, <2>1, <2>2, <2>3, ServedBelieve DEF Overtaken
<1> QED
  BY <1>2, <1>3, <1>4, <1>5
  DEF Serve, Serving, RefuseLogin, ServeRegister, RefuseRegister, ServeUse, RefuseUse, Deny, history

LEMMA BeliefsStep == Typed /\ OneTruth /\ Beliefs /\ [Next]_vars => Beliefs'
<1> SUFFICES ASSUME Typed, OneTruth, Beliefs, [Next]_vars
             PROVE  Beliefs'
  OBVIOUS
<1>1. ASSUME NEW p \in Process, NEW child \in Process, Fork(p, child)
      PROVE  Beliefs'
  BY <1>1 DEF Fork, terminal, Beliefs, Corresponds, Awaits, Sure
<1>2. ASSUME NEW p \in Process, Crash(p)
      PROVE  Beliefs'
  <2>1. requests' \subseteq requests /\ UNCHANGED <<sent, at, call, reply, log_user, log_passwd>>
    BY <1>2 DEF Crash, terminal
  <2>2. Corresponds'
    BY <2>1 DEF Beliefs, Corresponds, Awaits
  <2>3. Sure'
    BY <1>2 DEF Crash, Sure
  <2> QED
    BY <2>2, <2>3 DEF Beliefs
<1>3. ASSUME NEW p \in Process, Restart(p)
      PROVE  Beliefs'
  BY <1>3 DEF Restart, terminal, history, Beliefs, Corresponds, Awaits, Sure
<1>4. CASE UNCHANGED vars
  BY <1>4 DEF vars, server, terminal, history, Beliefs, Corresponds, Awaits, Sure,
              BeliefWillBeRight, LoggedIn, LoggedOut, Changed, HasSession
<1> QED
  BY <1>1, <1>2, <1>3, <1>4, TerminalBelieves, ServeBelieves DEF Next

(* Late answers, old requests that are served after newer ones, other      *)
(* terminals with the same account, crashes: a terminal that was not       *)
(* overtaken has the session that its prompt shows.                        *)
THEOREM TerminalsBelieveRight == Spec => []BeliefIsRight
<1>1. Beliefs => BeliefIsRight
  BY ConstantsAssumption
  DEF Beliefs, Corresponds, Sure, BeliefIsRight, BeliefWillBeRight, LoggedIn, LoggedOut,
      Changed, HasSession
<1> QED
  BY <1>1, TypedInit, TypedStep, OneTruthInit, OneTruthStep, BeliefsInit, BeliefsStep, PTL
  DEF Spec
-----------------------------------------------------------------------------
(* No step gives a session a password but a login, where there was none,   *)
(* and a change by somebody who has the old one.                           *)
LEMMA ServeAuthenticates ==
    ASSUME Typed, NEW p \in Process, NEW r \in requests, Serve(p, r),
           NEW q \in Process, NEW u \in Users,
           users_online'[q][u] \notin {users_online[q][u], Nothing}
    PROVE  /\ q \in running
           /\ \/ users_online[q][u] = Nothing /\ users_online'[q][u] = directory[u]
              \/ /\ users_online[q][u] # Nothing
                 /\ ChangesPasswd(u, users_online[q][u], users_online'[q][u])
<1>1. /\ r \in Request /\ Filled(r) /\ p \in running
      /\ users_online \in [Process -> [Users -> Passwords \cup {Nothing}]]
  BY DEF Serve, ServeLogin, RefuseLogin, ServeRegister, RefuseRegister, ServeNewPasswd,
         ServeLogout, ServeUse, RefuseUse, Deny, Serving, Typed, TypeOK
<1>2. CASE ServeLogin(p, r)
  <2>1. /\ r.user \in Users /\ directory[r.user] = r.passwd
        /\ \/ /\ users_online[p][r.user] = Nothing
              /\ users_online' = [users_online EXCEPT ![p][r.user] = r.passwd]
           \/ UNCHANGED users_online
    BY <1>1, <1>2 DEF ServeLogin, Serving, Filled
  <2> QED
    BY <1>1, <2>1
<1>3. CASE ServeNewPasswd(p, r)
  <2>1. /\ r.op = "passwd" /\ r.user = r.log_user /\ r.user \in Users
        /\ users_online[p][r.user] = r.log_passwd
        /\ users_online' = [users_online EXCEPT ![p][r.user] = r.passwd]
        /\ r \in requests \ requests'
    BY <1>1, <1>3 DEF ServeNewPasswd, UserCanAcces, Serving, Answer, Filled, Request
  <2>2. q = p /\ u = r.user /\ users_online'[q][u] = r.passwd
    BY <1>1, <2>1
  <2>3. r.log_passwd # Nothing
    BY <1>1, ConstantsAssumption DEF Request
  <2>4. ChangesPasswd(u, users_online[q][u], users_online'[q][u])
    BY <2>1, <2>2 DEF ChangesPasswd
  <2> QED
    BY <1>1, <2>1, <2>2, <2>3, <2>4
<1>4. CASE ServeLogout(p, r)
  BY <1>1, <1>4 DEF ServeLogout, UserCanAcces, Request
<1> QED
  BY <1>2, <1>3, <1>4
  DEF Serve, RefuseLogin, ServeRegister, RefuseRegister, ServeUse, RefuseUse, Deny, history

(* Forks, crashes and failing LDAP operations included: a session only     *)
(* opens with the password of the account, and only who has its password   *)
(* can replace that.                                                       *)
THEOREM SessionsNeedThePassword == Spec => SessionsAreAuthenticated
<1>1. Typed /\ [Next]_vars => [\A p \in Process, u \in Users : Authenticated(p, u)]_vars
  <2> SUFFICES ASSUME Typed, Next, NEW x \in Process, NEW u \in Users
               PROVE  Authenticated(x, u)
    OBVIOUS
  <2>1. ASSUME UNCHANGED users_online
        PROVE  Authenticated(x, u)
    BY <2>1 DEF Authenticated
  <2>2. ASSUME NEW t \in Terminals, TypeIn(t) \/ GoOn(t)
        PROVE  UNCHANGED users_online
    BY <2>2 DEF TypeIn, GoOn, UserLogin, UserRegistration, UserChangePasswd, UserLogout,
                UseService, UserExit, LoginAfterLogout, Send, ExitAnonymous, CannotConnect,
                Leave, Receive, TimesOut, server
  <2>3. ASSUME NEW p \in Process, NEW child \in Process, Fork(p, child)
        PROVE  Authenticated(x, u)
    BY <2>3 DEF Authenticated, Fork, Typed, TypeOK
  <2>4. ASSUME NEW p \in Process, Crash(p)
        PROVE  Authenticated(x, u)
    BY <2>4 DEF Authenticated, Crash, Typed, TypeOK
  <2>5. ASSUME NEW p \in Process, Restart(p)
        PROVE  UNCHANGED users_online
    BY <2>5 DEF Restart
  <2>6. ASSUME NEW p \in Process, NEW r \in requests, Serve(p, r)
        PROVE  Authenticated(x, u)
    BY <2>6, ServeAuthenticates DEF Authenticated
  <2> QED
    BY <2>1, <2>2, <2>3, <2>4, <2>5, <2>6 DEF Next
<1> QED
  BY <1>1, TypedInit, TypedStep, PTL DEF Spec, SessionsAreAuthenticated
=============================================================================
