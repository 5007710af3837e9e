------------------------------- MODULE Sessions -------------------------------
(***************************************************************************)
(* Sessions of the movie store: the terminals (src/Client/client.c), the   *)
(* server's table of users online (src/Server/server.c) and the accounts   *)
(* of the LDAP directory (src/Server/client_ldap.c).                       *)
(*                                                                         *)
(* A terminal sends each request over a connection of its own, waits ten   *)
(* seconds for the answer and gives up; the server may be busy for longer  *)
(* (a purchase waits for two other servers) and serves the connections it  *)
(* finds ready in any order, so a request can take effect long after its   *)
(* sender forgot it, and after later ones.  What the terminal believes     *)
(* (log_user, log_passwd) and what the server knows (users_online) are two *)
(* copies kept in step by nothing but the answers.                         *)
(*                                                                         *)
(* A started download forks the server, users_online included: a server    *)
(* process is an index, and any of them may accept a connection.           *)
(***************************************************************************)
EXTENDS Naturals

CONSTANTS
    Process,       \* slots for server processes
    Terminals,     \* running clients
    Users,         \* user names
    Passwords,
    anonimo,       \* name and password of a terminal without a session
    Nothing,       \* no account, no session, no answer
    LdapMayFail,   \* TRUE if LDAP operations may fail
    MaxRequests    \* bound: no command starts that might send more requests

ASSUME ConstantsAssumption ==
    /\ anonimo \notin Users \cup Passwords
    /\ Nothing \notin Passwords \cup {anonimo, "ok", "is_log", "invalid", "denied"}
    /\ LdapMayFail \in BOOLEAN
    /\ MaxRequests \in Nat

VARIABLES
    running,        \* server processes alive
    users_online,   \* of each process: user -> password of the session
    directory,      \* LDAP: user -> password of the account
    requests,       \* connections the server has not served yet
    at,             \* terminal: "prompt", "waiting", "login", "gone"
    call,           \* terminal: the request it waits for, what comes then
    reply,          \* terminal: answer in its socket
    log_user,       \* terminal: who it believes to be logged in
    log_passwd,
    sent,           \* requests sent so far: names the next one
    (* History, read by no guard of the code: *)
    unsure,         \* terminals whose belief was overtaken
    apart           \* a fork or a refused change made two truths of one

server   == <<running, users_online, directory>>
terminal == <<at, call, log_user, log_passwd>>
history  == <<unsure, apart>>
vars     == <<server, requests, reply, terminal, sent, history>>

Op == {"login", "register", "passwd", "logout", "use"}

(* The header of a request says who the terminal believes to be.           *)
Request == [id : Nat, op : Op,
            log_user : Users \cup {anonimo}, log_passwd : Passwords \cup {anonimo},
            user : Users \cup {anonimo}, passwd : Passwords \cup {anonimo}]

(* A call whose answer the terminal waits for, and what it does then.      *)
Call == [id : Nat, op : Op, user : Users \cup {anonimo}, passwd : Passwords \cup {anonimo},
         then : {"prompt", "login", "exit"}]

NoCall == [op |-> "none"]

(* LDAP has an account per user and nobody is logged in.                   *)
Init ==
    /\ \E p \in Process : running = {p}
    /\ users_online = [p \in Process |-> [u \in Users |-> Nothing]]
    /\ directory \in [Users -> Passwords \cup {Nothing}]
    /\ requests = {}
    /\ at = [t \in Terminals |-> "prompt"]
    /\ call = [t \in Terminals |-> NoCall]
    /\ reply = [t \in Terminals |-> Nothing]
    /\ log_user = [t \in Terminals |-> anonimo]
    /\ log_passwd = [t \in Terminals |-> anonimo]
    /\ sent = 0
    /\ unsure = {}
    /\ apart = FALSE

-----------------------------------------------------------------------------
(***************************************************************************)
(* Terminals: sending                                                      *)
(***************************************************************************)

(* SendRequest: the header carries who the terminal believes to be.        *)
Send(t, op, user, passwd, then) ==
    /\ running # {}
    /\ requests' = requests \cup
           {[id |-> sent, op |-> op, log_user |-> log_user[t], log_passwd |-> log_passwd[t],
             user |-> user, passwd |-> passwd]}
    /\ call' = [call EXCEPT ![t] = [id |-> sent, op |-> op, user |-> user,
                                    passwd |-> passwd, then |-> then]]
    /\ at' = [at EXCEPT ![t] = "waiting"]
    /\ sent' = sent + 1
    /\ UNCHANGED <<server, reply, log_user, log_passwd, history>>

(* A command may need two requests.                                        *)
AtPrompt(t) == at[t] = "prompt" /\ sent + 2 <= MaxRequests

(* UserLogin: a session believed open is closed first.                     *)
UserLogin(t, u, w) ==
    /\ AtPrompt(t)
    /\ IF log_user[t] = anonimo
       THEN Send(t, "login", u, w, "prompt")
       ELSE Send(t, "logout", u, w, "login")

(* ... and whatever came of that, the login is sent.                       *)
LoginAfterLogout(t) ==
    /\ at[t] = "login"
    /\ Send(t, "login", call[t].user, call[t].passwd, "prompt")

UserRegistration(t, u, w) ==
    AtPrompt(t) /\ Send(t, "register", u, w, "prompt")

UserChangePasswd(t, w) ==
    AtPrompt(t) /\ Send(t, "passwd", log_user[t], w, "prompt")

UserLogout(t) ==
    AtPrompt(t) /\ Send(t, "logout", anonimo, anonimo, "prompt")

(* UserBuyMovie, UserDownload, ListUsers: all that matters here is that    *)
(* they are only for users with a session.                                 *)
UseService(t) ==
    AtPrompt(t) /\ Send(t, "use", anonimo, anonimo, "prompt")

UserExit(t) ==
    /\ AtPrompt(t)
    /\ log_user[t] # anonimo
    /\ Send(t, "logout", anonimo, anonimo, "exit")

Leave(t, place) ==
    /\ at' = [at EXCEPT ![t] = place]
    /\ UNCHANGED <<server, requests, reply, call, log_user, log_passwd, sent, history>>

(* UserExit with nobody logged in.                                         *)
ExitAnonymous(t) ==
    at[t] = "prompt" /\ log_user[t] = anonimo /\ Leave(t, "gone")

(* No server: connectTCP fails, which changes nothing but ends an exit and *)
(* the second half of a login.                                             *)
CannotConnect(t) ==
    /\ running = {}
    /\ \/ at[t] = "prompt" /\ Leave(t, "gone")
       \/ at[t] = "login" /\ Leave(t, "prompt")

(***************************************************************************)
(* Terminals: the answer                                                   *)
(***************************************************************************)

Returns(t) ==
    at' = [at EXCEPT ![t] = CASE call[t].then = "prompt" -> "prompt"
                              [] call[t].then = "login"  -> "login"
                              [] call[t].then = "exit"   -> "gone"]

Receive(t) ==
    LET op == call[t].op
        accepted == reply[t] = "ok" \/ (op = "login" /\ reply[t] = "is_log")
        denied == reply[t] = "denied" /\ op \in {"passwd", "logout", "use"}
    IN
    /\ at[t] = "waiting"
    /\ reply[t] # Nothing
    /\ log_user' =
           IF op = "login" /\ accepted THEN [log_user EXCEPT ![t] = call[t].user]
           ELSE IF denied \/ (op = "logout" /\ accepted) THEN [log_user EXCEPT ![t] = anonimo]
           ELSE log_user
    /\ log_passwd' =
           IF op \in {"login", "passwd"} /\ accepted
           THEN [log_passwd EXCEPT ![t] = call[t].passwd]
           ELSE IF op = "logout" /\ accepted THEN [log_passwd EXCEPT ![t] = anonimo]
           ELSE log_passwd
    /\ reply' = [reply EXCEPT ![t] = Nothing]
    /\ Returns(t)
    /\ UNCHANGED <<server, requests, call, sent, history>>

(* The ten seconds are over, or the connection broke: the terminal changes *)
(* nothing, and does not know what the server did or will do.              *)
TimesOut(t) ==
    /\ at[t] = "waiting"
    /\ reply' = [reply EXCEPT ![t] = Nothing]
    /\ Returns(t)
    /\ unsure' = unsure \cup {t}
    /\ UNCHANGED <<server, requests, call, log_user, log_passwd, sent, apart>>

-----------------------------------------------------------------------------
(***************************************************************************)
(* The server                                                              *)
(***************************************************************************)

Awaits(t, r) == at[t] = "waiting" /\ call[t].id = r.id

(* The answer is sent; only a terminal that still waits gets it.           *)
Answer(r, code) ==
    /\ requests' = requests \ {r}
    /\ reply' = [t \in Terminals |-> IF Awaits(t, r) THEN code ELSE reply[t]]
    /\ UNCHANGED <<terminal, sent, running>>

UserCanAcces(p, r) ==
    /\ r.log_user # anonimo
    /\ users_online[p][r.log_user] = r.log_passwd

(* History: those who rely on the session of u, other than by request r.   *)
Overtaken(u, r) ==
    {t \in Terminals :
        /\ ~Awaits(t, r)
        /\ log_user[t] = u \/ (at[t] = "waiting" /\ call[t].op = "login" /\ call[t].user = u)}

Serving(p, r, op) == p \in running /\ r \in requests /\ r.op = op

(* Mutant of ServeLogin: any password of an account will do.               *)
ServeLoginUserOnly(p, r) ==
    /\ Serving(p, r, "login")
    /\ directory[r.user] # Nothing
    /\ IF users_online[p][r.user] = Nothing
       THEN /\ users_online' = [users_online EXCEPT ![p][r.user] = r.passwd]
            /\ Answer(r, "ok")
       ELSE /\ UNCHANGED users_online
            /\ Answer(r, "is_log")
    /\ unsure' = unsure \ {t \in Terminals : Awaits(t, r)}
    /\ UNCHANGED <<directory, apart>>

(* The password is checked before the table is looked at.                  *)
ServeLogin(p, r) ==
    /\ Serving(p, r, "login")
    /\ directory[r.user] = r.passwd
    /\ IF users_online[p][r.user] = Nothing
       THEN /\ users_online' = [users_online EXCEPT ![p][r.user] = r.passwd]
            /\ Answer(r, "ok")
       ELSE /\ UNCHANGED users_online
            /\ Answer(r, "is_log")
    /\ unsure' = unsure \ {t \in Terminals : Awaits(t, r)}
    /\ UNCHANGED <<directory, apart>>

RefuseLogin(p, r) ==
    /\ Serving(p, r, "login")
    /\ directory[r.user] # r.passwd \/ LdapMayFail
    /\ Answer(r, "invalid")
    /\ UNCHANGED <<users_online, directory, history>>

ServeRegister(p, r) ==
    /\ Serving(p, r, "register")
    /\ directory[r.user] = Nothing
    /\ directory' = [directory EXCEPT ![r.user] = r.passwd]
    /\ Answer(r, "ok")
    /\ UNCHANGED <<users_online, history>>

RefuseRegister(p, r) ==
    /\ Serving(p, r, "register")
    /\ directory[r.user] # Nothing \/ LdapMayFail
    /\ Answer(r, "invalid")
    /\ UNCHANGED <<users_online, directory, history>>

(* Mutant of ServeNewPasswd: the open session keeps the old password.      *)
ServeNewPasswdInLdapOnly(p, r) ==
    /\ Serving(p, r, "passwd")
    /\ UserCanAcces(p, r)
    /\ directory' = [directory EXCEPT ![r.user] = r.passwd]
    /\ unsure' = unsure \cup Overtaken(r.user, r)
    /\ Answer(r, "ok")
    /\ UNCHANGED <<users_online, apart>>

(* Mutant of ServeNewPasswd: UserCanAcces is not asked.                    *)
ServeNewPasswdAnybody(p, r) ==
    /\ Serving(p, r, "passwd")
    /\ \/ directory' = [directory EXCEPT ![r.user] = r.passwd] /\ UNCHANGED apart
       \/ LdapMayFail /\ apart' = TRUE /\ UNCHANGED directory
    /\ users_online' = [users_online EXCEPT ![p][r.user] = r.passwd]
    /\ unsure' = unsure \cup Overtaken(r.user, r)
    /\ Answer(r, "ok")

(* UserNewPasswd does not look at what ChangePasswd returned.              *)
ServeNewPasswd(p, r) ==
    /\ Serving(p, r, "passwd")
    /\ UserCanAcces(p, r)
    /\ \/ directory' = [directory EXCEPT ![r.user] = r.passwd] /\ UNCHANGED apart
       \/ LdapMayFail /\ apart' = TRUE /\ UNCHANGED directory
    /\ users_online' = [users_online EXCEPT ![p][r.user] = r.passwd]
    /\ unsure' = unsure \cup Overtaken(r.user, r)
    /\ Answer(r, "ok")

(* Mutant of ServeLogout: the entry is blanked instead of deleted.         *)
ServeLogoutBlanks(p, r) ==
    /\ Serving(p, r, "logout")
    /\ UserCanAcces(p, r)
    /\ users_online' = [users_online EXCEPT ![p][r.log_user] = anonimo]
    /\ unsure' = unsure \cup Overtaken(r.log_user, r)
    /\ Answer(r, "ok")
    /\ UNCHANGED <<directory, apart>>

ServeLogout(p, r) ==
    /\ Serving(p, r, "logout")
    /\ UserCanAcces(p, r)
    /\ users_online' = [users_online EXCEPT ![p][r.log_user] = Nothing]
    /\ unsure' = unsure \cup Overtaken(r.log_user, r)
    /\ Answer(r, "ok")
    /\ UNCHANGED <<directory, apart>>

ServeUse(p, r) ==
    /\ Serving(p, r, "use")
    /\ UserCanAcces(p, r)
    /\ Answer(r, "ok")
    /\ UNCHANGED <<users_online, directory, history>>

(* The buy of an unknown movie is answered so whoever asks for it.         *)
RefuseUse(p, r) ==
    /\ Serving(p, r, "use")
    /\ Answer(r, "invalid")
    /\ UNCHANGED <<users_online, directory, history>>

(* __USER_IS_NOT_LOG__ or __USER_ACCESS_DENY__: the terminals do not tell  *)
(* them apart.                                                             *)
Deny(p, r) ==
    /\ \E op \in {"passwd", "logout", "use"} : Serving(p, r, op)
    /\ ~UserCanAcces(p, r)
    /\ Answer(r, "denied")
    /\ UNCHANGED <<users_online, directory, history>>

(* A download begins: from now on a second process answers requests, with  *)
(* the sessions of this moment.                                            *)
Fork(p, child) ==
    /\ p \in running /\ child \notin running
    /\ \E u \in Users : users_online[p][u] # Nothing
    /\ running' = running \cup {child}
    /\ users_online' = [users_online EXCEPT ![child] = users_online[p]]
    /\ apart' = TRUE
    /\ UNCHANGED <<directory, requests, reply, terminal, sent, unsure>>

(* A process dies with its sessions and the connections it had accepted.   *)
Crash(p) ==
    /\ p \in running
    /\ running' = running \ {p}
    /\ users_online' = [users_online EXCEPT ![p] = [u \in Users |-> Nothing]]
    /\ \E left \in SUBSET requests :
          /\ running' = {} => left = {}
          /\ requests' = left
    /\ unsure' = Terminals
    /\ UNCHANGED <<directory, reply, terminal, sent, apart>>

Restart(p) ==
    /\ running = {}
    /\ running' = {p}
    /\ UNCHANGED <<users_online, directory, requests, reply, terminal, sent, history>>

-----------------------------------------------------------------------------
TypeIn(t) ==
    \/ \E u \in Users, w \in Passwords : UserLogin(t, u, w) \/ UserRegistration(t, u, w)
    \/ \E w \in Passwords : UserChangePasswd(t, w)
    \/ UserLogout(t)
    \/ UseService(t)
    \/ UserExit(t)
    \/ ExitAnonymous(t)

GoOn(t) == LoginAfterLogout(t) \/ CannotConnect(t) \/ Receive(t) \/ TimesOut(t)

Serve(p, r) ==
    \/ ServeLogin(p, r)
    \/ RefuseLogin(p, r)
    \/ ServeRegister(p, r)
    \/ RefuseRegister(p, r)
    \/ ServeNewPasswd(p, r)
    \/ ServeLogout(p, r)
    \/ ServeUse(p, r)
    \/ RefuseUse(p, r)
    \/ Deny(p, r)

Next ==
    \/ \E t \in Terminals : TypeIn(t) \/ GoOn(t)
    \/ \E p \in Process, r \in requests : Serve(p, r)
    \/ \E p \in Process :
          \/ \E child \in Process : Fork(p, child)
          \/ Crash(p)
          \/ Restart(p)

Spec == Init /\ [][Next]_vars
-----------------------------------------------------------------------------
(***************************************************************************)
(* Properties                                                              *)
(***************************************************************************)

(* The type invariant.                                                     *)
TypeOK ==
    /\ running \subseteq Process
    /\ users_online \in [Process -> [Users -> Passwords \cup {Nothing}]]
    /\ directory \in [Users -> Passwords \cup {Nothing}]
    /\ requests \subseteq Request
    /\ at \in [Terminals -> {"prompt", "waiting", "login", "gone"}]
    /\ call \in [Terminals -> Call \cup {NoCall}]
    /\ \A t \in Terminals : at[t] \in {"waiting", "login"} => call[t] \in Call
    /\ reply \in [Terminals -> {"ok", "is_log", "invalid", "denied", Nothing}]
    /\ log_user \in [Terminals -> Users \cup {anonimo}]
    /\ log_passwd \in [Terminals -> Passwords \cup {anonimo}]
    /\ sent \in Nat
    /\ unsure \subseteq Terminals
    /\ apart \in BOOLEAN

(* The session of a user is open with the password of the account, through *)
(* any order of logins, logouts and password changes, on time or late.     *)
(* Each change must reach both places: UserNewPasswd has to replace the    *)
(* entry of users_online, not only the attribute in LDAP.                  *)
SessionHasAccountPassword ==
    ~apart =>
        \A p \in Process, u \in Users :
            users_online[p][u] # Nothing => users_online[p][u] = directory[u]

(* A terminal at its prompt that believes to be logged in is, with the     *)
(* password it remembers, unless it gave up waiting for an answer, another *)
(* terminal used the account, or the server went down meanwhile.  This is  *)
(* why USER_IS_LOG may be taken for a login.                               *)
BeliefIsRight ==
    ~apart =>
        \A t \in Terminals, p \in Process :
            p \in running /\ at[t] = "prompt" /\ log_user[t] # anonimo /\ t \notin unsure
                => users_online[p][log_user[t]] = log_passwd[t]

(* The request served by a step is a change of the password of u, from old *)
(* to new.                                                                 *)
ChangesPasswd(u, old, new) ==
    \E r \in requests \ requests' :
        /\ r.op = "passwd"
        /\ r.log_user = u /\ r.log_passwd = old
        /\ r.passwd = new

(* What a step makes of the session of u in p, if that is a new session or *)
(* has a new password: a login opens one where none was, a change comes    *)
(* from somebody who has the old password, a fork copies.                  *)
Authenticated(p, u) ==
    LET old == users_online[p][u]
        new == users_online'[p][u]
    IN
    new \notin {old, Nothing} =>
        \/ p \in running /\ old = Nothing /\ new = directory[u]
        \/ p \in running /\ old # Nothing /\ ChangesPasswd(u, old, new)
        \/ /\ p \notin running
           /\ \E q \in running : users_online[q] = users_online'[p]

(* No session without the password.  A session opens where none was, with  *)
(* the password that the directory has at that moment.  The password of an *)
(* open session is only replaced by the one in a request that carries the  *)
(* password the session has when it is served: one that was sent by        *)
(* somebody who knew an older one, or none, replaces nothing, however late *)
(* it is.  Forks, crashes and LDAP failures are included.                  *)
SessionsAreAuthenticated ==
    [][\A p \in Process, u \in Users : Authenticated(p, u)]_vars
=============================================================================
