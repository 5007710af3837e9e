------------------------------- MODULE Console -------------------------------
(***************************************************************************)
(* The console of a terminal: the line reader and the loop of Prompt.c,    *)
(* the scanner (scannerADT.c), the walk of the command tree (tree.c), the  *)
(* commands, and the functions of client.c that they call, up to the       *)
(* answer of the movie server.                                             *)
(*                                                                         *)
(* A word is a value with a length; a token is a piece <<w, a, b>> of it,  *)
(* its characters a to b, because a line that does not fit into the buffer *)
(* of fgets is cut anywhere.  A piece that is not a whole word is taken to *)
(* be no command.                                                          *)
(***************************************************************************)
EXTENDS Integers, Sequences, SequencesExt

CONSTANTS
    Words,        \* what users type besides the names of commands
    Length,       \* Length[w]: number of characters of a word or a command
    Lines,        \* the lines that are typed: sequences of whole words
    MAX_LINE,
    anonimo,      \* a word: the name of who is not logged in
    None          \* no token

VARIABLES
    pc,           \* "prompt", "reading", "calling", "relogin", "leaving", "exited", "dead"
    stdin,        \* pieces of a line that are typed and not yet read
    typed,        \* the line typed last
    node,         \* the node of the tree that is compared
    scanner,      \* its next pieces and the token given back to it
    call,         \* the command that is running, with its arguments
    user,         \* the name the prompt shows
    log_user,     \* the name requests carry
    told,         \* the case of Prompt.c whose message was printed last
    did,          \* what the server did about the last request, or "nothing"
    answered      \* its answer arrived and nothing failed at the terminal

vars == <<pc, stdin, typed, node, scanner, call, user, log_user, told, did, answered>>
input == <<stdin, typed, node, scanner>>
outcome == <<user, log_user, told, did, answered>>

-----------------------------------------------------------------------------
(* Commands in the order LoadTree inserts them.  No name begins another    *)
(* expression, so each Insert adds a node at the end of the list.          *)
LoadTree ==
    <<"login", "new", "password", "buy", "download", "listmovies",
      "listusers", "listgens", "logout", "help", "exit">>

Commands == Range(LoadTree)

Arguments ==
    [c \in Commands |->
        CASE c \in {"login", "password"} -> 2
          [] c = "new" -> 6
          [] c = "buy" -> 4
          [] c \in {"download", "listmovies"} -> 1
          [] OTHER -> 0]

(* How many arguments a command accepts: download does not look further    *)
(* than the first, help at none.                                           *)
Accepts(c, args) ==
    CASE c = "help" -> TRUE
      [] c = "download" -> Len(args) >= 1
      [] OTHER -> Len(args) = Arguments[c]

Whole(w) == <<w, 1, Length[w]>>

(* None is told from every token, and whoever types does so in words.      *)
ASSUME WordsAssumption ==
    /\ anonimo \in Words
    /\ Length \in [Words \union Commands -> Nat \ {0}]
    /\ Lines \subseteq Seq(Words \union Commands)
    /\ \A w \in Words \union Commands : None # Whole(w)

(* fgets has a buffer.                                                     *)
ASSUME BufferAssumption == MAX_LINE \in Nat \ {0}

Anonimo == Whole(anonimo)

strlen(piece) == piece[3] - piece[2] + 1

-----------------------------------------------------------------------------
(* Where each piece of a line begins, and where another one would: there   *)
(* is one space between two of them.                                       *)
Begins(pieces) ==
    LET begin[i \in 1 .. Len(pieces) + 1] ==
          IF i = 1 THEN 1 ELSE begin[i - 1] + strlen(pieces[i - 1]) + 1
    IN  begin

(* Characters of a line, its newline included.                             *)
LineLength(pieces) ==
    IF pieces = <<>> THEN 1 ELSE Begins(pieces)[Len(pieces) + 1] - 1

(* The pieces, or parts of pieces, between two places of a line.           *)
Between(pieces, first, last) ==
    LET start   == Begins(pieces)
        From(i) == pieces[i][2] + Max({0, first - start[i]})
        To(i)   == Min({pieces[i][3], pieces[i][2] + last - start[i]})
        Part(i) == IF From(i) <= To(i) THEN << <<pieces[i][1], From(i), To(i)>> >> ELSE <<>>
    IN  FlattenSeq([i \in DOMAIN pieces |-> Part(i)])

(* fgets takes at most MAX_LINE characters and ReadLine puts a newline in  *)
(* the place of the last one, which is lost when the line goes on.         *)
ReadLine(pieces) ==
    IF LineLength(pieces) <= MAX_LINE
    THEN [now |-> pieces, later |-> <<>>]
    ELSE [now   |-> Between(pieces, 1, MAX_LINE - 1),
          later |-> Between(pieces, MAX_LINE + 1, LineLength(pieces))]

-----------------------------------------------------------------------------
(* The scanner.                                                            *)
SetScannerString(pieces) == [rest |-> pieces, saved |-> None]

ReadToken(s) ==
    IF s.saved # None THEN [token |-> s.saved, scanner |-> [s EXCEPT !.saved = None]]
    ELSE IF s.rest = <<>> THEN [token |-> None, scanner |-> s]
    ELSE [token |-> Head(s.rest), scanner |-> [s EXCEPT !.rest = Tail(@)]]

(* Mutant of SaveToken: the length is not looked at.                       *)
SaveTokenAny(s, token) ==
    IF token # None /\ s.saved = None THEN [s EXCEPT !.saved = token] ELSE s

(* Mutant of SaveToken: off by one.                                        *)
SaveTokenLong(s, token) ==
    IF token # None /\ s.saved = None /\ strlen(token) > 2
    THEN [s EXCEPT !.saved = token]
    ELSE s

(* A token of one character is not kept.                                   *)
SaveToken(s, token) ==
    IF token # None /\ s.saved = None /\ strlen(token) > 1
    THEN [s EXCEPT !.saved = token]
    ELSE s

(* What a command finds by MoreTokensExist and ReadToken, until there is   *)
(* nothing more.                                                           *)
TokensLeft(s) == (IF s.saved = None THEN <<>> ELSE <<s.saved>>) \o s.rest

-----------------------------------------------------------------------------
Denials == {"USER_IS_NOT_LOG", "USER_ACCESS_DENY"}

(* The servers side of a request: which return codes its handler may send  *)
(* to a terminal that calls itself name.                                   *)
MayAnswer(c, name) ==
    LET granted ==
          [login      |-> {"LOGIN_OK", "USER_IS_LOG", "USER_ERROR", "PASSWD_ERROR"},
           new        |-> {"REG_OK", "REG_USER_ERROR", "REG_ERROR"},
           password   |-> {"CHANGE_OK"},
           buy        |-> {"BUY_MOVIE_OK", "BUY_MOVIE_USER_ERROR", "BUY_MOVIE_ERROR",
                           "BUY_MOVIE_INVALID", "BUY_MOVIE_NO_CASH", "BUY_MOVIE_SERVER_ERROR"},
           download   |-> {"DOWNLOAD_START", "DOWNLOAD_ERROR"},
           listmovies |-> {"LIST_OK", "LIST_ERROR"},
           listgens   |-> {"LIST_OK", "LIST_ERROR"},
           listusers  |-> {"LIST_USERS_OK", "LIST_USERS_ERROR"},
           logout     |-> {"LOG_OUT_OK", "LOG_OUT_ERROR"}]
        masked == IF c = "buy" THEN {"BUY_MOVIE_INVALID"} ELSE {}
    IN  CASE c \in {"login", "new", "listmovies", "listgens"} -> granted[c]
          [] name = Anonimo -> {"USER_IS_NOT_LOG"} \union masked
          [] OTHER -> {"USER_ACCESS_DENY"} \union granted[c]

(* What is printed for a code: the switch of each function of client.c     *)
(* followed by the switch of its command in Prompt.c.  Some statuses have  *)
(* the number of another one: a registration without an answer is          *)
(* LOGIN_CONNECT_ERROR, which is -3 like REG_USER_EXISTS; BUY_USER_ERROR   *)
(* is not the BUY_MOVIE_USER_ERROR that Prompt.c looks for.                *)
Says(c, code, message) ==
    \/ /\ c = "login"
       /\ \/ code \in {"LOGIN_OK", "USER_IS_LOG"} /\ message = "USER_LOGIN_OK"
          \/ code = "USER_ERROR" /\ message = "LOGIN_USER_INVALID"
          \/ code = "PASSWD_ERROR" /\ message = "LOGIN_PASS_INVALID"
    \/ /\ c = "new"
       /\ \/ code = "REG_OK" /\ message = "REG_OK"
          \/ code \in {"REG_ERROR", "CONNECT_ERROR"} /\ message = "REG_ERROR"
          \/ code \in {"REG_USER_ERROR", "TIMEOUT_ERROR", "ZERO"} /\ message = "REG_USER_EXISTS"
    \/ /\ c = "password"
       /\ \/ code = "CHANGE_OK" /\ message = "CHANGE_OK"
          \/ code = "USER_IS_NOT_LOG" /\ message = "CHANGE_LOG_ERROR"
          \/ code = "USER_ACCESS_DENY" /\ message = "CHANGE_ACCESS_DENY"
          \/ code = "CONNECT_ERROR" /\ message = "CHANGE_ERROR"
    \/ /\ c = "buy"
       /\ \/ code = "BUY_MOVIE_OK" /\ message = "BUY_OK"
          \/ code = "USER_IS_NOT_LOG" /\ message = "BUY_USER_NOT_LOG"
          \/ code = "USER_ACCESS_DENY" /\ message = "BUY_ACCES_DENY"
          \/ code = "BUY_MOVIE_INVALID" /\ message = "BUY_INVALID_MOVIE"
          \/ code \in {"BUY_MOVIE_NO_CASH", "BUY_MOVIE_SERVER_ERROR"} /\ message = code
          \/ code \in {"BUY_MOVIE_USER_ERROR", "BUY_MOVIE_ERROR"} /\ message = "default"
    \/ /\ c = "download"
       /\ \/ code = "DOWNLOAD_START" /\ message = "DOWNLOAD_OK"
          \/ code = "DOWNLOAD_ERROR" /\ message = "DOWNLOAD_ERROR"
          \/ code \in Denials /\ message = "DOWNLOAD_USER_NOT_LOG"
    \/ /\ c \in {"listmovies", "listgens"}
       /\ \/ code = "LIST_OK" /\ message = "LIST_OK"
          \/ code \in {"LIST_ERROR", "CONNECT_ERROR", "ZERO"} /\ message = "LIST_ERROR"
          \/ c = "listgens" /\ code = "TIMEOUT_ERROR" /\ message = "LIST_ERROR"
    \/ /\ c = "listusers"
       /\ \/ code = "LIST_USERS_OK" /\ message = "LIST_USERS_OK"
          \/ code \in Denials /\ message = "LIST_USERS_NOT_LOG"
          \/ /\ code \in {"LIST_USERS_ERROR", "CONNECT_ERROR", "TIMEOUT_ERROR", "ZERO"}
             /\ message = "LIST_USERS_ERROR"
    \/ /\ c = "logout"
       /\ \/ code = "LOG_OUT_OK" /\ message = "LOG_OUT_OK"
          \/ code = "LOG_OUT_ERROR" /\ message = "LOG_OUT_ERROR"
          \/ code = "USER_IS_NOT_LOG" /\ message = "LOG_OUT_USER_NOT_LOG"
          \/ code = "USER_ACCESS_DENY" /\ message = "LOG_OUT_ACCES_DENY"
    \/ /\ message = "default"
       /\ \/ code = "TIMEOUT_ERROR" /\ c \notin {"new", "listgens", "listusers"}
          \/ code = "ZERO" /\ c \notin {"new", "listmovies", "listgens", "listusers"}
          \/ code = "CONNECT_ERROR" /\ c \in {"login", "buy", "download", "logout"}

Messages ==
    {"USER_LOGIN_OK", "LOGIN_USER_INVALID", "LOGIN_PASS_INVALID", "REG_OK", "REG_ERROR",
     "REG_USER_EXISTS", "CHANGE_OK", "CHANGE_LOG_ERROR", "CHANGE_ACCESS_DENY", "CHANGE_ERROR",
     "BUY_OK", "BUY_USER_NOT_LOG", "BUY_ACCES_DENY", "BUY_INVALID_MOVIE", "BUY_MOVIE_NO_CASH",
     "BUY_MOVIE_SERVER_ERROR", "DOWNLOAD_OK", "DOWNLOAD_ERROR", "DOWNLOAD_USER_NOT_LOG",
     "LIST_OK", "LIST_ERROR", "LIST_USERS_OK", "LIST_USERS_NOT_LOG", "LIST_USERS_ERROR",
     "LOG_OUT_OK", "LOG_OUT_ERROR", "LOG_OUT_USER_NOT_LOG", "LOG_OUT_ACCES_DENY", "default"}

(* Mutant of NextLogUser: the name is kept before the answer is looked at. *)
NextLogUserEarly(c, code) ==
    IF c = "login" THEN call.args[1]
    ELSE IF code \in Denials \union {"LOG_OUT_OK"} THEN Anonimo
    ELSE log_user

(* Who requests are sent for once the code of one was read, in client.c,   *)
(* and whom the prompt shows then, in Prompt.c.                            *)
NextLogUser(c, code) ==
    IF c = "login" /\ code \in {"LOGIN_OK", "USER_IS_LOG"} THEN call.args[1]
    ELSE IF code \in Denials \union {"LOG_OUT_OK"} THEN Anonimo
    ELSE log_user

(* Mutant of LoggedOut: the message of buy does not reset the prompt.      *)
LoggedOutButBuy ==
    {"CHANGE_LOG_ERROR", "CHANGE_ACCESS_DENY", "LIST_USERS_NOT_LOG", "LOG_OUT_ACCES_DENY",
     "LOG_OUT_USER_NOT_LOG", "LOG_OUT_OK", "DOWNLOAD_USER_NOT_LOG", "BUY_USER_NOT_LOG"}

LoggedOut ==
    {"CHANGE_LOG_ERROR", "CHANGE_ACCESS_DENY", "LIST_USERS_NOT_LOG", "LOG_OUT_ACCES_DENY",
     "LOG_OUT_USER_NOT_LOG", "LOG_OUT_OK", "DOWNLOAD_USER_NOT_LOG", "BUY_ACCES_DENY",
     "BUY_USER_NOT_LOG"}

NextUser(message) ==
    IF message = "USER_LOGIN_OK" THEN call.args[1]
    ELSE IF message \in LoggedOut THEN Anonimo
    ELSE user

-----------------------------------------------------------------------------
Init ==
    /\ pc = "prompt"
    /\ stdin = <<>>
    /\ typed = <<>>
    /\ node = 1
    /\ scanner = SetScannerString(<<>>)
    /\ call = [op |-> "help", args |-> <<>>]
    /\ user = Anonimo
    /\ log_user = Anonimo
    /\ told = "nothing"
    /\ did = "nothing"
    /\ answered = FALSE

(* Prompt: a line is read, or what the buffer left of the line before.  An *)
(* empty line is passed over; at the end of the input ReadLine answers     *)
(* NULL, which strcmp does not survive.                                    *)
Prompt(pieces) ==
    LET line == ReadLine(pieces) IN
    /\ pc = "prompt"
    /\ stdin' = line.later
    /\ scanner' = SetScannerString(line.now)
    /\ node' = 1
    /\ pc' = IF line.now = <<>> THEN "prompt" ELSE "reading"
    /\ UNCHANGED <<call, outcome>>

TypeLine == /\ stdin = <<>>
            /\ \E l \in Lines : typed' = [i \in DOMAIN l |-> Whole(l[i])] /\ Prompt(typed')

ReadOn == stdin # <<>> /\ Prompt(stdin) /\ UNCHANGED typed

EndOfInput ==
    /\ pc = "prompt" /\ stdin = <<>>
    /\ pc' = "dead"
    /\ UNCHANGED <<input, call, outcome>>

(* Mutant of NextNode: it goes back to the first node.                     *)
NextNodeFirst ==
    LET read == ReadToken(scanner) IN
    /\ pc = "reading"
    /\ read.token \notin {None, Whole(LoadTree[node])}
    /\ node < Len(LoadTree)
    /\ node' = 1
    /\ scanner' = SaveToken(read.scanner, read.token)
    /\ UNCHANGED <<pc, stdin, typed, call, outcome>>

(* Read of tree.c at a node of the list of commands that is not the one    *)
(* asked for.  The token is given back to the scanner for the next node.   *)
NextNode ==
    LET read == ReadToken(scanner) IN
    /\ pc = "reading"
    /\ read.token \notin {None, Whole(LoadTree[node])}
    /\ node < Len(LoadTree)
    /\ node' = node + 1
    /\ scanner' = SaveToken(read.scanner, read.token)
    /\ UNCHANGED <<pc, stdin, typed, call, outcome>>

Refused ==
    /\ told' = "Comando invalido"
    /\ did' = "nothing"
    /\ answered' = FALSE
    /\ pc' = "prompt"
    /\ UNCHANGED <<input, call, user, log_user>>

NoSuchCommand ==
    LET read == ReadToken(scanner) IN
    /\ pc = "reading"
    /\ \/ read.token = None
       \/ node = Len(LoadTree) /\ read.token # Whole(LoadTree[node])
    /\ Refused

(* The arguments that the command finds: Read of tree.c takes one token    *)
(* more, at the node below the name, and gives it back.                    *)
Found ==
    LET read  == ReadToken(scanner)
        below == ReadToken(read.scanner)
    IN  TokensLeft(SaveToken(below.scanner, below.token))

NameFound == pc = "reading" /\ ReadToken(scanner).token = Whole(LoadTree[node])

WrongArguments == NameFound /\ ~Accepts(LoadTree[node], Found) /\ Refused

(* What a command does before it sends anything: help and repetitions that *)
(* differ end here.                                                        *)
Local(c, args) ==
    IF c = "help" THEN "help"
    ELSE IF c = "password" /\ args[1] # args[2] THEN "NEW_PASSWD_INVALID"
    ELSE IF c = "new" /\ args[2] # args[3] THEN "REG_PASSWD_ERROR"
    ELSE "request"

AnswerLocally ==
    LET c == LoadTree[node] IN
    /\ NameFound /\ Accepts(c, Found) /\ Local(c, Found) # "request"
    /\ call' = [op |-> c, args |-> Found]
    /\ told' = Local(c, Found)
    /\ did' = "nothing"
    /\ answered' = TRUE
    /\ pc' = "prompt"
    /\ UNCHANGED <<input, user, log_user>>

(* UserLogin and UserExit log out first who is logged in.                  *)
StartRequest ==
    LET c == LoadTree[node] IN
    /\ NameFound /\ Accepts(c, Found) /\ Local(c, Found) = "request"
    /\ call' = [op |-> c, args |-> SubSeq(Found, 1, Arguments[c])]
    /\ \/ c = "exit" /\ pc' = (IF log_user = Anonimo THEN "exited" ELSE "leaving")
       \/ c = "login" /\ pc' = (IF log_user = Anonimo THEN "calling" ELSE "relogin")
       \/ c \notin {"exit", "login"} /\ pc' = "calling"
    /\ UNCHANGED <<input, outcome>>

(* SendRequest and the functions like it: <<what was done, the code that   *)
(* is returned>>.  The connection is refused; the answer does not come in  *)
(* time; the connection ends before it has come, and receiveTCP makes      *)
(* zeros of it, which are a code that no switch looks for; or the code is  *)
(* read.  (A list of which only its header comes is announced like any     *)
(* other; what is in it then is in module Front.)                          *)
Exchanges(c) ==
    LET done == MayAnswer(c, log_user)
    IN  {<<"nothing", "CONNECT_ERROR">>}
          \union (({"nothing"} \union done) \X {"TIMEOUT_ERROR", "ZERO"})
          \union {<<what, what>> : what \in done}

(* Mutant of Return: a registration starts from REG_OK and has no default. *)
ReturnDefaultOK(what, code, message) ==
    /\ did' = what
    /\ told' = IF call.op = "new" /\ code = "TIMEOUT_ERROR" THEN "REG_OK" ELSE message
    /\ log_user' = NextLogUser(call.op, code)
    /\ user' = NextUser(message)
    /\ pc' = "prompt"
    /\ UNCHANGED <<input, call>>

Return(what, code, message) ==
    /\ did' = what
    /\ told' = message
    /\ log_user' = NextLogUser(call.op, code)
    /\ user' = NextUser(message)
    /\ pc' = "prompt"
    /\ UNCHANGED <<input, call>>

CommandReturns ==
    /\ pc = "calling"
    /\ \E e \in Exchanges(call.op), message \in Messages :
          /\ Says(call.op, e[2], message)
          /\ answered' = (e[1] = e[2])
          /\ Return(e[1], e[2], message)

(* The ticket is good, but the file cannot be created or the signal that   *)
(* starts the download is not sent.                                        *)
CannotStartDownload ==
    /\ pc = "calling" /\ call.op = "download"
    /\ "DOWNLOAD_START" \in MayAnswer(call.op, log_user)
    /\ answered' = FALSE
    /\ Return("DOWNLOAD_START", "DOWNLOAD_START", "DOWNLOAD_ERROR")

(* The UserLogout inside UserLogin and UserExit: nobody looks at its       *)
(* status, and the prompt is not told.                                     *)
LogoutReturns ==
    /\ pc \in {"relogin", "leaving"}
    /\ \E e \in Exchanges("logout") : log_user' = NextLogUser("logout", e[2])
    /\ pc' = IF pc = "relogin" THEN "calling" ELSE "exited"
    /\ UNCHANGED <<input, call, user, told, did, answered>>

Terminal ==
    \/ ReadOn \/ NextNode \/ NoSuchCommand \/ WrongArguments \/ AnswerLocally
    \/ StartRequest \/ CommandReturns \/ CannotStartDownload \/ LogoutReturns

Next == TypeLine \/ EndOfInput \/ Terminal

(* Connections of the terminal have a timeout, so it never waits for ever; *)
(* nothing is assumed of who types.                                        *)
Spec == Init /\ [][Next]_vars /\ WF_vars(Terminal)

-----------------------------------------------------------------------------
Pieces == {p \in (Words \union Commands) \X Nat \X Nat :
             1 <= p[2] /\ p[2] <= p[3] /\ p[3] <= Length[p[1]]}

(* Every variable has a value of its kind; a token that was given back has *)
(* more than one character.                                                *)
TypeOK ==
    /\ pc \in {"prompt", "reading", "calling", "relogin", "leaving", "exited", "dead"}
    /\ Range(stdin) \union Range(typed) \union Range(scanner.rest) \subseteq Pieces
    /\ node \in DOMAIN LoadTree
    /\ scanner.saved = None \/ (scanner.saved \in Pieces /\ strlen(scanner.saved) > 1)
    /\ call.op \in Commands /\ Range(call.args) \subseteq Pieces
    /\ {user, log_user} \subseteq Pieces
    /\ answered \in BOOLEAN

Plain(pieces) == LineLength(pieces) <= MAX_LINE /\ \A p \in Range(pieces) : strlen(p) > 1

Means(pieces, c, args) ==
    pieces # <<>> /\ Head(pieces) = Whole(c) /\ Tail(pieces) = args /\ Accepts(c, args)

(* A line that fits into the buffer and has no word of one letter is       *)
(* understood as it was typed: what runs is its first word with the words  *)
(* after it, in their order (download takes only the first), and it is     *)
(* refused only if it is no command.  Prompt.c, tree.c and scannerADT.c    *)
(* hand the tokens to one another through SaveToken.                       *)
RunsWhatWasTyped ==
    /\ pc \in {"calling", "relogin", "leaving"} /\ Plain(typed) =>
           \E n \in 0 .. Len(typed) - 1 :
              /\ call.args = SubSeq(typed, 2, 1 + n)
              /\ Means(IF call.op = "download" THEN SubSeq(typed, 1, 2) ELSE typed,
                       call.op, call.args)
    /\ pc = "prompt" /\ told = "Comando invalido" /\ Plain(typed) =>
           ~ \E c \in Commands : Means(typed, c, Tail(typed))

(* The prompt never shows somebody else than the requests speak for.  What *)
(* it may do is go on to show a name that was logged out, by a login under *)
(* another name that then failed (UserLogin, Login_Command).               *)
PromptNamesSession == user = log_user \/ log_user = Anonimo

Successes == {"USER_LOGIN_OK", "REG_OK", "CHANGE_OK", "BUY_OK", "DOWNLOAD_OK", "LIST_OK",
              "LIST_USERS_OK", "LOG_OUT_OK"}
Done == {"LOGIN_OK", "USER_IS_LOG", "REG_OK", "CHANGE_OK", "BUY_MOVIE_OK", "DOWNLOAD_START",
         "LIST_OK", "LIST_USERS_OK", "LOG_OUT_OK"}

(* A terminal says that something was done only if the server did it, and  *)
(* says it of everything the server did and the terminal heard of: the     *)
(* numbers of the statuses of client.h and the cases of Prompt.c never     *)
(* turn one of the two into the other.                                     *)
WhatIsSaidIsTrue ==
    /\ told \in Successes => did \in Done
    /\ answered /\ did \in Done => told \in Successes

(* Who is asked to log in again, in whatever command, is nobody for the    *)
(* client and at the prompt from then on (UserX of client.c and X_Command  *)
(* of Prompt.c each reset a name of their own).                            *)
DeniedIsLoggedOut ==
    answered /\ did \in Denials => user = Anonimo /\ log_user = Anonimo

(* Each line that is typed leads back to the prompt, or out of it.         *)
LinesAreAnswered == pc # "prompt" ~> (pc = "prompt" /\ stdin = <<>>) \/ pc \in {"exited", "dead"}
=============================================================================
