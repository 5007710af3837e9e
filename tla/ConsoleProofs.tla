---------------------------- MODULE ConsoleProofs ----------------------------
(* Theorems about Console, for every vocabulary, every set of lines and    *)
(* every length of the buffer.                                             *)
EXTENDS Console, WellFoundedInduction, TLAPS

(* What client.c and Prompt.c together make of a code.                     *)
LEMMA Switches ==
    ASSUME NEW c, NEW code, NEW m, Says(c, code, m)
    PROVE  /\ m = "USER_LOGIN_OK" <=> c = "login" /\ code \in {"LOGIN_OK", "USER_IS_LOG"}
           /\ m \in LoggedOut <=> code \in Denials \union {"LOG_OUT_OK"}
           /\ m \in Successes <=> code \in Done
           /\ m # "Comando invalido"
  <1>1. m = "USER_LOGIN_OK" => c = "login" /\ code \in {"LOGIN_OK", "USER_IS_LOG"}
    BY DEF Says, Denials
  <1>2. c = "login" /\ code \in {"LOGIN_OK", "USER_IS_LOG"} => m = "USER_LOGIN_OK"
    BY DEF Says, Denials
  <1>3. m \in LoggedOut => code \in Denials \union {"LOG_OUT_OK"}
    BY DEF Says, Denials, LoggedOut
  <1>4. code \in Denials \union {"LOG_OUT_OK"} => m \in LoggedOut
    BY DEF Says, Denials, LoggedOut
  <1>5. m \in Successes => code \in Done
    BY DEF Says, Denials, Successes, Done
  <1>6. code \in Done => m \in Successes
    BY DEF Says, Denials, Successes, Done
  <1>7. m # "Comando invalido"
    BY DEF Says, Denials
  <1>. QED BY <1>1, <1>2, <1>3, <1>4, <1>5, <1>6, <1>7

Truthful == PromptNamesSession /\ WhatIsSaidIsTrue /\ DeniedIsLoggedOut

LEMMA InitTruthful == Init => Truthful
  BY DEF Init, Truthful, PromptNamesSession, WhatIsSaidIsTrue, DeniedIsLoggedOut, Successes,
         Done, Denials

(* Nothing is said or done, and nobody logs in or out, while a line is     *)
(* read and a command starts.                                              *)
LEMMA QuietSteps ==
    ASSUME TypeLine \/ EndOfInput \/ ReadOn \/ NextNode \/ StartRequest \/ UNCHANGED vars
    PROVE  UNCHANGED outcome
  BY DEF TypeLine, EndOfInput, ReadOn, NextNode, StartRequest, Prompt, outcome, vars

LEMMA LocalSteps ==
    ASSUME NoSuchCommand \/ WrongArguments \/ AnswerLocally
    PROVE  /\ UNCHANGED <<user, log_user>>
           /\ did' = "nothing" /\ told' \notin Successes
  <1>1. CASE NoSuchCommand \/ WrongArguments
    BY <1>1 DEF NoSuchCommand, WrongArguments, Refused, Successes
  <1>2. CASE AnswerLocally
    <2>1. told' \in {"help", "NEW_PASSWD_INVALID", "REG_PASSWD_ERROR"}
      BY <1>2 DEF AnswerLocally, Local
    <2>. QED BY <1>2, <2>1 DEF AnswerLocally, Successes
  <1>. QED BY <1>1, <1>2

LEMMA CommandReturnsTruthful ==
    ASSUME Truthful, CommandReturns
    PROVE  Truthful'
  <1>1. PICK e \in Exchanges(call.op), message \in Messages :
             /\ Says(call.op, e[2], message)
             /\ answered' = (e[1] = e[2])
             /\ Return(e[1], e[2], message)
    BY DEF CommandReturns
  <1>. DEFINE c == call.op
              code == e[2]
  <1>2. /\ did' = e[1] /\ told' = message
        /\ log_user' = NextLogUser(c, code) /\ user' = NextUser(message)
    BY <1>1 DEF Return
  <1>3. e[1] = e[2] \/ e[2] \in {"CONNECT_ERROR", "TIMEOUT_ERROR", "ZERO"}
    BY DEF Exchanges
  <1>4. /\ message = "USER_LOGIN_OK" <=> c = "login" /\ code \in {"LOGIN_OK", "USER_IS_LOG"}
        /\ message \in LoggedOut <=> code \in Denials \union {"LOG_OUT_OK"}
        /\ message \in Successes <=> code \in Done
    <2>1. Says(c, code, message) BY <1>1
    <2>. HIDE DEF c, code
    <2>. QED BY <2>1, Switches, Zenon
  <1>5. CASE message = "USER_LOGIN_OK"
    <2>1. log_user' = call.args[1] /\ user' = call.args[1]
      BY <1>2, <1>4, <1>5 DEF NextLogUser, NextUser
    <2>2. code \notin Denials /\ code \in Done /\ message \in Successes /\ e[1] = e[2]
      BY <1>3, <1>4, <1>5 DEF Denials, Done, Successes
    <2>. QED BY <1>1, <1>2, <2>1, <2>2
             DEF Truthful, PromptNamesSession, WhatIsSaidIsTrue, DeniedIsLoggedOut
  <1>6. CASE message \in LoggedOut
    <2>1. log_user' = Anonimo /\ user' = Anonimo
      BY <1>2, <1>4, <1>6 DEF NextLogUser, NextUser, LoggedOut, Denials
    <2>2. e[1] = e[2]
      BY <1>3, <1>4, <1>6 DEF Denials
    <2>. QED BY <1>1, <1>2, <1>4, <2>1, <2>2
             DEF Truthful, PromptNamesSession, WhatIsSaidIsTrue, DeniedIsLoggedOut, Anonimo, Whole
  <1>7. CASE message \notin LoggedOut \union {"USER_LOGIN_OK"}
    <2>1. log_user' = log_user /\ user' = user
      BY <1>2, <1>4, <1>7 DEF NextLogUser, NextUser
    <2>2. ~(answered' /\ did' \in Denials)
      BY <1>1, <1>2, <1>4, <1>7
    <2>3. e[1] = e[2] \/ (message \notin Successes /\ ~answered')
      BY <1>1, <1>3, <1>4 DEF Done
    <2>. QED BY <1>1, <1>2, <1>4, <2>1, <2>2, <2>3
             DEF Truthful, PromptNamesSession, WhatIsSaidIsTrue, DeniedIsLoggedOut, Anonimo, Whole
  <1>. QED BY <1>5, <1>6, <1>7

(* A step of the terminal keeps prompt, messages and name in agreement.    *)
LEMMA NextTruthful ==
    ASSUME Truthful, [Next]_vars
    PROVE  Truthful'
  <1>. USE DEF Truthful, PromptNamesSession, WhatIsSaidIsTrue, DeniedIsLoggedOut, Anonimo, Whole
  <1>1. CASE TypeLine \/ EndOfInput \/ ReadOn \/ NextNode \/ StartRequest \/ UNCHANGED vars
    BY <1>1, QuietSteps DEF outcome
  <1>2. CASE NoSuchCommand \/ WrongArguments \/ AnswerLocally
    BY <1>2, LocalSteps DEF Done, Denials
  <1>3. CASE CommandReturns
    BY <1>3, CommandReturnsTruthful
  <1>4. CASE CannotStartDownload
    <2>1. log_user' = log_user /\ user' = user
      BY <1>4 DEF CannotStartDownload, Return, NextLogUser, NextUser, LoggedOut, Denials
    <2>2. ~answered' /\ told' \notin Successes
      BY <1>4 DEF CannotStartDownload, Return, Successes
    <2>. QED BY <2>1, <2>2
  <1>5. CASE LogoutReturns
    <2>1. log_user' = log_user \/ log_user' = Anonimo
      BY <1>5 DEF LogoutReturns, NextLogUser
    <2>2. UNCHANGED <<user, told, did, answered>>
      BY <1>5 DEF LogoutReturns
    <2>. QED BY <2>1, <2>2
  <1>. QED BY <1>1, <1>2, <1>3, <1>4, <1>5 DEF Next, Terminal

LEMMA AlwaysTruthful == Spec => []Truthful
  BY InitTruthful, NextTruthful, PTL DEF Spec

(* The prompt never shows somebody else than the requests speak for.       *)
THEOREM PromptAgrees == Spec => []PromptNamesSession
  <1>1. Truthful => PromptNamesSession
    BY DEF Truthful
  <1>. QED BY <1>1, AlwaysTruthful, PTL

(* Successes are announced when the server did what was asked, and then    *)
(* only.                                                                   *)
THEOREM ConsoleTellsTheTruth == Spec => []WhatIsSaidIsTrue
  <1>1. Truthful => WhatIsSaidIsTrue
    BY DEF Truthful
  <1>. QED BY <1>1, AlwaysTruthful, PTL

(* Who was denied is logged out, for the client and at the prompt.         *)
THEOREM DeniedAreLoggedOut == Spec => []DeniedIsLoggedOut
  <1>1. Truthful => DeniedIsLoggedOut
    BY DEF Truthful
  <1>. QED BY <1>1, AlwaysTruthful, PTL
-----------------------------------------------------------------------------
(* The way of a line that fits into the buffer and has no word of one      *)
(* letter, from ReadLine to the command: the scanner has all its tokens,   *)
(* the first of them perhaps given back, and the first is not the name at  *)
(* a node that was passed.                                                 *)
Scanned ==
    /\ typed # <<>>
    /\ node \in DOMAIN LoadTree
    /\ \/ scanner = [rest |-> typed, saved |-> None]
       \/ scanner = [rest |-> Tail(typed), saved |-> Head(typed)]
    /\ \A k \in 1 .. node - 1 : Head(typed) # Whole(LoadTree[k])

LineInv ==
    /\ typed \in Seq({Whole(w) : w \in Words \union Commands})
    /\ stdin # <<>> => ~Plain(typed)
    /\ pc = "reading" /\ Plain(typed) => Scanned
    /\ RunsWhatWasTyped

LEMMA InitLineInv == Init => LineInv
  BY DEF Init, LineInv, RunsWhatWasTyped

(* What tree.c reads is the first token that was typed, and what is left   *)
(* of a line is all the rest of it.                                        *)
LEMMA ScannedIsRead ==
    ASSUME typed \in Seq({Whole(w) : w \in Words \union Commands}), Plain(typed), Scanned
    PROVE  /\ ReadToken(scanner) = [token   |-> Head(typed),
                                    scanner |-> [rest |-> Tail(typed), saved |-> None]]
           /\ Head(typed) # None /\ strlen(Head(typed)) > 1
           /\ Found = Tail(typed)
  <1>. DEFINE left == [rest |-> Tail(typed), saved |-> None]
              Tokens == {Whole(w) : w \in Words \union Commands}
  <1>1. /\ typed \in Seq(Tokens) /\ typed # <<>>
        /\ Head(typed) = typed[1] /\ 1 \in DOMAIN typed
        /\ \A i \in DOMAIN typed : typed[i] \in Tokens
    BY DEF Scanned
  <1>2. \A i \in DOMAIN typed : typed[i] # None
    BY <1>1, WordsAssumption
  <1>3. \A i \in DOMAIN typed : strlen(typed[i]) > 1
    BY DEF Plain, Range
  <1>4. ReadToken(scanner) = [token |-> Head(typed), scanner |-> left]
    <2>1. CASE scanner = [rest |-> typed, saved |-> None]
      BY <2>1, <1>1 DEF ReadToken
    <2>2. CASE scanner = [rest |-> Tail(typed), saved |-> Head(typed)]
      BY <2>2, <1>1, <1>2 DEF ReadToken
    <2>. QED BY <2>1, <2>2 DEF Scanned
  <1>5. Found = Tail(typed)
    <2>. DEFINE below == ReadToken(left)
    <2>1. Found = TokensLeft(SaveToken(below.scanner, below.token))
      BY <1>4 DEF Found
    <2>2. CASE Tail(typed) = <<>>
      <3>1. below = [token |-> None, scanner |-> left]
        BY <2>2 DEF ReadToken
      <3>2. TokensLeft(left) = <<>>
        BY <2>2 DEF TokensLeft
      <3>3. SaveToken(below.scanner, below.token) = left
        <4>. HIDE DEF below, left
        <4>. QED BY <3>1 DEF SaveToken
      <3>. QED BY <2>1, <2>2, <3>2, <3>3
    <2>3. CASE Tail(typed) # <<>>
      <3>. DEFINE next == Head(Tail(typed))
      <3>1. next = typed[2] /\ 2 \in DOMAIN typed
        BY <1>1, <2>3
      <3>2. next # None /\ strlen(next) > 1
        BY <1>2, <1>3, <3>1
      <3>3. below = [token |-> next, scanner |-> [rest |-> Tail(Tail(typed)), saved |-> None]]
        BY <2>3 DEF ReadToken
      <3>4. SaveToken(below.scanner, below.token)
              = [rest |-> Tail(Tail(typed)), saved |-> next]
        <4>. HIDE DEF next, below
        <4>. QED BY <3>2, <3>3 DEF SaveToken
      <3>5. TokensLeft([rest |-> Tail(Tail(typed)), saved |-> next]) = <<next>> \o Tail(Tail(typed))
        <4>. HIDE DEF next
        <4>. QED BY <3>2 DEF TokensLeft
      <3>6. Tail(typed) \in Seq(Tokens)
        BY <1>1
      <3>7. \A q \in Seq(Tokens) : q # <<>> => <<Head(q)>> \o Tail(q) = q
        <4>. HIDE DEF Tokens
        <4>. QED OBVIOUS
      <3>. QED BY <2>1, <2>3, <3>4, <3>5, <3>6, <3>7
    <2>. QED BY <2>2, <2>3
  <1>. QED BY <1>1, <1>2, <1>3, <1>4, <1>5

(* A line comes whole to the scanner, or it was too long.                  *)
LEMMA PromptKeepsLine ==
    ASSUME LineInv, TypeLine \/ ReadOn
    PROVE  LineInv'
  <1>1. CASE TypeLine
    <2>1. PICK l \in Lines : typed' = [i \in DOMAIN l |-> Whole(l[i])] /\ Prompt(typed')
      BY <1>1 DEF TypeLine
    <2>2. typed' \in Seq({Whole(w) : w \in Words \union Commands})
      <3>1. l \in Seq(Words \union Commands)
        BY WordsAssumption
      <3>. HIDE DEF Whole
      <3>. QED BY <2>1, <3>1
    <2>3. Plain(typed)' => ReadLine(typed') = [now |-> typed', later |-> <<>>]
      BY DEF Plain, ReadLine
    <2>4. stdin' # <<>> => ~Plain(typed)'
      BY <2>1, <2>3 DEF Prompt
    <2>5. pc' = "reading" /\ Plain(typed)' => Scanned'
      <3>. SUFFICES ASSUME pc' = "reading", Plain(typed)'
                    PROVE  Scanned'
        OBVIOUS
      <3>1. typed' # <<>> /\ scanner' = [rest |-> typed', saved |-> None] /\ node' = 1
        BY <2>1, <2>3 DEF Prompt, SetScannerString
      <3>. QED BY <3>1 DEF Scanned, LoadTree
    <2>6. pc' \in {"prompt", "reading"}
      BY <2>1 DEF Prompt
    <2>7. pc' = "prompt" /\ Plain(typed)' => typed' = <<>>
      BY <2>1, <2>3 DEF Prompt
    <2>8. RunsWhatWasTyped'
      BY <2>6, <2>7 DEF RunsWhatWasTyped, Means
    <2>. QED BY <2>2, <2>4, <2>5, <2>8 DEF LineInv
  <1>2. CASE ReadOn
    <2>1. ~Plain(typed) /\ typed' = typed
      BY <1>2 DEF ReadOn, LineInv
    <2>2. ~Plain(typed)'
      BY <2>1 DEF Plain
    <2>. QED BY <2>1, <2>2 DEF LineInv, RunsWhatWasTyped
  <1>. QED BY <1>1, <1>2

LEMMA NextNodeKeepsLine ==
    ASSUME LineInv, NextNode
    PROVE  LineInv'
  <1>1. /\ pc = "reading" /\ pc' = pc
        /\ UNCHANGED <<stdin, typed>>
    BY DEF NextNode
  <1>2. Plain(typed)' <=> Plain(typed)
    BY <1>1 DEF Plain
  <1>3. Plain(typed) => Scanned'
    <2>. SUFFICES ASSUME Plain(typed)
                  PROVE  Scanned'
      OBVIOUS
    <2>1. typed \in Seq({Whole(w) : w \in Words \union Commands}) /\ Scanned
      BY <1>1 DEF LineInv
    <2>2. /\ ReadToken(scanner) = [token   |-> Head(typed),
                                   scanner |-> [rest |-> Tail(typed), saved |-> None]]
          /\ Head(typed) # None /\ strlen(Head(typed)) > 1
      BY <2>1, ScannedIsRead
    <2>3. /\ Head(typed) # Whole(LoadTree[node])
          /\ node < Len(LoadTree) /\ node' = node + 1
          /\ scanner' = SaveToken([rest |-> Tail(typed), saved |-> None], Head(typed))
      BY <2>2 DEF NextNode
    <2>4. scanner' = [rest |-> Tail(typed), saved |-> Head(typed)]
      BY <2>2, <2>3 DEF SaveToken
    <2>5. node' \in DOMAIN LoadTree
      BY <2>1, <2>3 DEF Scanned, LoadTree
    <2>6. \A k \in 1 .. node' - 1 : Head(typed) # Whole(LoadTree[k])
      <3>1. node \in Int
        BY <2>1 DEF Scanned, LoadTree
      <3>. QED BY <2>1, <2>3, <3>1 DEF Scanned
    <2>. QED BY <1>1, <2>1, <2>4, <2>5, <2>6 DEF Scanned
  <1>. QED BY <1>1, <1>2, <1>3 DEF LineInv, RunsWhatWasTyped

(* What is refused is no command that takes these arguments.               *)
LEMMA RefusedKeepsLine ==
    ASSUME LineInv, NoSuchCommand \/ WrongArguments
    PROVE  LineInv'
  <1>1. /\ pc = "reading" /\ pc' = "prompt"
        /\ UNCHANGED <<stdin, typed, node, scanner>>
    BY DEF NoSuchCommand, WrongArguments, NameFound, Refused, input
  <1>2. Plain(typed)' <=> Plain(typed)
    BY <1>1 DEF Plain
  <1>3. ASSUME Plain(typed), NEW c \in Commands, Means(typed, c, Tail(typed))
        PROVE  FALSE
    <2>1. typed \in Seq({Whole(w) : w \in Words \union Commands}) /\ Scanned
      BY <1>1, <1>3 DEF LineInv
    <2>2. /\ ReadToken(scanner).token = Head(typed)
          /\ Head(typed) # None
          /\ Found = Tail(typed)
      BY <1>3, <2>1, ScannedIsRead
    <2>3. Head(typed) = Whole(c) /\ Accepts(c, Tail(typed))
      BY <1>3 DEF Means
    <2>4. PICK k \in DOMAIN LoadTree : c = LoadTree[k]
      BY DEF Commands, Range
    <2>5. CASE NoSuchCommand
      <3>1. node = Len(LoadTree) /\ Head(typed) # Whole(LoadTree[node])
        BY <2>2, <2>5 DEF NoSuchCommand
      <3>2. k \in Int /\ node \in Int /\ (k \in 1 .. node - 1 \/ k = node)
        BY <2>1, <3>1 DEF LoadTree
      <3>. QED BY <2>1, <2>3, <2>4, <3>1, <3>2 DEF Scanned
    <2>6. CASE WrongArguments
      <3>1. Whole(c) = Whole(LoadTree[node]) /\ ~Accepts(LoadTree[node], Tail(typed))
        BY <2>2, <2>3, <2>6 DEF WrongArguments, NameFound
      <3>2. c = LoadTree[node]
        BY <3>1 DEF Whole
      <3>. QED BY <2>3, <3>1, <3>2
    <2>. QED BY <2>5, <2>6
  <1>4. RunsWhatWasTyped'
    BY <1>1, <1>2, <1>3 DEF RunsWhatWasTyped
  <1>. QED BY <1>1, <1>2, <1>4 DEF LineInv

(* What starts is the first word with those after it.                      *)
LEMMA StartKeepsLine ==
    ASSUME LineInv, StartRequest
    PROVE  LineInv'
  <1>. DEFINE c == LoadTree[node]
  <1>1. /\ pc = "reading" /\ pc' \in {"calling", "relogin", "leaving", "exited"}
        /\ UNCHANGED <<stdin, typed>>
        /\ NameFound /\ Accepts(c, Found) /\ Local(c, Found) = "request"
        /\ call' = [op |-> c, args |-> SubSeq(Found, 1, Arguments[c])]
    BY DEF StartRequest, input, NameFound
  <1>2. Plain(typed)' <=> Plain(typed)
    BY <1>1 DEF Plain
  <1>3. ASSUME Plain(typed)
        PROVE  \E n \in 0 .. Len(typed) - 1 :
                  /\ call'.args = SubSeq(typed, 2, 1 + n)
                  /\ Means(IF call'.op = "download" THEN SubSeq(typed, 1, 2) ELSE typed,
                           call'.op, call'.args)
    <2>. DEFINE Tokens == {Whole(w) : w \in Words \union Commands}
                n == Arguments[c]
    <2>1. typed \in Seq(Tokens) /\ Scanned
      BY <1>1, <1>3 DEF LineInv
    <2>2. Found = Tail(typed) /\ Head(typed) = Whole(c)
      BY <1>1, <1>3, <2>1, ScannedIsRead DEF NameFound
    <2>3. c \in Commands
      BY <2>1 DEF Scanned, Commands, Range
    <2>4. c # "help" /\ n \in Nat
      BY <1>1, <2>3 DEF Local, Arguments
    <2>5. call'.op = c /\ call'.args = SubSeq(Tail(typed), 1, n)
      BY <1>1, <2>2
    <2>6. typed # <<>> /\ Len(Tail(typed)) = Len(typed) - 1 /\ Len(typed) \in Nat \ {0}
      BY <2>1 DEF Scanned
    <2>7. CASE c = "download"
      <3>1. n = 1 /\ Len(typed) >= 2
        BY <1>1, <2>2, <2>3, <2>6, <2>7 DEF Accepts, Arguments
      <3>2. /\ SubSeq(Tail(typed), 1, 1) = SubSeq(typed, 2, 2)
            /\ Tail(SubSeq(typed, 1, 2)) = SubSeq(typed, 2, 2)
            /\ Head(SubSeq(typed, 1, 2)) = Head(typed)
            /\ SubSeq(typed, 1, 2) # <<>>
            /\ Len(SubSeq(typed, 2, 2)) = 1
        <4>. HIDE DEF Tokens
        <4>. QED BY <2>1, <3>1
      <3>3. Accepts(c, SubSeq(typed, 2, 2))
        BY <2>7, <3>2 DEF Accepts
      <3>4. Means(SubSeq(typed, 1, 2), c, SubSeq(typed, 2, 2))
        BY <2>2, <3>2, <3>3 DEF Means
      <3>5. call'.op = "download" /\ call'.args = SubSeq(typed, 2, 1 + 1)
        BY <2>5, <2>7, <3>1, <3>2
      <3>6. 1 \in 0 .. Len(typed) - 1
        BY <2>6, <3>1
      <3>. QED BY <2>7, <3>4, <3>5, <3>6
    <2>8. CASE c # "download"
      <3>1. n = Len(typed) - 1
        BY <1>1, <2>2, <2>3, <2>4, <2>6, <2>8 DEF Accepts
      <3>2. SubSeq(Tail(typed), 1, n) = Tail(typed) /\ SubSeq(typed, 2, 1 + n) = Tail(typed)
        <4>. HIDE DEF Tokens
        <4>. QED BY <2>1, <2>6, <3>1
      <3>3. n \in 0 .. Len(typed) - 1
        BY <2>4, <2>6, <3>1
      <3>4. Means(typed, c, Tail(typed))
        BY <1>1, <2>2, <2>6 DEF Means
      <3>. QED BY <2>5, <2>8, <3>2, <3>3, <3>4
    <2>. QED BY <2>7, <2>8
  <1>4. RunsWhatWasTyped'
    BY <1>1, <1>2, <1>3 DEF RunsWhatWasTyped
  <1>. QED BY <1>1, <1>2, <1>4 DEF LineInv

LEMMA OtherStepsKeepLine ==
    ASSUME LineInv,
           EndOfInput \/ AnswerLocally \/ CommandReturns \/ CannotStartDownload \/ LogoutReturns
              \/ UNCHANGED vars
    PROVE  LineInv'
  <1>1. UNCHANGED <<stdin, typed>>
    BY DEF EndOfInput, AnswerLocally, CommandReturns, CannotStartDownload, LogoutReturns, Return,
           input, vars
  <1>2. Plain(typed)' <=> Plain(typed)
    BY <1>1 DEF Plain
  <1>3. CASE EndOfInput
    BY <1>1, <1>2, <1>3 DEF EndOfInput, LineInv, RunsWhatWasTyped
  <1>4. CASE AnswerLocally
    <2>1. pc' = "prompt" /\ told' # "Comando invalido"
      BY <1>4 DEF AnswerLocally, Local
    <2>. QED BY <1>1, <1>2, <2>1 DEF LineInv, RunsWhatWasTyped
  <1>5. CASE CommandReturns \/ CannotStartDownload
    <2>1. pc' = "prompt"
      BY <1>5 DEF CommandReturns, CannotStartDownload, Return
    <2>2. CASE CommandReturns
      <3>1. PICK e \in Exchanges(call.op), message \in Messages : Return(e[1], e[2], message)
        BY <2>2 DEF CommandReturns
      <3>2. told' # "Comando invalido"
        BY <3>1 DEF Return, Messages
      <3>. QED BY <1>1, <1>2, <2>1, <3>2 DEF LineInv, RunsWhatWasTyped
    <2>3. CASE CannotStartDownload
      <3>1. told' # "Comando invalido"
        BY <2>3 DEF CannotStartDownload, Return
      <3>. QED BY <1>1, <1>2, <2>1, <3>1 DEF LineInv, RunsWhatWasTyped
    <2>. QED BY <1>5, <2>2, <2>3
  <1>6. CASE LogoutReturns
    <2>1. pc \in {"relogin", "leaving"} /\ pc' \in {"calling", "exited"} /\ call' = call
      BY <1>6 DEF LogoutReturns
    <2>. QED BY <1>1, <1>2, <2>1 DEF LineInv, RunsWhatWasTyped, Means
  <1>7. CASE UNCHANGED vars
    BY <1>2, <1>7 DEF vars, LineInv, RunsWhatWasTyped, Scanned
  <1>. QED BY <1>3, <1>4, <1>5, <1>6, <1>7

LEMMA NextKeepsLine == LineInv /\ [Next]_vars => LineInv'
  BY PromptKeepsLine, NextNodeKeepsLine, RefusedKeepsLine, StartKeepsLine, OtherStepsKeepLine
     DEF Next, Terminal

(* A line that fits and has no word of one letter runs as it was typed,    *)
(* and is refused only if it is no command: for every vocabulary, every    *)
(* line and every buffer, the tokens come whole through SaveToken.         *)
THEOREM LinesRunAsTyped == Spec => []RunsWhatWasTyped
  <1>1. LineInv => RunsWhatWasTyped
    BY DEF LineInv
  <1>. QED BY <1>1, InitLineInv, NextKeepsLine, PTL DEF Spec
-----------------------------------------------------------------------------
(* Functions that are defined by recursion on a number.                    *)

LEMMA NatWellFounded == IsWellFoundedOn({ss \in Nat \X Nat : ss[1] < ss[2]}, Nat)
  <1>1. IsWellFoundedOn(OpToRel(<, Nat), Nat)
    BY NatLessThanWellFounded, Zenon
  <1>. QED BY <1>1, Zenon DEF OpToRel

LEMMA Minimal ==
    ASSUME NEW R, NEW S, IsWellFoundedOn(R, S), NEW T, T \subseteq S, T # {}
    PROVE  \E x \in T : \A y \in T : <<y, x>> \notin R
  BY WFMin

(* A set of natural numbers that has no least element is empty.            *)
LEMMA NoLeast ==
    ASSUME NEW Bad \in SUBSET Nat, \A n \in Bad : \E m \in Bad : m < n
    PROVE  Bad = {}
  <1>. DEFINE R == {ss \in Nat \X Nat : ss[1] < ss[2]}
  <1>1. IsWellFoundedOn(R, Nat)
    BY NatWellFounded
  <1>2. \A m, n \in Bad : m < n => <<m, n>> \in R
    OBVIOUS
  <1>. HIDE DEF R
  <1>3. Bad # {} => \E n \in Bad : \A m \in Bad : <<m, n>> \notin R
    BY ONLY Bad \in SUBSET Nat, <1>1, Minimal, Zenon
  <1>. QED BY <1>2, <1>3

(* What holds of the first value, and of each with the one before it.      *)
LEMMA Climbs ==
    ASSUME NEW V, NEW n \in Nat, NEW f, n >= 1 => f[1] \in V,
           \A i \in 2 .. n : f[i - 1] \in V => f[i] \in V
    PROVE  \A i \in 1 .. n : f[i] \in V
  <1>. DEFINE Bad == {i \in 1 .. n : f[i] \notin V}
  <1>1. \A i \in Bad : i \in 2 .. n /\ i - 1 \in Bad
    <2>. TAKE i \in Bad
    <2>1. i # 1
      OBVIOUS
    <2>. QED BY <2>1
  <1>2. \A i \in Bad : \E m \in Bad : m < i
    <2>. HIDE DEF Bad
    <2>. QED BY <1>1
  <1>3. Bad = {}
    <2>1. Bad \in SUBSET Nat
      OBVIOUS
    <2>. HIDE DEF Bad
    <2>. QED BY <1>2, <2>1, NoLeast
  <1>. QED BY <1>3

Recurs(g, n, a, op) ==
    \A i \in 1 .. n : g[i] = IF i = 1 THEN a ELSE op[<<g[i - 1], i>>]

LEMMA RecursionExists ==
    ASSUME NEW V, NEW n \in Nat, NEW a \in V, NEW op \in [V \X Nat -> V]
    PROVE  \E g \in [1 .. n -> V] : Recurs(g, n, a, op)
  <1>. DEFINE Bad == {k \in Nat : ~ \E g \in [1 .. k -> V] : Recurs(g, k, a, op)}
  <1>1. 0 \notin Bad
    <2>1. [i \in 1 .. 0 |-> a] \in [1 .. 0 -> V] /\ Recurs([i \in 1 .. 0 |-> a], 0, a, op)
      BY DEF Recurs
    <2>. QED BY <2>1
  <1>2. ASSUME NEW k \in Nat \ {0}, NEW g \in [1 .. k - 1 -> V], Recurs(g, k - 1, a, op)
        PROVE  \E h \in [1 .. k -> V] : Recurs(h, k, a, op)
    <2>. DEFINE last == IF k = 1 THEN a ELSE op[<<g[k - 1], k>>]
                h == [i \in 1 .. k |-> IF i < k THEN g[i] ELSE last]
    <2>1. last \in V
      OBVIOUS
    <2>2. h \in [1 .. k -> V]
      <3>. HIDE DEF last
      <3>. QED BY <2>1
    <2>3. (\A i \in 1 .. k - 1 : h[i] = g[i]) /\ h[k] = last
      OBVIOUS
    <2>4. Recurs(h, k, a, op)
      <3>. HIDE DEF h
      <3>1. ASSUME NEW i \in 1 .. k - 1
            PROVE  h[i] = IF i = 1 THEN a ELSE op[<<h[i - 1], i>>]
        <4>1. h[i] = g[i]
          BY <2>3
        <4>2. CASE i = 1
          BY <1>2, <4>1, <4>2 DEF Recurs
        <4>3. CASE i # 1
          <5>1. i - 1 \in 1 .. k - 1
            BY <4>3
          <5>2. h[i - 1] = g[i - 1]
            BY <2>3, <5>1
          <5>3. g[i] = op[<<g[i - 1], i>>]
            BY <1>2, <4>3 DEF Recurs
          <5>. QED BY <4>1, <4>3, <5>2, <5>3
        <4>. QED BY <4>2, <4>3
      <3>2. h[k] = IF k = 1 THEN a ELSE op[<<h[k - 1], k>>]
        BY <2>3
      <3>3. \A i \in 1 .. k : i \in 1 .. k - 1 \/ i = k
        OBVIOUS
      <3>. QED BY <3>1, <3>2, <3>3 DEF Recurs
    <2>. HIDE DEF h
    <2>. QED BY <2>2, <2>4
  <1>3. \A k \in Bad : \E m \in Bad : m < k
    <2>. TAKE k \in Bad
    <2>1. k \in Nat \ {0}
      BY <1>1
    <2>2. k - 1 \in Bad
      BY <1>2, <2>1
    <2>. HIDE DEF Bad
    <2>. QED BY <2>1, <2>2
  <1>4. Bad = {}
    <2>1. Bad \in SUBSET Nat
      OBVIOUS
    <2>. HIDE DEF Bad
    <2>. QED BY <1>3, <2>1, NoLeast
  <1>. QED BY <1>4

-----------------------------------------------------------------------------
(* The types: what ReadLine cuts off a line, and what the tree hands to a  *)
(* command, are pieces.                                                    *)

LEMMA PieceType ==
    ASSUME NEW p \in Pieces
    PROVE  /\ p = <<p[1], p[2], p[3]>> /\ p[1] \in Words \union Commands
           /\ p[2] \in Nat /\ p[3] \in Nat /\ 1 <= p[2] /\ p[2] <= p[3] /\ p[3] <= Length[p[1]]
           /\ strlen(p) \in Nat
  BY DEF Pieces, strlen

LEMMA BeginsType ==
    ASSUME NEW pieces \in Seq(Pieces)
    PROVE  \A i \in 1 .. Len(pieces) + 1 : Begins(pieces)[i] \in Nat
  <1>. DEFINE n == Len(pieces) + 1
              op == [x \in Nat \X Nat |->
                       IF x[2] \in 2 .. n THEN x[1] + strlen(pieces[x[2] - 1]) + 1 ELSE 1]
              Rec(f) == f = [i \in 1 .. n |-> IF i = 1 THEN 1
                                              ELSE f[i - 1] + strlen(pieces[i - 1]) + 1]
  <1>1. n \in Nat /\ n >= 1
    OBVIOUS
  <1>2. \A i \in 2 .. n : strlen(pieces[i - 1]) \in Nat
    BY PieceType
  <1>3. op \in [Nat \X Nat -> Nat]
    BY <1>2
  <1>4. \A v \in Nat, i \in 2 .. n : op[<<v, i>>] = v + strlen(pieces[i - 1]) + 1
    OBVIOUS
  <1>. HIDE DEF op, n
  <1>5. PICK g \in [1 .. n -> Nat] : Recurs(g, n, 1, op)
    BY <1>1, <1>3, RecursionExists
  <1>6. Rec(g)
    <2>1. ASSUME NEW i \in 1 .. n
          PROVE  g[i] = IF i = 1 THEN 1 ELSE g[i - 1] + strlen(pieces[i - 1]) + 1
      <3>1. CASE i = 1
        BY <1>5, <3>1 DEF Recurs
      <3>2. CASE i # 1
        <4>1. i \in 2 .. n /\ g[i - 1] \in Nat
          BY <1>1, <3>2
        <4>2. g[i] = op[<<g[i - 1], i>>]
          BY <1>5, <3>2 DEF Recurs
        <4>. QED BY <1>4, <3>2, <4>1, <4>2
      <3>. QED BY <3>1, <3>2
    <2>. QED BY <2>1
  <1>7. Begins(pieces) = CHOOSE f : Rec(f)
    BY DEF Begins, n
  <1>8. Rec(Begins(pieces))
    <2>. HIDE DEF Rec
    <2>. QED BY <1>6, <1>7
  <1>. DEFINE b == Begins(pieces)
  <1>9. /\ b[1] = 1
        /\ \A i \in 2 .. n : b[i] = b[i - 1] + strlen(pieces[i - 1]) + 1
    <2>. HIDE DEF b
    <2>. QED BY <1>1, <1>8 DEF b
  <1>. HIDE DEF b, Rec
  <1>10. \A i \in 2 .. n : b[i - 1] \in Nat => b[i] \in Nat
    BY <1>2, <1>9
  <1>11. \A i \in 1 .. n : b[i] \in Nat
    <2>1. n >= 1 => b[1] \in Nat
      BY <1>9
    <2>. QED BY ONLY <1>1, <1>10, <2>1, Climbs, Zenon
  <1>. QED BY <1>11 DEF b, n

LEMMA FlattenType ==
    ASSUME NEW X, NEW seqs \in Seq(Seq(X))
    PROVE  FlattenSeq(seqs) \in Seq(X)
  <1>. DEFINE n == Len(seqs)
              op == [x \in Seq(X) \X Nat |-> IF x[2] \in 1 .. n THEN x[1] \o seqs[x[2]] ELSE <<>>]
              Rec(f) == f = [i \in 1 .. n |-> IF i = 1 THEN seqs[i] ELSE f[i - 1] \o seqs[i]]
  <1>1. CASE n = 0
    BY <1>1 DEF FlattenSeq
  <1>2. CASE n # 0
    <2>1. n \in Nat /\ n >= 1 /\ \A i \in 1 .. n : seqs[i] \in Seq(X)
      BY <1>2
    <2>2. op \in [Seq(X) \X Nat -> Seq(X)]
      <3>1. ASSUME NEW v \in Seq(X), NEW i \in Nat
            PROVE  (IF i \in 1 .. n THEN v \o seqs[i] ELSE <<>>) \in Seq(X)
        BY <2>1
      <3>. HIDE DEF n
      <3>. QED BY <3>1
    <2>3. \A v \in Seq(X), i \in 1 .. n : op[<<v, i>>] = v \o seqs[i]
      <3>1. \A i \in 1 .. n : i \in Nat
        OBVIOUS
      <3>. HIDE DEF n
      <3>. QED BY <3>1
    <2>4. FlattenSeq(seqs) = (CHOOSE f : Rec(f))[n]
      BY <1>2 DEF FlattenSeq
    <2>. HIDE DEF op, n
    <2>5. PICK g \in [1 .. n -> Seq(X)] : Recurs(g, n, seqs[1], op)
      <3>1. seqs[1] \in Seq(X)
        BY <2>1
      <3>. QED BY <2>1, <2>2, <3>1, RecursionExists
    <2>6. Rec(g)
      <3>1. ASSUME NEW i \in 1 .. n
            PROVE  g[i] = IF i = 1 THEN seqs[i] ELSE g[i - 1] \o seqs[i]
        <4>1. CASE i = 1
          BY <2>5, <4>1 DEF Recurs
        <4>2. CASE i # 1
          <5>1. g[i - 1] \in Seq(X)
            BY <2>1, <4>2
          <5>2. g[i] = op[<<g[i - 1], i>>]
            BY <2>5, <4>2 DEF Recurs
          <5>. QED BY <2>3, <4>2, <5>1, <5>2
        <4>. QED BY <4>1, <4>2
      <3>. QED BY <3>1
    <2>7. Rec(CHOOSE h : Rec(h))
      <3>. HIDE DEF Rec
      <3>. QED BY <2>6
    <2>. DEFINE f == CHOOSE h : Rec(h)
    <2>8. f[1] = seqs[1] /\ \A i \in 2 .. n : f[i] = f[i - 1] \o seqs[i]
      <3>1. Rec(f)
        BY <2>7
      <3>. HIDE DEF f
      <3>2. f = [i \in 1 .. n |-> IF i = 1 THEN seqs[i] ELSE f[i - 1] \o seqs[i]]
        BY <3>1
      <3>3. ASSUME NEW i \in 1 .. n
            PROVE  f[i] = IF i = 1 THEN seqs[i] ELSE f[i - 1] \o seqs[i]
        BY <3>2
      <3>4. 1 \in 1 .. n /\ \A i \in 2 .. n : i \in 1 .. n /\ i # 1
        BY <2>1
      <3>. QED BY <3>3, <3>4, Zenon
    <2>. HIDE DEF Rec, f
    <2>9. \A i \in 2 .. n : f[i - 1] \in Seq(X) => f[i] \in Seq(X)
      <3>. TAKE i \in 2 .. n
      <3>1. i \in 1 .. n
        BY <2>1
      <3>2. seqs[i] \in Seq(X) /\ f[i] = f[i - 1] \o seqs[i]
        BY <2>1, <2>8, <3>1, Zenon
      <3>. QED BY <3>2
    <2>10. \A i \in 1 .. n : f[i] \in Seq(X)
      <3>. DEFINE V == Seq(X)
      <3>1. f[1] \in V /\ \A i \in 2 .. n : f[i - 1] \in V => f[i] \in V
        BY <2>1, <2>8, <2>9
      <3>. HIDE DEF V
      <3>2. \A i \in 1 .. n : f[i] \in V
        BY ONLY <2>1, <3>1, Climbs, Zenon
      <3>. QED BY <3>2 DEF V
    <2>. QED BY <2>1, <2>4, <2>10 DEF f
  <1>. QED BY <1>1, <1>2

LEMMA MaxMin ==
    ASSUME NEW i \in Int, NEW j \in Int
    PROVE  /\ Max({i, j}) \in {i, j} /\ Max({i, j}) >= i /\ Max({i, j}) >= j
           /\ Min({i, j}) \in {i, j} /\ Min({i, j}) <= i /\ Min({i, j}) <= j
  <1>1. \E x \in {i, j} : \A y \in {i, j} : x >= y
    OBVIOUS
  <1>2. \E x \in {i, j} : \A y \in {i, j} : x <= y
    OBVIOUS
  <1>. QED BY <1>1, <1>2 DEF Max, Min

LEMMA BetweenType ==
    ASSUME NEW pieces \in Seq(Pieces), NEW first \in Int, NEW last \in Int
    PROVE  Between(pieces, first, last) \in Seq(Pieces)
  <1>. DEFINE start   == Begins(pieces)
              From(i) == pieces[i][2] + Max({0, first - start[i]})
              To(i)   == Min({pieces[i][3], pieces[i][2] + last - start[i]})
              Part(i) == IF From(i) <= To(i) THEN << <<pieces[i][1], From(i), To(i)>> >>
                         ELSE <<>>
              parts == [i \in DOMAIN pieces |-> Part(i)]
  <1>1. ASSUME NEW i \in DOMAIN pieces
        PROVE  Part(i) \in Seq(Pieces)
    <2>1. /\ pieces[i][1] \in Words \union Commands
          /\ pieces[i][2] \in Nat /\ pieces[i][3] \in Nat /\ 1 <= pieces[i][2]
          /\ pieces[i][3] <= Length[pieces[i][1]]
      BY PieceType
    <2>2. Length[pieces[i][1]] \in Nat
      BY <2>1, WordsAssumption
    <2>3. start[i] \in Int
      BY BeginsType
    <2>4. From(i) \in Nat /\ From(i) >= 1
      <3>1. Max({0, first - start[i]}) \in Nat
        <4>. DEFINE d == first - start[i]
        <4>1. d \in Int
          BY <2>3
        <4>. HIDE DEF d
        <4>2. 0 \in Int
          OBVIOUS
        <4>3. Max({0, d}) \in {0, d} /\ Max({0, d}) >= 0
          BY <4>1, <4>2, MaxMin, Zenon
        <4>. QED BY <4>1, <4>3 DEF d
      <3>. QED BY <2>1, <3>1
    <2>5. To(i) \in Int /\ To(i) <= pieces[i][3]
      <3>. DEFINE d == pieces[i][2] + last - start[i]
                  e == pieces[i][3]
      <3>1. d \in Int /\ e \in Int
        BY <2>1, <2>3
      <3>. HIDE DEF d, e
      <3>2. Min({e, d}) \in {e, d} /\ Min({e, d}) <= e
        BY <3>1, MaxMin
      <3>. QED BY <3>1, <3>2 DEF d, e
    <2>. DEFINE x == From(i)
                y == To(i)
                w == pieces[i][1]
                p == <<w, x, y>>
    <2>6. x <= y => p \in Pieces
      <3>1. x <= y => y \in Nat /\ y <= Length[w]
        <4>1. x \in Nat /\ y \in Int /\ y <= pieces[i][3]
          BY <2>4, <2>5
        <4>. HIDE DEF x, y
        <4>. QED BY <2>1, <2>2, <4>1
      <3>2. x \in Nat /\ x >= 1 /\ w \in Words \union Commands
        BY <2>1, <2>4
      <3>. HIDE DEF x, y, w
      <3>. QED BY <3>1, <3>2 DEF Pieces
    <2>7. Part(i) = IF x <= y THEN <<p>> ELSE <<>>
      OBVIOUS
    <2>. HIDE DEF x, y, w, p, Part
    <2>. QED BY <2>6, <2>7
  <1>2. Between(pieces, first, last) = FlattenSeq(parts)
    BY DEF Between
  <1>3. parts \in Seq(Seq(Pieces))
    <2>. HIDE DEF Part
    <2>. QED BY <1>1
  <1>. HIDE DEF parts
  <1>. QED BY <1>2, <1>3, FlattenType

LEMMA ReadLineType ==
    ASSUME NEW pieces \in Seq(Pieces)
    PROVE  ReadLine(pieces).now \in Seq(Pieces) /\ ReadLine(pieces).later \in Seq(Pieces)
  <1>1. LineLength(pieces) \in Int
    <2>1. Begins(pieces)[Len(pieces) + 1] \in Nat
      BY BeginsType
    <2>. QED BY <2>1 DEF LineLength
  <1>2. CASE LineLength(pieces) <= MAX_LINE
    BY <1>2 DEF ReadLine
  <1>3. CASE ~(LineLength(pieces) <= MAX_LINE)
    <2>1. /\ Between(pieces, 1, MAX_LINE - 1) \in Seq(Pieces)
          /\ Between(pieces, MAX_LINE + 1, LineLength(pieces)) \in Seq(Pieces)
      BY <1>1, BetweenType, BufferAssumption
    <2>. QED BY <1>3, <2>1 DEF ReadLine
  <1>. QED BY <1>2, <1>3

Scanners == [rest : Seq(Pieces), saved : {None} \union {p \in Pieces : strlen(p) > 1}]

(* The type invariant with what it needs: a login that is under way has    *)
(* the two arguments from which its name is taken.                         *)
ConsoleTypes ==
    /\ pc \in {"prompt", "reading", "calling", "relogin", "leaving", "exited", "dead"}
    /\ stdin \in Seq(Pieces) /\ typed \in Seq(Pieces)
    /\ node \in DOMAIN LoadTree
    /\ scanner \in Scanners
    /\ call \in [op : Commands, args : Seq(Pieces)]
    /\ pc \in {"calling", "relogin"} /\ call.op = "login" => Len(call.args) = 2
    /\ user \in Pieces /\ log_user \in Pieces
    /\ answered \in BOOLEAN

LEMMA WholeType == \A w \in Words \union Commands : Whole(w) \in Pieces
  BY WordsAssumption DEF Whole, Pieces

LEMMA InitTypes == Init => ConsoleTypes
  <1>1. Anonimo \in Pieces
    BY WholeType, WordsAssumption DEF Anonimo
  <1>2. "help" \in Commands /\ 1 \in DOMAIN LoadTree
    BY DEF Commands, LoadTree, Range
  <1>3. SetScannerString(<<>>) \in Scanners
    BY DEF SetScannerString, Scanners
  <1>4. [op |-> "help", args |-> <<>>] \in [op : Commands, args : Seq(Pieces)]
    BY <1>2
  <1>. QED BY <1>1, <1>2, <1>3, <1>4 DEF Init, ConsoleTypes

LEMMA ReadTokenType ==
    ASSUME NEW s \in Scanners
    PROVE  /\ ReadToken(s).token \in {None} \union Pieces
           /\ ReadToken(s).scanner \in Scanners
  <1>1. CASE s.saved # None
    BY <1>1 DEF ReadToken, Scanners
  <1>2. CASE s.saved = None /\ s.rest = <<>>
    BY <1>2 DEF ReadToken, Scanners
  <1>3. CASE s.saved = None /\ s.rest # <<>>
    BY <1>3 DEF ReadToken, Scanners
  <1>. QED BY <1>1, <1>2, <1>3

LEMMA SaveTokenType ==
    ASSUME NEW s \in Scanners, NEW t \in {None} \union Pieces
    PROVE  SaveToken(s, t) \in Scanners
  BY DEF SaveToken, Scanners

LEMMA FoundType ==
    ASSUME scanner \in Scanners
    PROVE  Found \in Seq(Pieces)
  <1>. DEFINE read  == ReadToken(scanner)
              below == ReadToken(read.scanner)
              left  == SaveToken(below.scanner, below.token)
  <1>1. read.scanner \in Scanners
    BY ReadTokenType
  <1>2. below.scanner \in Scanners /\ below.token \in {None} \union Pieces
    <2>. HIDE DEF read
    <2>. QED BY <1>1, ReadTokenType
  <1>3. left \in Scanners
    <2>. HIDE DEF below
    <2>. QED BY <1>2, SaveTokenType
  <1>4. Found = TokensLeft(left)
    BY DEF Found
  <1>. HIDE DEF left
  <1>. QED BY <1>3, <1>4 DEF TokensLeft, Scanners

LEMMA LineTypes ==
    ASSUME ConsoleTypes, TypeLine \/ ReadOn
    PROVE  ConsoleTypes'
  <1>1. typed' \in Seq(Pieces) /\ \E pieces \in Seq(Pieces) : Prompt(pieces)
    <2>1. CASE TypeLine
      <3>1. PICK l \in Lines : typed' = [i \in DOMAIN l |-> Whole(l[i])] /\ Prompt(typed')
        BY <2>1 DEF TypeLine
      <3>2. l \in Seq(Words \union Commands)
        BY WordsAssumption
      <3>3. typed' \in Seq(Pieces)
        <4>1. \A i \in DOMAIN l : Whole(l[i]) \in Pieces
          BY <3>2, WholeType
        <4>. QED BY <3>1, <3>2, <4>1
      <3>. QED BY <3>1, <3>3
    <2>2. CASE ReadOn
      BY <2>2 DEF ReadOn, ConsoleTypes
    <2>. QED BY <2>1, <2>2
  <1>2. PICK pieces \in Seq(Pieces) : Prompt(pieces)
    BY <1>1
  <1>3. ReadLine(pieces).now \in Seq(Pieces) /\ ReadLine(pieces).later \in Seq(Pieces)
    BY ReadLineType
  <1>4. /\ stdin' \in Seq(Pieces) /\ scanner' \in Scanners
        /\ node' = 1 /\ pc' \in {"prompt", "reading"}
        /\ UNCHANGED <<call, user, log_user, answered>>
    BY <1>2, <1>3 DEF Prompt, SetScannerString, Scanners, outcome
  <1>5. 1 \in DOMAIN LoadTree
    BY DEF LoadTree
  <1>. QED BY <1>1, <1>4, <1>5 DEF ConsoleTypes

LEMMA NextNodeTypes ==
    ASSUME ConsoleTypes, NextNode
    PROVE  ConsoleTypes'
  <1>1. node' \in DOMAIN LoadTree
    BY DEF NextNode, ConsoleTypes, LoadTree
  <1>2. scanner' \in Scanners
    <2>1. /\ ReadToken(scanner).token \in {None} \union Pieces
          /\ ReadToken(scanner).scanner \in Scanners
      BY ReadTokenType DEF ConsoleTypes
    <2>2. scanner' = SaveToken(ReadToken(scanner).scanner, ReadToken(scanner).token)
      BY DEF NextNode
    <2>. QED BY <2>1, <2>2, SaveTokenType
  <1>3. UNCHANGED <<pc, stdin, typed, call, user, log_user, answered>>
    BY DEF NextNode, outcome
  <1>. QED BY <1>1, <1>2, <1>3 DEF ConsoleTypes

LEMMA LocalTypes ==
    ASSUME ConsoleTypes, NoSuchCommand \/ WrongArguments \/ AnswerLocally \/ EndOfInput
    PROVE  ConsoleTypes'
  <1>1. /\ UNCHANGED <<stdin, typed, node, scanner, user, log_user>>
        /\ pc' \in {"prompt", "dead"}
    BY DEF NoSuchCommand, WrongArguments, Refused, AnswerLocally, EndOfInput, input, outcome
  <1>2. call' \in [op : Commands, args : Seq(Pieces)] /\ answered' \in BOOLEAN
    <2>1. CASE NoSuchCommand \/ WrongArguments \/ EndOfInput
      BY <2>1 DEF NoSuchCommand, WrongArguments, Refused, EndOfInput, outcome, ConsoleTypes
    <2>2. CASE AnswerLocally
      <3>1. LoadTree[node] \in Commands /\ Found \in Seq(Pieces)
        BY FoundType DEF ConsoleTypes, Commands, Range
      <3>. QED BY <2>2, <3>1 DEF AnswerLocally
    <2>. QED BY <2>1, <2>2
  <1>. QED BY <1>1, <1>2 DEF ConsoleTypes

LEMMA StartTypes ==
    ASSUME ConsoleTypes, StartRequest
    PROVE  ConsoleTypes'
  <1>. DEFINE c == LoadTree[node]
  <1>1. c \in Commands /\ Found \in Seq(Pieces)
    BY FoundType DEF ConsoleTypes, Commands, Range
  <1>2. /\ Accepts(c, Found)
        /\ call' = [op |-> c, args |-> SubSeq(Found, 1, Arguments[c])]
        /\ pc' \in {"exited", "leaving", "calling", "relogin"}
        /\ UNCHANGED <<stdin, typed, node, scanner, user, log_user, answered>>
    BY DEF StartRequest, input, outcome
  <1>3. Len(Found) \in Nat /\ (c # "help" => Len(Found) >= Arguments[c])
    <2>1. Len(Found) \in Nat
      BY <1>1
    <2>2. c # "help" => Len(Found) >= Arguments[c]
      <3>1. c = "download" => Arguments[c] = 1
        BY <1>1 DEF Arguments
      <3>2. Arguments[c] \in Nat
        BY <1>1 DEF Arguments
      <3>. HIDE DEF c
      <3>. QED BY <1>2, <2>1, <3>1, <3>2 DEF Accepts
    <2>. QED BY <2>1, <2>2
  <1>4. c \in {"login"} => Arguments[c] = 2
    BY <1>1 DEF Arguments
  <1>5. Arguments[c] \in Nat /\ (c = "help" => Arguments[c] = 0)
    BY <1>1 DEF Arguments
  <1>6. SubSeq(Found, 1, Arguments[c]) \in Seq(Pieces)
    <2>1. Arguments[c] <= Len(Found)
      BY <1>3, <1>5
    <2>. HIDE DEF c
    <2>. QED BY <1>1, <1>3, <1>5, <2>1
  <1>7. c = "login" => Len(SubSeq(Found, 1, Arguments[c])) = 2
    <2>. HIDE DEF c
    <2>. QED BY <1>1, <1>3, <1>4
  <1>8. call' \in [op : Commands, args : Seq(Pieces)] /\ (call'.op = "login" => Len(call'.args) = 2)
    <2>. HIDE DEF c
    <2>. QED BY <1>1, <1>2, <1>6, <1>7
  <1>. QED BY <1>2, <1>8 DEF ConsoleTypes

LEMMA AnswerTypes ==
    ASSUME ConsoleTypes, CommandReturns \/ CannotStartDownload \/ LogoutReturns
    PROVE  ConsoleTypes'
  <1>1. Anonimo \in Pieces
    BY WholeType, WordsAssumption DEF Anonimo
  <1>2. CASE CommandReturns
    <2>1. PICK e \in Exchanges(call.op), message \in Messages :
               /\ Says(call.op, e[2], message)
               /\ answered' = (e[1] = e[2])
               /\ Return(e[1], e[2], message)
      BY <1>2 DEF CommandReturns
    <2>2. pc = "calling" /\ (call.op = "login" => call.args[1] \in Pieces)
      BY <1>2 DEF CommandReturns, ConsoleTypes
    <2>3. message = "USER_LOGIN_OK" => call.op = "login"
      <3>. DEFINE c == call.op
                  code == e[2]
      <3>1. Says(c, code, message)
        BY <2>1
      <3>. HIDE DEF c, code
      <3>2. message = "USER_LOGIN_OK" <=> c = "login" /\ code \in {"LOGIN_OK", "USER_IS_LOG"}
        BY <3>1, Switches, Zenon
      <3>. QED BY <3>2 DEF c
    <2>4. log_user' \in Pieces /\ user' \in Pieces
      BY <1>1, <2>1, <2>2, <2>3 DEF Return, NextLogUser, NextUser, ConsoleTypes
    <2>. QED BY <2>1, <2>4 DEF Return, input, ConsoleTypes
  <1>3. CASE CannotStartDownload
    <2>1. UNCHANGED <<user, log_user>>
      BY <1>3 DEF CannotStartDownload, Return, NextLogUser, NextUser, LoggedOut, Denials
    <2>. QED BY <1>3, <2>1 DEF CannotStartDownload, Return, input, ConsoleTypes
  <1>4. CASE LogoutReturns
    <2>1. log_user' \in Pieces
      BY <1>1, <1>4 DEF LogoutReturns, NextLogUser, ConsoleTypes
    <2>2. pc' = "exited" \/ (pc = "relogin" /\ pc' = "calling")
      BY <1>4 DEF LogoutReturns
    <2>3. UNCHANGED <<stdin, typed, node, scanner, call, user, answered>>
      BY <1>4 DEF LogoutReturns, input
    <2>. QED BY <2>1, <2>2, <2>3 DEF ConsoleTypes
  <1>. QED BY <1>2, <1>3, <1>4

LEMMA NextTypes == ConsoleTypes /\ [Next]_vars => ConsoleTypes'
  <1>1. ConsoleTypes /\ UNCHANGED vars => ConsoleTypes'
    BY DEF ConsoleTypes, vars
  <1>. QED BY <1>1, LineTypes, NextNodeTypes, LocalTypes, StartTypes, AnswerTypes
           DEF Next, Terminal

(* Every variable has a value of its kind.  What ReadLine leaves of a line *)
(* that the buffer cuts anywhere is pieces of the words that were typed,   *)
(* for every buffer; no token of one character is ever given back to the   *)
(* scanner; and a login takes the name it keeps from an argument it has.   *)
THEOREM ConsoleTypesAreRight == Spec => []TypeOK
  <1>1. ConsoleTypes => TypeOK
    <2>1. \A s \in Seq(Pieces) : Range(s) \subseteq Pieces
      BY DEF Range
    <2>. QED BY <2>1 DEF ConsoleTypes, TypeOK, Scanners
  <1>. QED BY <1>1, InitTypes, NextTypes, PTL DEF Spec
=============================================================================
