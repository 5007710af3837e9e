------------------------------ MODULE MCConsole ------------------------------
(***************************************************************************)
(* An instance of Console: words of one, two and several letters, a line   *)
(* that does not fit into the buffer, and at least one good line for each  *)
(* command.                                                                *)
(***************************************************************************)
EXTENDS Console

CONSTANTS ana, bo, x

MCWords == {anonimo, ana, bo, x}

MCLength ==
    [w \in MCWords \union Commands |->
        CASE w = x -> 1
          [] w = bo -> 2
          [] w = ana -> 3
          [] w \in {"new", "buy"} -> 3
          [] w \in {"help", "exit"} -> 4
          [] w = "login" -> 5
          [] w = "logout" -> 6
          [] w \in {"password", "download", "listgens"} -> 8
          [] w = "listusers" -> 9
          [] w = "listmovies" -> 10
          [] OTHER -> 7]

MCLines ==
    {<<>>, <<"help">>, <<"exit">>, <<"logout">>, <<"listgens">>, <<"listusers">>,
     <<"listmovies", bo>>, <<"login", ana, bo>>, <<"login", bo, ana>>, <<"login", ana, x>>,
     <<"login", anonimo, anonimo>>, <<"password", ana, ana>>, <<"password", ana, bo>>,
     <<"new", ana, bo, bo, x, ana, x>>, <<"new", ana, bo, ana, bo, ana, bo>>,
     <<"new", bo, ana, ana, bo, bo, bo>>, <<"buy", ana, ana, bo, bo>>, <<"buy", bo>>,
     <<"download", bo>>, <<"download", x>>, <<"download", x, bo>>, <<"download", bo, ana>>,
     <<x, "exit">>, <<x, x, "new", ana, bo, bo, ana, ana, ana>>, <<bo, "logout">>,
     <<"exit", ana>>, <<"listmovies", ana, "listgens", "exit", bo>>,
     <<"buy", anonimo, anonimo, ana, "logout">>}
=============================================================================
