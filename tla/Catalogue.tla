------------------------------ MODULE Catalogue ------------------------------
(* The catalogue of the movie server: InitDB reads a file of movies, one   *)
(* per line, into a list of genres with a list of movies each (movieDB.c,  *)
(* listADT.c) and into the hash table file_paths (database_handler.c);     *)
(* after that it is only read.                                             *)
(*                                                                         *)
(* The lists are kept in order by strcmp, but Insert walks on only while   *)
(* the comparison is exactly -1.  The standard lets strcmp return any      *)
(* negative number, and C libraries do: some return the sign of the        *)
(* difference, some the difference of the first characters that differ.    *)
EXTENDS Integers, Sequences, FiniteSets, SequencesExt

CONSTANTS
  Names, Genres,  \* of movies; numbers, the codes of the one letter in
                  \* which they differ
  Values,         \* prices
  Malformed,      \* a line with more or fewer than six fields, or with a
                  \* path that does not exist
  Files           \* the files to start from: sequences of lines, up to the
                  \* first empty one, and whether a newline ends the last

Movie == [name : Names, gen : Genres, value : Nat]

ASSUME CatalogueAssumption ==
  /\ Names \subseteq Nat /\ Genres \subseteq Nat /\ Values \subseteq Nat
  /\ Malformed \notin Movie
  /\ Files \subseteq [lines : Seq(Movie \cup {Malformed}), newline : BOOLEAN]

VARIABLES
  strcmp,       \* what the C library returns: "sign" or "difference"
  file,
  n_lines,      \* how many of them were read
  starting,     \* "loading", "ready", or "failed": InitDB returned ERROR
  genreList,    \* sequence of genres
  movieList,    \* of each genre, sequence of movies
  cantGenre, cantMoviesGenre,  \* the counters of the two lists
  file_paths    \* from the names of movies to what they were first sold for

catVars == <<strcmp, file, n_lines, starting, genreList, movieList,
             cantGenre, cantMoviesGenre, file_paths>>

-----------------------------------------------------------------------------

Compare(a, b) ==
  CASE strcmp = "difference" -> a - b
    [] strcmp = "sign" /\ a < b -> -1
    [] strcmp = "sign" /\ a = b -> 0
    [] strcmp = "sign" /\ a > b -> 1

(* How many elements Insert passes.                                        *)
Passed(keys, k) ==
  LET stops == {i \in 1..Len(keys) : Compare(keys[i], k) # -1}
  IN IF stops = {} THEN Len(keys) ELSE Min(stops) - 1

(* Insert: in front of the first element that is not passed, unless that   *)
(* one is equal.                                                           *)
Insert(list, keys, x, k) ==
  LET i == Passed(keys, k) + 1 IN
  IF i <= Len(keys) /\ Compare(keys[i], k) = 0 THEN list ELSE InsertAt(list, i, x)

NamesOf(movies) == [i \in DOMAIN movies |-> movies[i].name]

(* GetGenreNode goes through the whole list, however it is ordered.        *)
HasGenre(gen) ==
  \E i \in 1..Len(genreList) : i <= cantGenre /\ Compare(genreList[i], gen) = 0

(* ReadLine overwrites the last character of each line with a newline: the *)
(* last line of a file that does not end with one loses the last digit of  *)
(* its price, and what a price without digits becomes is left to chance.   *)
Whole(i) == i < Len(file.lines) \/ file.newline
BuildMovie(i) ==
  LET movie == file.lines[i] IN
  IF Whole(i) THEN {movie}
  ELSE {[movie EXCEPT !.value = v] :
          v \in IF movie.value >= 10 THEN {movie.value \div 10} ELSE Values}

-----------------------------------------------------------------------------

CatInit ==
  /\ strcmp \in {"sign", "difference"}
  /\ file \in Files
  /\ n_lines = 0
  /\ starting = "loading"
  /\ genreList = <<>>
  /\ movieList = [g \in Genres |-> <<>>]
  /\ cantGenre = 0
  /\ cantMoviesGenre = [g \in Genres |-> 0]
  /\ file_paths = << >>

(* Mutant of LoadMovie: the movie that makes a genre is not counted.       *)
LoadMovieUncounted ==
  /\ starting = "loading" /\ n_lines < Len(file.lines)
  /\ file.lines[n_lines + 1] # Malformed
  /\ \E movie \in BuildMovie(n_lines + 1) : LET gen == movie.gen IN
       /\ genreList' = IF HasGenre(gen) THEN genreList
                       ELSE Insert(genreList, genreList, gen, gen)
       /\ cantGenre' = IF HasGenre(gen) THEN cantGenre ELSE cantGenre + 1
       /\ movieList' = [movieList EXCEPT ![gen] = Insert(@, NamesOf(@), movie, movie.name)]
       /\ cantMoviesGenre' = [cantMoviesGenre EXCEPT ![gen] = IF HasGenre(gen) THEN @ + 1 ELSE @]
       /\ file_paths' = [n \in DOMAIN file_paths \cup {movie.name} |->
                           IF n \in DOMAIN file_paths THEN file_paths[n] ELSE movie]
  /\ n_lines' = n_lines + 1
  /\ UNCHANGED <<strcmp, file, starting>>

(* A turn of InitDB: BuildMovie, InsertMovie (its result is not looked at: *)
(* the counter grows even if Insert found the movie in the list), and      *)
(* HInsert, which keeps the first record of a name.                        *)
LoadMovie ==
  /\ starting = "loading" /\ n_lines < Len(file.lines)
  /\ file.lines[n_lines + 1] # Malformed
  /\ \E movie \in BuildMovie(n_lines + 1) : LET gen == movie.gen IN
       /\ genreList' = IF HasGenre(gen) THEN genreList
                       ELSE Insert(genreList, genreList, gen, gen)
       /\ cantGenre' = IF HasGenre(gen) THEN cantGenre ELSE cantGenre + 1
       /\ movieList' = [movieList EXCEPT ![gen] = Insert(@, NamesOf(@), movie, movie.name)]
       /\ cantMoviesGenre' = [cantMoviesGenre EXCEPT ![gen] = @ + 1]
       /\ file_paths' = [n \in DOMAIN file_paths \cup {movie.name} |->
                           IF n \in DOMAIN file_paths THEN file_paths[n] ELSE movie]
  /\ n_lines' = n_lines + 1
  /\ UNCHANGED <<strcmp, file, starting>>

(* BuildMovie returns NULL: the server does not start.                     *)
LoadFails ==
  /\ starting = "loading" /\ n_lines < Len(file.lines)
  /\ file.lines[n_lines + 1] = Malformed
  /\ starting' = "failed"
  /\ UNCHANGED <<strcmp, file, n_lines, genreList, movieList, cantGenre,
                 cantMoviesGenre, file_paths>>

(* The end of the file, or an empty line (the rest is not read then).      *)
LoadEnds ==
  /\ starting = "loading" /\ n_lines = Len(file.lines)
  /\ starting' = "ready"
  /\ UNCHANGED <<strcmp, file, n_lines, genreList, movieList, cantGenre,
                 cantMoviesGenre, file_paths>>

CatNext == LoadMovie \/ LoadFails \/ LoadEnds

-----------------------------------------------------------------------------
(* What the handlers ask of it.                                            *)

Smaller(a, b) == IF a < b THEN a ELSE b

(* NULL, here the empty sequence, if there is no such genre.               *)
GetMoviesByGenre(gen) ==
  IF HasGenre(gen)
  THEN SubSeq(movieList[gen], 1, Smaller(Len(movieList[gen]), cantMoviesGenre[gen]))
  ELSE <<>>

ListGenre == SubSeq(genreList, 1, Smaller(Len(genreList), cantGenre))

(* -1 is how it says that there is no such movie.                          *)
MovieValue(name) ==
  IF name \in DOMAIN file_paths THEN file_paths[name].value ELSE -1

-----------------------------------------------------------------------------
(* What the catalogue promises.                                            *)

Lines == {file.lines[i] : i \in 1..n_lines}

CatTypeOK ==
  /\ strcmp \in {"sign", "difference"}
  /\ file \in Files
  /\ n_lines \in 0..Len(file.lines)
  /\ starting \in {"loading", "ready", "failed"}
  /\ genreList \in Seq(Genres)
  /\ movieList \in [Genres -> Seq(Movie)]
  /\ cantGenre \in Nat
  /\ cantMoviesGenre \in [Genres -> Nat]
  /\ DOMAIN file_paths \subseteq Names
  /\ \A n \in DOMAIN file_paths : file_paths[n] \in Movie

(* Whatever strcmp returns, a customer who goes through the genres and     *)
(* their movies (listgens, listmovies) finds the movies of the lines that  *)
(* were read, with their prices, and nothing else: neither do the counters *)
(* cut a list, nor does an unordered list hide a genre or a movie.  Only   *)
(* the price of a last line without newline is not what the file says.     *)
(* What is found can be bought, and costs what is listed if the first line *)
(* with its name has it in this genre (and strcmp returns signs: only a    *)
(* list in order ignores what is repeated).                                *)
CatalogueIsComplete ==
  /\ \A movie \in Lines :
       /\ \E i \in 1..Len(ListGenre) : ListGenre[i] = movie.gen
       /\ \E i \in 1..Len(GetMoviesByGenre(movie.gen)) :
            GetMoviesByGenre(movie.gen)[i].name = movie.name
  /\ \A i \in 1..Len(ListGenre) :
       \E movie \in Lines : movie.gen = ListGenre[i]
  /\ \A g \in Genres : \A i \in 1..Len(GetMoviesByGenre(g)) :
       LET movie == GetMoviesByGenre(g)[i] IN
       \/ movie.gen = g /\ movie \in Lines
       \/ /\ n_lines = Len(file.lines) /\ ~file.newline
          /\ movie.gen = g /\ movie.name = file.lines[n_lines].name
  /\ \A g \in Genres : \A i \in 1..Len(GetMoviesByGenre(g)) :
       LET movie == GetMoviesByGenre(g)[i]
           first == Min({j \in 1..n_lines : file.lines[j].name = movie.name}) IN
       /\ MovieValue(movie.name) # -1
       /\ strcmp = "sign" /\ file.lines[first].gen = g
            => MovieValue(movie.name) = movie.value
=============================================================================
