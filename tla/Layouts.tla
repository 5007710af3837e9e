------------------------------- MODULE Layouts -------------------------------
(* The binary messages between terminals and movie server, as client.c and *)
(* server.c put them together and take them apart: each side has its own   *)
(* functions Get...Data and Get...Pack, with its own list of memmoves.     *)
(*                                                                         *)
(* A message is written from a struct and read into a struct of the same   *)
(* type.  A layout is the sequence of the copies of one side; a copy       *)
(* starts at a field of the struct, moves some bytes and steps over some   *)
(* bytes of the message.  A copy that moves more bytes than its field has  *)
(* reads or writes the fields that follow in memory.  What comes out of    *)
(* two layouts is computed byte by byte: a field arrives if each of its    *)
(* bytes is, in the end, the byte that was there.                          *)
EXTENDS Integers, Sequences, Functions, FiniteSetsExt

(* The sizes of app.h; longs, and with them u_size and time_t, have four   *)
(* or eight bytes.                                                         *)
LongSizes == {4, 8}

Bytes(long) ==
  [user |-> 50, passwd |-> 50, desc |-> 300, mail |-> 50, level |-> 1,
   name |-> 50, gen |-> 50, plot |-> 300, MD5 |-> 50, value |-> 4,
   movie_name |-> 50, pay_name |-> 30, pay_user |-> 50, pay_passwd |-> 50,
   ticket |-> 20, ip |-> 20, host |-> 20, port |-> 10, server |-> 30,
   key |-> 10, title |-> 50, path |-> 4096, status |-> 4,
   duration |-> long, size |-> long, opCode |-> long, ret_code |-> long,
   total_objects |-> long, n_packet |-> long, total_packets |-> long,
   TTL |-> long]

Copy(field, bytes, step) == [field |-> field, bytes |-> bytes, step |-> step]

(* One memmove per field, each as long as the field.                       *)
Plain(long, fields) ==
  [i \in DOMAIN fields |-> Copy(fields[i], Bytes(long)[fields[i]],
                                Bytes(long)[fields[i]])]

-----------------------------------------------------------------------------
(* The layouts: struct has the fields in memory order; cyphered messages   *)
(* are sent in blocks of eight bytes.                                      *)

Message(struct, writer, reader) ==
  [struct |-> struct, writer |-> writer, reader |-> reader]

Same(long, struct, fields) ==
  Message(struct, Plain(long, fields), Plain(long, fields))

Header(long) ==
  LET header == <<"opCode", "total_objects", "user", "passwd">> IN
  Same(long, header, header)

(* Mutant of Login: the server takes the fields in the other order.        *)
LoginSwapped(long) ==
  Message(<<"user", "passwd">>, Plain(long, <<"user", "passwd">>),
          Plain(long, <<"passwd", "user">>))

Login(long) == LET log == <<"user", "passwd">> IN Same(long, log, log)

NewUser(long) ==
  Same(long, <<"user", "passwd", "desc", "mail", "level">>,
             <<"user", "passwd", "mail", "desc", "level">>)

ListMovies(long) == Same(long, <<"gen">>, <<"gen">>)

Request(long) == Same(long, <<"ticket">>, <<"ticket">>)

Buy(long) ==
  LET buy == <<"movie_name", "pay_name", "pay_user", "pay_passwd">> IN
  Same(long, buy, buy)

(* Both sides copy the port a second time where the ticket should be, with *)
(* the length of the ticket.                                               *)
DownloadStart(long) ==
  LET start == <<Copy("ip", 20, 20), Copy("port", 10, 10), Copy("port", 20, 20)>>
  IN Message(<<"ip", "port", "ticket">>, start, start)

Ack(long) == Same(long, <<"ret_code">>, <<"ret_code">>)

BuyTicket(long) ==
  LET ticket == <<"ret_code", "ticket">> IN Same(long, ticket, ticket)

(* UserDownload of the server packs the answer and then sends the struct,  *)
(* with the two bytes of padding behind its path.                          *)
DownloadHeader(long) ==
  LET fields == <<"status", "title", "path", "total_packets", "size">> IN
  Message(fields,
          [Plain(long, fields) EXCEPT ![3].step = 4096 + 2],
          Plain(long, fields))

Packet(long) ==
  LET fields == <<"n_packet", "total_packets", "title", "size">> IN
  Same(long, fields, fields)

Location(long) ==
  LET fields == <<"server", "host", "port", "key", "TTL">> IN
  Same(long, fields, fields)

Gens(long) == Same(long, <<"gen">>, <<"gen">>)

Users(long) ==
  Same(long, <<"user", "passwd", "desc", "mail", "level">>,
             <<"user", "mail", "desc", "level">>)

(* The terminal steps over a u_size where the server wrote a float.        *)
Movies(long) ==
  LET fields == <<"name", "gen", "plot", "duration", "size", "value", "MD5">> IN
  Message(fields,
          Plain(long, fields),
          [Plain(long, fields) EXCEPT ![6].step = long])

-----------------------------------------------------------------------------
(* What arrives.                                                           *)

(* The sum of the first n values of f.                                     *)
Upto(f, n) == FoldFunctionOnSet(+, 0, f, 1..n)

Steps(layout) == [i \in DOMAIN layout |-> layout[i].step]
Total(layout) == Upto(Steps(layout), Len(layout))

(* Where copy i starts in the message, and where a field starts in memory. *)
Offset(layout, i) == Upto(Steps(layout), i - 1)
Address(long, struct, field) ==
  LET place  == CHOOSE i \in DOMAIN struct : struct[i] = field
      widths == [i \in DOMAIN struct |-> Bytes(long)[struct[i]]]
  IN Upto(widths, place - 1)

(* A layout as a list of moves between a place in the message, a place in  *)
(* memory, and the number of bytes.                                        *)
Moves(long, struct, layout) ==
  [i \in DOMAIN layout |->
     [at |-> Offset(layout, i), byte |-> Address(long, struct, layout[i].field),
      bytes |-> layout[i].bytes]]

(* Of the moves that reach a byte the last one counts.                     *)
LastOf(moves, those) == IF those = {} THEN {} ELSE {moves[Max(those)]}

Writes(moves, q) ==
  LastOf(moves, {i \in DOMAIN moves :
                   q \in moves[i].at .. (moves[i].at + moves[i].bytes - 1)})
Reads(moves, b) ==
  LastOf(moves, {i \in DOMAIN moves :
                   b \in moves[i].byte .. (moves[i].byte + moves[i].bytes - 1)})

(* How many bytes of a field of the k-th record arrive, from its start, if *)
(* the message is a list of records and `sent' bytes of it can be read.  A *)
(* byte arrives if the last move of the reader into it takes the byte of   *)
(* the same record into which the writer put it.                           *)
Leading(long, message, k, sent, field) ==
  LET start   == Address(long, message.struct, field)
      width   == Bytes(long)[field]
      length  == Total(message.writer)
      step    == Total(message.reader)
      written == Moves(long, message.struct, message.writer)
      read    == Moves(long, message.struct, message.reader)
      Arrives(b) ==
        \E r \in Reads(read, b) :
          LET q == (k - 1) * step + r.at + (b - r.byte) IN
          /\ q < sent
          /\ q \div length = k - 1
          /\ \E w \in Writes(written, q % length) : w.byte + ((q % length) - w.at) = b
      missing == {b \in 0 .. (width - 1) : ~Arrives(start + b)}
  IN IF missing = {} THEN width ELSE Min(missing)

(* The fields of the k-th of n records that arrive whole.                  *)
Arriving(long, message, k, sent) ==
  {f \in {message.struct[i] : i \in DOMAIN message.struct} :
     Leading(long, message, k, sent, f) = Bytes(long)[f]}

-----------------------------------------------------------------------------
(* The cipher works on blocks of eight bytes: Cypher fills the last one, a *)
(* block of which not every byte is sent cannot be read.                   *)
Block == 8
Padded(size) == size + (Block - (size % Block))
WholeBlocks(sent) == sent - (sent % Block)

(* The bytes that can be read of an order to buy, of a new password (both  *)
(* sent with their padding) and of a list of n users (sent without).       *)
BuySent(long) == WholeBlocks(Padded(Total(Buy(long).writer)))
PasswordSent(long) == WholeBlocks(Padded(Total(Login(long).writer)))
UsersSent(long, n) == WholeBlocks(n * Total(Users(long).writer))
=============================================================================
