-------------------------------- MODULE Resp --------------------------------
(***************************************************************************)
(* Requests on the wire: encodeCommand, and the server's parser, which is  *)
(* resumed with every read (src/net/resp.cpp).  A parser keeps what has    *)
(* been read of the current command, and here also the unread bytes.  The  *)
(* inline form, text typed by hand, is not told apart from a broken frame. *)
(***************************************************************************)
EXTENDS Codec

CONSTANTS MaxLine,        \* kMaxInlineRequest
          MaxArgs,        \* kMaxMultibulkLength
          MaxBulk         \* kMaxBulkLength

CR == 13
LF == 10
Star == 42
Dollar == 36

encodeCommand(argv) ==
  LET header(type, n) == <<type>> \o ToText(Word(n)) \o <<CR, LF>>
      upTo[i \in 0 .. Len(argv)] ==
        IF i = 0 THEN header(Star, Len(argv))
        ELSE upTo[i - 1] \o header(Dollar, Len(argv[i])) \o argv[i] \o <<CR, LF>>
  IN upTo[Len(argv)]

(* The index of the CR that ends the line, 0 while it has not come.         *)
findCrlf(s) ==
  LET lf == CHOOSE i \in DOMAIN s : s[i] = LF /\ \A j \in 1 .. i - 1 : s[j] # LF
  IN IF (\A i \in DOMAIN s : s[i] # LF) \/ lf = 1 \/ s[lf - 1] # CR THEN 0 ELSE lf - 1

(* parseLong: leading zeros are allowed; the answer is a word.              *)
IsLong(s) == AllDigits(Digits(s)) /\ InInt64(s)
Above(w, limit) == ~Negative(w) /\ IsBelow(Word(limit), w)

NewParser == [argv |-> <<>>, left |-> 0, bulk |-> -1, buf |-> <<>>]
Stops(p, status) == [status |-> status, parser |-> p, argv |-> <<>>]
Completes(p, argv) ==
  [status |-> "Complete", parser |-> [NewParser EXCEPT !.buf = p.buf], argv |-> argv]

(* A line that is not whole: more is to come, unless it is too long.        *)
NoLine(p) == Stops(p, IF Len(p.buf) > MaxLine THEN "Error" ELSE "Incomplete")

(* The payload and the CRLF behind it.                                      *)
NeededBare(bulk) == bulk
Needed(bulk) == bulk + 2

RECURSIVE Arguments(_)
Arguments(p) ==
  LET cr == findCrlf(p.buf)
      text == SubSeq(p.buf, 2, cr - 1)
      len == ToInt(text)
  IN IF p.left = 0 THEN Completes(p, p.argv)
     ELSE IF p.bulk = -1 THEN
       IF cr = 0 THEN NoLine(p)
       ELSE IF \/ p.buf[1] # Dollar \/ ~IsLong(text)
               \/ Negative(len) \/ Above(len, MaxBulk)
         THEN Stops(p, "Error")
       ELSE Arguments([p EXCEPT !.buf = From(@, cr + 2), !.bulk = Natural(len)])
     ELSE IF Len(p.buf) < Needed(p.bulk) THEN Stops(p, "Incomplete")
     ELSE Arguments([argv |-> Append(p.argv, SubSeq(p.buf, 1, p.bulk)), left |-> p.left - 1,
                     bulk |-> -1, buf |-> From(p.buf, p.bulk + 3)])

parseMultibulk(p) ==
  LET cr == findCrlf(p.buf)
      text == SubSeq(p.buf, 2, cr - 1)
      count == ToInt(text)
  IN IF p.left > 0 THEN Arguments(p)
     ELSE IF cr = 0 THEN NoLine(p)
     ELSE IF ~IsLong(text) \/ Above(count, MaxArgs) THEN Stops(p, "Error")
     ELSE IF Negative(count) \/ count = Word(0)
       THEN Completes([p EXCEPT !.buf = From(@, cr + 2)], <<>>)
     ELSE Arguments([p EXCEPT !.buf = From(@, cr + 2), !.left = Natural(count), !.argv = <<>>])

parse(p) ==
  IF p.left = 0 /\ p.buf[1] # Star THEN Stops(p, "Error") ELSE parseMultibulk(p)

(* Server::processInputBuffer: the commands that are whole, in turn.        *)
RECURSIVE Drained(_, _)
Drained(p, commands) ==
  LET r == parse(p)
  IN IF p.buf = <<>> THEN [parser |-> p, commands |-> commands]
     ELSE CASE r.status = "Incomplete" -> [parser |-> r.parser, commands |-> commands]
            [] r.status = "Error" -> [parser |-> NewParser, commands |-> Append(commands, <<>>)]
            [] r.status = "Complete" ->
                 Drained(r.parser, IF r.argv = <<>> THEN commands ELSE Append(commands, r.argv))

(* What a connection dispatches when its bytes come in two reads.           *)
Dispatched(first, second) ==
  LET one == Drained([NewParser EXCEPT !.buf = first], <<>>)
  IN Drained([one.parser EXCEPT !.buf = @ \o second], one.commands).commands
=============================================================================
