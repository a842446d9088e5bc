------------------------------- MODULE ArgcArgv -------------------------------
(***************************************************************************)
(* stringToArgcArgv() (manager/stringToArgcArgv.cpp), with which the       *)
(* manager makes the arguments of a program from a line of the settings.   *)
(***************************************************************************)
EXTENDS Sequences, SequencesExt

CONSTANT Unbalanced   \* the exception for a quote that is not closed

_isQuote(c) == c \in {"'", "\""}
_isEscape(c) == c = "\\"
_isWhitespace(c) == c \in {" ", "\t"}

\* currentState, currentQuoteChar, currentArg, oargs and whether the next
\* character is taken as it is. Outside of an argument currentArg is empty:
\* every way into one empties it.
Start == [state |-> "OutOfArg", quote |-> "NUL", arg |-> <<>>, args |-> <<>>, escaped |-> FALSE]

Taken(s, c) ==
  [s EXCEPT !.arg = Append(@, c), !.state = IF @ = "OutOfArg" THEN "InArg" ELSE @,
            !.escaped = FALSE]

\* Mutant: an escape character between quotes is taken as it is.
ScannedQuoted(s, c) ==
  CASE s.escaped -> Taken(s, c)
    [] ~s.escaped /\ _isQuote(c) ->
         IF s.state # "InArgQuote" THEN [s EXCEPT !.state = "InArgQuote", !.quote = c]
         ELSE IF c = s.quote THEN [s EXCEPT !.state = "InArg"]
         ELSE Taken(s, c)
    [] ~s.escaped /\ _isWhitespace(c) ->
         IF s.state = "InArg"
         THEN [s EXCEPT !.args = Append(@, s.arg), !.arg = <<>>, !.state = "OutOfArg"]
         ELSE IF s.state = "InArgQuote" THEN Taken(s, c)
         ELSE s
    [] ~s.escaped /\ _isEscape(c) /\ s.state # "InArgQuote" ->
         [s EXCEPT !.state = "InArg", !.escaped = TRUE]
    [] OTHER -> Taken(s, c)

\* One character of the loop.
Scanned(s, c) ==
  CASE s.escaped -> Taken(s, c)
    [] ~s.escaped /\ _isQuote(c) ->
         IF s.state # "InArgQuote" THEN [s EXCEPT !.state = "InArgQuote", !.quote = c]
         ELSE IF c = s.quote THEN [s EXCEPT !.state = "InArg"]
         ELSE Taken(s, c)
    [] ~s.escaped /\ _isWhitespace(c) ->
         IF s.state = "InArg"
         THEN [s EXCEPT !.args = Append(@, s.arg), !.arg = <<>>, !.state = "OutOfArg"]
         ELSE IF s.state = "InArgQuote" THEN Taken(s, c)
         ELSE s
    [] ~s.escaped /\ _isEscape(c) ->
         [s EXCEPT !.state = IF @ = "OutOfArg" THEN "InArg" ELSE @, !.escaped = TRUE]
    [] OTHER -> Taken(s, c)

\* stringToArgcArgv(). After an escape character that ends the line the
\* stream has not met its end yet: the read fails and c, which still is the
\* escape character, is appended.
ArgvOf(line) ==
  LET end == FoldLeft(Scanned, Start, line)
      last == IF end.escaped THEN Taken(end, "\\") ELSE end
  IN  CASE last.state = "InArgQuote" -> Unbalanced
        [] last.state = "InArg" -> Append(last.args, last.arg)
        [] OTHER -> last.args
=============================================================================
