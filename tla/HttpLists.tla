------------------------------ MODULE HttpLists ------------------------------
(***************************************************************************)
(* How websocketpp reads the values of headers: parameter lists, as in     *)
(* "a; b=c, d", and a host with a port.  A text is a sequence of           *)
(* characters; an iterator into it is the text from there on.  Attributes  *)
(* are only skipped: nobody asks for them, there being no extension that   *)
(* is implemented.                                                         *)
(***************************************************************************)
EXTENDS Integers, Sequences, SequencesExt

Chars == Seq(STRING)

Quote == "\""
Backslash == "\\"

Digits == [c \in {"0", "1", "2", "3", "4", "5", "6", "7", "8", "9"} |->
             CASE c = "0" -> 0 [] c = "1" -> 1 [] c = "2" -> 2 [] c = "3" -> 3 [] c = "4" -> 4
               [] c = "5" -> 5 [] c = "6" -> 6 [] c = "7" -> 7 [] c = "8" -> 8 [] c = "9" -> 9]

IsDigit(c) == c \in DOMAIN Digits
IsWhitespace(c) == c \in {" ", "TAB"}
IsToken(c) ==
  c \notin {" ", "TAB", "CR", "LF", "(", ")", "<", ">", "@", ",", ";", ":", "/", "[", "]", "?", "=",
            "{", "}", Quote, Backslash}

From(text, i) == SubSeq(text, i, Len(text))

(* How many characters from the start on pass the test.                    *)
Span(text, Test(_)) ==
  LET i == SelectInSeq(text, LAMBDA c : ~Test(c)) IN IF i = 0 THEN Len(text) ELSE i - 1

Starts(text, c) == text # <<>> /\ text[1] = c

Error == [ok |-> FALSE, rest |-> <<>>]
Good(text) == [ok |-> TRUE, rest |-> text]
-----------------------------------------------------------------------------
ExtractToken(text) ==
  LET n == Span(text, IsToken)
  IN [ok |-> n > 0, value |-> SubSeq(text, 1, n), rest |-> From(text, n + 1)]

(* To the next quote that has no backslash before it.                      *)
ExtractQuoted[text \in Chars] ==
  LET i == SelectInSeq(text, LAMBDA c : c = Quote)
  IN IF i = 0 THEN Error
     ELSE IF i > 1 /\ text[i - 1] = Backslash THEN ExtractQuoted[From(text, i + 1)]
     ELSE Good(From(text, i + 1))

ExtractQuotedString(text) == IF Starts(text, Quote) THEN ExtractQuoted[Tail(text)] ELSE Error

(* White space, perhaps after the end of a line.                           *)
ExtractLws(text) ==
  LET folded == Len(text) > 2 /\ text[1] = "CR" /\ text[2] = "LF" /\ IsWhitespace(text[3])
      it == IF folded THEN From(text, 4) ELSE text
  IN From(it, Span(it, IsWhitespace) + 1)

AllLws[text \in Chars] ==
  LET it == ExtractLws(text)
  IN IF it = <<>> \/ it = text THEN it ELSE AllLws[it]

ExtractAllLws(text) == AllLws[text]

StripLws(text) == Reverse(ExtractAllLws(Reverse(ExtractAllLws(text))))

ExtractValue(text) ==
  LET quoted == ExtractQuotedString(text)
      token == ExtractToken(text)
  IN CASE quoted.ok -> quoted
       [] ~quoted.ok /\ token.ok -> Good(token.rest)
       [] OTHER -> Error

(* name, or name=value.                                                    *)
Attribute(text) ==
  LET name == ExtractToken(ExtractAllLws(text))
      next == ExtractAllLws(name.rest)
  IN IF ~name.ok THEN Error
     ELSE IF ~Starts(next, "=") THEN Good(next)
     ELSE ExtractValue(ExtractAllLws(Tail(next)))

(* All but the first of them come after a semicolon.                       *)
Attributes[text \in Chars] ==
  LET start == ExtractAllLws(text)
      attribute == Attribute(Tail(start))
  IN IF ~Starts(start, ";") THEN Good(start)
     ELSE IF ~attribute.ok THEN Error
     ELSE Attributes[attribute.rest]

ExtractAttributes(text) ==
  LET start == ExtractAllLws(text)
      attribute == Attribute(start)
  IN IF text = <<>> THEN Error
     ELSE IF start = <<>> THEN Good(start)
     ELSE IF ~attribute.ok THEN Error
     ELSE Attributes[attribute.rest]

(* A parameter and its attributes: its name, and what comes next.          *)
Parameter(text) ==
  LET name == ExtractToken(text)
      next == ExtractAllLws(name.rest)
      With(attributes) ==
        [ok |-> name.ok /\ attributes.ok, name |-> name.value, rest |-> ExtractAllLws(attributes.rest)]
  IN With(IF Starts(next, ";") THEN ExtractAttributes(Tail(next)) ELSE Good(next))

(* What is left to parse, and the names so far.                            *)
Unparsed == [text : Chars, names : Seq(Chars)]

(* What follows a parameter other than a comma is not looked at.           *)
Parameters[list \in Unparsed] ==
  LET start == ExtractAllLws(list.text)
      After(parameter) ==
        LET all == Append(list.names, parameter.name)
        IN IF ~parameter.ok \/ parameter.rest = <<",">> THEN [ok |-> FALSE, names |-> <<>>]
           ELSE IF ~Starts(parameter.rest, ",") THEN [ok |-> TRUE, names |-> all]
           ELSE Parameters[[text |-> Tail(parameter.rest), names |-> all]]
  IN IF start = <<>> THEN [ok |-> TRUE, names |-> list.names] ELSE After(Parameter(start))

ParseParameterList(text) == Parameters[[text |-> text, names |-> <<>>]]
-----------------------------------------------------------------------------
DefaultPort == 80

(* atoi: what follows the digits does not matter.  No number has more       *)
(* digits than an int holds.                                               *)
Atoi(text) ==
  LET start == From(text, Span(text, IsWhitespace) + 1)
      sign == IF start # <<>> /\ start[1] \in {"+", "-"} THEN 1 ELSE 0
      digits == From(start, sign + 1)
      n == FoldLeft(LAMBDA m, c : 10 * m + Digits[c], 0, SubSeq(digits, 1, Span(digits, IsDigit)))
  IN IF Starts(start, "-") THEN -n ELSE n

PortOf(text) == IF text = <<>> THEN DefaultPort ELSE Atoi(text)

(* The last colon is before a port, unless it is part of an IPv6 literal.  *)
GetUriFromHost(text) ==
  LET colon == SelectLastInSeq(text, LAMBDA c : c = ":")
      sbrace == SelectLastInSeq(text, LAMBDA c : c = "]")
      port == PortOf(From(text, colon + 1))
  IN IF colon = 0 \/ sbrace > colon
       THEN [host |-> text, port |-> DefaultPort, valid |-> TRUE]
       ELSE [host |-> SubSeq(text, 1, colon - 1), port |-> port, valid |-> port \in 1 .. 65535]
=============================================================================
