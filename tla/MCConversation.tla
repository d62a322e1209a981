--------------------------- MODULE MCConversation ---------------------------
EXTENDS Conversation

Upgrade == <<<<"GET">>, <<"Host">>, <<"Handshake">>, <<>>>>

MCReady == <<"a">>
MCQuit == <<"a", "a">>
MCBye == <<"a", "a", "a">>
MCReason == <<"a">>

(* A request with these headers.                                           *)
R(method, words) == <<<<method>>>> \o [i \in DOMAIN words |-> <<words[i]>>] \o <<<<>>>>

Hybi00Request == R("GET", <<"Key2", "Connection", "Host", "Upgrade", "Key1">>)

(* The rest of a line.                                                     *)
Long(n) == [i \in 1 .. n |-> "x"]

Requests ==
  {<<<<"GET">>, <<"Host">>, <<>>>>, <<<<"Host">>, <<"GET">>, <<>>>>,
   <<<<"GET", "LF">>, <<"Handshake">>, <<>>>>, <<<<"GET">>, <<"Host">>, <<"CR", "x">>, <<>>>>,
   <<<<"GET">>, <<"Host", "CR", "x">>, <<"Handshake">>, <<>>>>,
   <<<<"GET">>, <<"Host">>, <<"Handshake">> \o Long(MaxHeader - 3), <<>>>>,
   <<<<"GET">>, <<"Host">>, <<"Handshake">> \o Long(MaxHeader - 2), <<>>>>,
   R("POST", <<"Host", "Handshake">>), R("GET1.0", <<"Handshake", "Host">>), R("x", <<"Host">>),
   R("GET", <<"Host", "Key", "Upgrade">>), R("GET", <<"Host", "TooLong">>), R("GET", <<"TooLong">>)}
    \cup {R("GET", <<"Host", "Upgrade", "Connection", v, k>>) :
            v \in DOMAIN Versions, k \in {"Key", "Key1"}}

F(op, fin, payload, key) ==
  [op |-> op, fin |-> fin, rsv |-> 0, masked |-> TRUE, long |-> Len(payload) > MaxBasic,
   payload |-> payload, key |-> key]

(* What may come first, and what must not.                                 *)
Frames1 ==
  {F("TEXT", TRUE, <<"a", "a", "lead", "cont">>, 1),
   F("TEXT", FALSE, <<"a", "lead">>, 1), F("TEXT", FALSE, <<>>, 1),
   F("BINARY", FALSE, <<"lead", "a", "a", "a">>, 1),
   F("PING", TRUE, <<"a">>, 1)}

Illegal ==
  {F("TEXT", TRUE, <<"lead">>, 1), F("CONTINUATION", TRUE, <<"a">>, 1), F("PING", FALSE, <<>>, 1),
   F("PONG", TRUE, <<"a", "a", "a", "a">>, 1), F("RESERVED", TRUE, <<>>, 1),
   [F("TEXT", TRUE, <<"a">>, 1) EXCEPT !.masked = FALSE],
   [F("TEXT", TRUE, <<"a">>, 1) EXCEPT !.long = TRUE],
   [F("TEXT", TRUE, <<"a">>, 1) EXCEPT !.rsv = 4]}

Frames2 ==
  {F("CONTINUATION", TRUE, <<"cont", "a">>, 2), F("CONTINUATION", FALSE, <<"cont", "lead">>, 2),
   F("CONTINUATION", FALSE, <<"a">>, 2), F("PING", TRUE, <<"lead", "a">>, 2),
   F("BINARY", TRUE, <<"a">>, 2), F("CONTINUATION", FALSE, <<>>, 2)}

Frames3 ==
  {F("CONTINUATION", TRUE, <<"cont">>, 3), F("CONTINUATION", TRUE, <<"a">>, 3),
   F("CONTINUATION", TRUE, <<>>, 3), F("CONTINUATION", TRUE, <<"a", "lead">>, 3)}

Frames00 ==
  {[op |-> o, payload |-> t] : o \in {"00", "JUNK"}, t \in {<<>>, MCReady, MCQuit, <<"lead", "a", "a">>}}

H(lines, body, frames, host, kind, list, readable, names) ==
  [lines |-> lines, body |-> body, frames |-> frames,
   values |-> [Host |-> host, Extensions |-> list, Subprotocols |-> list],
   meant |-> [host |-> kind, extensions |-> readable, subprotocols |-> names]]

S(lines, body, frames) == H(lines, body, frames, <<"x">>, "valid", <<>>, TRUE, <<>>)

(* Hosts, with and without a port.                                         *)
Hosts ==
  [valid |-> {<<"x", ":", "8">>, <<"x", ":">>, <<"x", "x", " ">>, <<" ", "x", ":", "6", "5", "5", "3", "5">>,
              <<"[", ":", ":", "]">>, <<"[", ":", ":", "]", ":", "8">>},
   invalid |-> {<<"x", ":", "0">>, <<"x", ":", "x">>, <<"x", ":", "-", "8">>, <<"x", ":", "6", "5", "5", "3", "6">>,
                <<"[", ":", ":", "]", ":", "0">>},
   none |-> {<<>>, <<" ", "TAB">>}]

HostStreams ==
  UNION {{H(R("GET", w), 0, <<>>, h, kind, <<>>, TRUE, <<>>) :
            h \in Hosts[kind], w \in {<<"Host", "Handshake">>, <<"Host">>}} : kind \in DOMAIN Hosts}

(* Lists of one and two parameters, with what may follow their names.      *)
Parameter1 ==
  {<<<<"x">>, <<"x">> \o a>> :
     a \in {<<>>, <<" ">>, <<";", "x">>, <<" ", ";", " ", "x", " ", "=", " ", "y">>,
            <<";", "x", "=", Quote, ",", ";", Quote>>, <<";", "x", "=", Quote, Backslash, Quote, ",", Quote>>,
            <<";", "x", ";", "y", "=", "x">>, <<";", "x", "=", "y", " ", ";", "y">>}}

Parameter2 == {<<<<"y", "x">>, <<"y", "x">> \o a>> : a \in {<<>>, <<";", "y", "=", Quote, Quote>>}}

Lists ==
  {<<<<>>, <<>>>>, <<<<>>, <<" ">>>>, <<<<<<"x">>>>, <<"x", " ", "y">>>>}
    \cup {<<<<p[1]>>, p[2]>> : p \in Parameter1}
    \cup {<<<<p[1], q[1]>>, p[2] \o sep \o q[2]>> :
            p \in Parameter1, q \in Parameter2, sep \in {<<",">>, <<",", "TAB">>}}

Unreadable ==
  {<<",">>, <<"x", ",">>, <<"x", ";">>, <<"x", ";", "x", "=">>, <<"=">>, <<"x", ",", ",", "x">>,
   <<"x", ";", ",", "x">>, <<"x", ";", "x", ";">>, <<"x", ";", "x", "=", Quote, "x">>,
   <<"x", ";", "x", "=", Quote, Backslash, Quote>>, <<"x", ";", "x", "=", ";">>}

ListStreams ==
  {H(R("GET", <<"Host", "Handshake", "Extensions", "Subprotocols">>), 0, <<>>, <<"x">>, "valid", l[2], TRUE, l[1]) :
     l \in Lists}
    \cup {H(R("GET", <<"Host", "Handshake", w>>), 0, <<>>, <<"x">>, "valid", l, FALSE, <<>>) :
            w \in {"Extensions", "Subprotocols"}, l \in Unreadable}
    \cup {H(R("GET", <<"Host", "Upgrade", "Connection", "Key1", "Key2", "Extensions", "Subprotocols">>), 2, <<>>,
            <<"x">>, "valid", <<",">>, FALSE, <<>>)}

MCCodes == {999, 1000, 1001, 1002, 1004, 1005, 1006, 1007, 1009, 1011, 1013, 1014, 1015, 1016,
            2999, 3000, 4999, 5000}

(* No dock, one dock, and one whose module has a garbled name.             *)
MCGreetings ==
  LET ident == Text(<<"a", "a", "a", "a">>)
      dock == [op |-> "BINARY", payload |-> <<"a", "lead", "a", "a">>]
      done == Text(<<"a", "a">>)
  IN {<<ident, done>>, <<ident, dock, Text(<<"a", "lead", "cont">>), done>>,
      <<ident, dock, Text(<<"a", "lead", "a">>), done>>}

Closes ==
  {F("CLOSE", TRUE, CodeBytes(c), 1) : c \in MCCodes}
    \cup {F("CLOSE", TRUE, CodeBytes(1000) \o <<r>>, 1) : r \in {"a", "lead", "cont"}}
    \cup {F("CLOSE", TRUE, <<"a">>, 1), F("CLOSE", TRUE, <<"a", "cont">>, 1)}

(* What may come in a conversation, and before and after its end.          *)
Talk ==
  {F("TEXT", TRUE, MCReady, 2), F("TEXT", TRUE, MCQuit, 2), F("PING", TRUE, <<"a", "lead", "a">>, 2),
   F("CLOSE", TRUE, <<>>, 2), F("CLOSE", TRUE, CodeBytes(1001), 2), F("CLOSE", TRUE, CodeBytes(1004), 2),
   F("RESERVED", TRUE, <<>>, 2)}

Ends ==
  {F("TEXT", TRUE, MCQuit, 1), F("PING", TRUE, <<"a">>, 1), F("CLOSE", TRUE, <<>>, 1)}

(* Requests, the longest of them longer than the limit, and what may come  *)
(* right after them: a body, the key of hybi00, frames.                    *)
MCRequests ==
  {S(r, 0, <<>>) : r \in Requests} \cup HostStreams \cup ListStreams
    \cup {S(Hybi00Request, n, <<>>) : n \in 0 .. 2}
    \cup {S(R("GET", <<"Host", "Upgrade", "Connection", "Key1">>), 2, <<>>)}
    \cup {S(Hybi00Request, 2, <<[op |-> "00", payload |-> MCReady]>>)}
    \cup {S(Upgrade, 0, <<F("TEXT", TRUE, MCReady, 1), F("TEXT", TRUE, <<"a", "a", "a">>, 2)>>)}
    \cup {S(R("POST", w), n, <<>>) :
            w \in {<<"Host", "Length">>, <<"Length", "Host", "Key", "Key1", "Key2">>}, n \in 0 .. BodyLength}

(* Frames, alone, in conversations and after a body.                       *)
MCFrames ==
  {S(Upgrade, 0, <<f, g, h>>) : f \in Frames1, g \in Frames2, h \in Frames3}
    \cup {S(Upgrade, 0, <<f, g>>) : f \in Illegal, g \in Frames3}
    \cup {S(Upgrade, 0, <<f>>) : f \in Closes}
    \cup {S(Hybi00Request, 2, <<f, g>>) : f \in Frames00, g \in Frames00}
    \cup {S(Upgrade, 0, <<f, g, h>>) : f \in Talk, g \in Talk, h \in Ends}
    \cup {S(<<<<"GET">>, <<"Host">>, <<"Length">>, <<"Handshake">>, <<>>>>, BodyLength, <<f>>) : f \in Frames1 \cup Illegal}

MCStreams == MCRequests \cup MCFrames

(* A text of three frames.                                                 *)
MCTexts ==
  {S(Upgrade, 0, <<F("TEXT", FALSE, <<"a">>, 1), F("CONTINUATION", FALSE, <<>>, 2), h>>) : h \in Frames3}

(* What these clients mean by their headers is what they say.              *)
ASSUME MCMeans == \A s \in Streams : Meant(s)
=============================================================================
