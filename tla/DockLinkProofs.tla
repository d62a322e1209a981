--------------------------- MODULE DockLinkProofs ---------------------------
(***************************************************************************)
(* Proofs about DockLink, for any docks, answers and number of commands.   *)
(***************************************************************************)
EXTENDS DockLink, SequenceTheorems, TLAPS

USE DEF vars, line, queue, dockside, channel
-----------------------------------------------------------------------------
(* Sequences of commands.                                                  *)

Numbers(n) == [i \in 1 .. n |-> i]

LEMMA NumbersSeq ==
  ASSUME NEW n \in Nat
  PROVE  Numbers(n) \in Seq(Nat) /\ Len(Numbers(n)) = n
  BY DEF Numbers

LEMMA NextNumber ==
  ASSUME NEW n \in 0 .. MaxCommands, n < MaxCommands
  PROVE  /\ n + 1 \in 0 .. MaxCommands /\ n + 1 \in 1 .. MaxCommands
         /\ Append(Numbers(n), n + 1) = Numbers(n + 1)
<1>1. n \in Nat /\ n + 1 \in 1 .. MaxCommands
  BY DockLinkAssumption
<1>2. Numbers(n) \in Seq(Nat) /\ Len(Numbers(n)) = n
  BY <1>1 DEF Numbers
<1>3. Numbers(n + 1) \in Seq(Nat) /\ Len(Numbers(n + 1)) = n + 1
  BY <1>1 DEF Numbers
<1>4. \A i \in 1 .. n + 1 : Append(Numbers(n), n + 1)[i] = Numbers(n + 1)[i]
  BY <1>1, <1>2, AppendProperties DEF Numbers
<1>5. Append(Numbers(n), n + 1) \in Seq(Nat) /\ Len(Append(Numbers(n), n + 1)) = n + 1
  BY <1>1, <1>2, AppendProperties
<1> QED
  BY <1>1, <1>3, <1>4, <1>5, SeqEqual

(* The first of the queue may be moved to the end of what is written, and  *)
(* a new command put behind it.                                            *)
LEMMA MoveHead ==
  ASSUME NEW S, NEW w \in Seq(S), NEW q \in Seq(S), q # <<>>
  PROVE  /\ Append(w, Head(q)) \in Seq(S) /\ Tail(q) \in Seq(S)
         /\ Append(w, Head(q)) \o Tail(q) = w \o q
<1>1. Head(q) \in S /\ Tail(q) \in Seq(S) /\ q = <<Head(q)>> \o Tail(q) /\ <<Head(q)>> \in Seq(S)
  <2>1. Head(q) \in S /\ Tail(q) \in Seq(S) /\ Len(Tail(q)) = Len(q) - 1
        /\ \A i \in 1 .. Len(Tail(q)) : Tail(q)[i] = q[i + 1]
    BY HeadTailProperties
  <2>2. <<Head(q)>> \in Seq(S) /\ Len(<<Head(q)>>) = 1 /\ <<Head(q)>>[1] = q[1]
    BY <2>1
  <2>3. Len(q) \in Nat /\ Len(q) > 0
    BY EmptySeq
  <2>4. /\ <<Head(q)>> \o Tail(q) \in Seq(S) /\ Len(<<Head(q)>> \o Tail(q)) = Len(q)
        /\ \A i \in 1 .. Len(q) :
             (<<Head(q)>> \o Tail(q))[i] = IF i <= 1 THEN <<Head(q)>>[i] ELSE Tail(q)[i - 1]
    BY <2>1, <2>2, <2>3, ConcatProperties
  <2>5. \A i \in 1 .. Len(q) : q[i] = (<<Head(q)>> \o Tail(q))[i]
    BY <2>1, <2>2, <2>3, <2>4
  <2> QED
    BY <2>1, <2>2, <2>4, <2>5, SeqEqual
<1>2. Append(w, Head(q)) = w \o <<Head(q)>> /\ Append(w, Head(q)) \in Seq(S)
  BY <1>1, AppendIsConcat, AppendProperties
<1>3. (w \o <<Head(q)>>) \o Tail(q) = w \o (<<Head(q)>> \o Tail(q))
  BY <1>1, ConcatAssociative
<1> QED
  BY <1>1, <1>2, <1>3

LEMMA AppendLast ==
  ASSUME NEW S, NEW w \in Seq(S), NEW q \in Seq(S), NEW e \in S
  PROVE  Append(q, e) \in Seq(S) /\ w \o Append(q, e) = Append(w \o q, e)
<1>1. <<e>> \in Seq(S) /\ Append(q, e) = q \o <<e>> /\ Append(q, e) \in Seq(S)
  BY AppendIsConcat, AppendProperties
<1>2. w \o (q \o <<e>>) = (w \o q) \o <<e>>
  BY <1>1, ConcatAssociative
<1>3. w \o q \in Seq(S)
  BY ConcatProperties
<1> QED
  BY <1>1, <1>2, <1>3, AppendIsConcat
-----------------------------------------------------------------------------
(* Types.                                                                  *)
Value == Docks \cup {"", "cut"}

Ident == [version : Value, serial : Value, user : Value, name : Value]

Fields == {"version", "serial", "user", "name"}

LineType ==
  /\ state \in {"Disconnected", "Connecting", "Connected"}
  /\ dock \in Docks \cup {"none"} /\ present \in BOOLEAN /\ told \in Answers \cup {<<>>}
  /\ at \in {"idle", "wait", "info", "write", "pop", "read", "line"}
  /\ info_lines \in 0 .. InfoLines
  /\ attempts \in 0 .. MaxAttempts
  /\ at = "info" => info_lines \in 1 .. InfoLines
  /\ at # "idle" => dock \in Docks
  /\ state = "Connected" => dock \in Docks

IdentType == ident \in Ident

FlagType == crashed \in BOOLEAN /\ cut \in BOOLEAN

QueueType ==
  /\ mutex \in BOOLEAN /\ (mutex <=> at \in {"write", "pop"})
  /\ posted \in 0 .. MaxCommands /\ asio \in {"idle", "waiting"}
  /\ command_queue \in Seq(1 .. MaxCommands) /\ written \in Seq(1 .. MaxCommands)
  /\ asio = "waiting" => posted < MaxCommands
  /\ at = "pop" => command_queue # <<>>

IInv == LineType /\ IdentType /\ FlagType /\ QueueType /\ Fifo

(* A character of a line.                                                  *)
Part == [k : Kinds, part : {1, 2}]

ChannelType ==
  /\ module_state \in {"ModuleConnected", "ModuleDisconnected"}
  /\ module_name \in Modules \cup {""}

ReadType == heard \in Seq(Kinds) /\ buffer \in Seq(Part)

LEMMA TypeGroups ==
  LineType /\ IdentType /\ FlagType /\ QueueType /\ ChannelType /\ ReadType => TypeOK
<1>1. IdentType => \A f \in DOMAIN ident : ident[f] \in Value
  <2>1. IdentType => DOMAIN ident = Fields /\ \A f \in Fields : ident[f] \in Value
    BY DEF IdentType, Ident, Fields
  <2> QED
    BY <2>1
<1>2. QueueType => mutex = (at \in {"write", "pop"})
  BY DEF QueueType
<1> QED
  BY <1>1, <1>2 DEF Value, LineType, FlagType, QueueType, ChannelType, ReadType, TypeOK

LEMMA Counters ==
  /\ \A n \in 0 .. MaxAttempts : n < MaxAttempts => n + 1 \in 0 .. MaxAttempts
  /\ InfoLines \in 1 .. InfoLines /\ InfoLines \in 0 .. InfoLines /\ 0 \in 0 .. InfoLines
  /\ \A n \in 1 .. InfoLines : n - 1 \in 0 .. InfoLines /\ (n > 1 => n - 1 \in 1 .. InfoLines)
  /\ 0 \in 0 .. MaxCommands /\ 0 \in 0 .. MaxAttempts
  BY DockLinkAssumption DEF InfoLines

LEMMA IdentRecords ==
  /\ \A i \in Ident :
       /\ [i EXCEPT !.version = "", !.user = "", !.name = ""] \in Ident
       /\ \A u, n \in Value :
            [i EXCEPT !.user = u, !.name = n] \in Ident
  /\ \A v, s, u, n \in Value :
       [version |-> v, serial |-> s, user |-> u, name |-> n] \in Ident
<1>1. \A i \in Ident : [i EXCEPT !.version = "", !.user = "", !.name = ""] \in Ident
  BY DEF Ident, Value
<1>2. \A i \in Ident : \A u, n \in Value : [i EXCEPT !.user = u, !.name = n] \in Ident
  BY DEF Ident
<1>3. \A v, s, u, n \in Value : [version |-> v, serial |-> s, user |-> u, name |-> n] \in Ident
  BY DEF Ident
<1> QED
  BY <1>1, <1>2, <1>3

LEMMA ValuesTypes ==
  ASSUME IdentType, dock \in Docks, NEW l, NEW f \in Fields
  PROVE  Values(l, f) \subseteq Value
<1>1. ident[f] \in Value
  BY DEF IdentType, Ident, Fields
<1> QED
  BY <1>1 DEF Values, Value

LEMMA LineTypeStep ==
  ASSUME LineType, Next
  PROVE  LineType'
<1> USE Counters DEF LineType
<1>1. ASSUME Unplug
      PROVE  LineType'
  BY <1>1 DEF Unplug
<1>2. ASSUME NEW d \in Docks, NEW a \in Answers, SetPort(d, a)
      PROVE  LineType'
  BY <1>2 DEF SetPort
<1>3. ASSUME ReadCharacter
      PROVE  LineType'
  BY <1>3 DEF ReadCharacter
<1>4. ASSUME WaitFor
      PROVE  LineType'
  <2>1. CASE Whole(buffer, "ready")
    BY <1>4, <2>1 DEF WaitFor
  <2>2. CASE ~Whole(buffer, "ready")
    BY <1>4, <2>2 DEF WaitFor, Failed
  <2> QED
    BY <2>1, <2>2
<1>5. ASSUME VersionInfo
      PROVE  LineType'
  <2>1. info_lines' = info_lines - 1 /\ at = "info" /\ UNCHANGED dockside
    BY <1>5 DEF VersionInfo
  <2>2. CASE info_lines > 1
    BY <1>5, <2>1, <2>2 DEF VersionInfo
  <2>3. CASE ~(info_lines > 1)
    BY <1>5, <2>1, <2>3 DEF VersionInfo, Failed
  <2> QED
    BY <2>2, <2>3
<1>6. ASSUME Disconnect
      PROVE  LineType'
  BY <1>6 DEF Disconnect
<1>7. ASSUME Tick
      PROVE  LineType'
  BY <1>7 DEF Tick, Lock, Write, Pop, Unlock, InputWaiting, NoInputWaiting, ProcessCommand,
       ProcessLine
<1>8. ASSUME QueueCommand \/ Push
      PROVE  LineType'
  BY <1>8 DEF QueueCommand, Push
<1> QED
  BY <1>1, <1>2, <1>3, <1>4, <1>5, <1>6, <1>7, <1>8 DEF Next, Handshake

LEMMA IdentTypeStep ==
  ASSUME LineType, IdentType, Next
  PROVE  IdentType'
<1>1. ASSUME NEW d \in Docks, NEW a \in Answers, SetPort(d, a)
      PROVE  IdentType'
  BY <1>1, IdentRecords DEF SetPort, IdentType
<1>2. ASSUME VersionInfo
      PROVE  IdentType'
  <2>1. PICK v \in Values(buffer, "version"), s \in Values(buffer, "serial"),
             u \in Values(buffer, "user"), n \in Values(buffer, "name") :
               ident' = [version |-> v, serial |-> s, user |-> u, name |-> n]
    BY <1>2 DEF VersionInfo
  <2>2. dock \in Docks
    BY <1>2 DEF VersionInfo, LineType
  <2>3. v \in Value /\ s \in Value /\ u \in Value /\ n \in Value
    BY <2>2, ValuesTypes DEF Fields
  <2> QED
    BY <2>1, <2>3, IdentRecords DEF IdentType
<1>3. ASSUME ProcessCommand
      PROVE  IdentType'
  <2>1. PICK u \in Values(buffer, "user"), n \in Values(buffer, "name") :
               ident' = [ident EXCEPT !.user = u, !.name = n]
    BY <1>3 DEF ProcessCommand
  <2>2. dock \in Docks
    BY <1>3 DEF ProcessCommand, ProcessLine, LineType
  <2>3. u \in Value /\ n \in Value
    BY <2>2, ValuesTypes DEF Fields
  <2> QED
    BY <2>1, <2>3, IdentRecords DEF IdentType
<1>4. ASSUME UNCHANGED ident
      PROVE  IdentType'
  BY <1>4 DEF IdentType
<1>5. \/ \E d \in Docks, a \in Answers : SetPort(d, a)
      \/ VersionInfo \/ ProcessCommand \/ UNCHANGED ident
  BY DEF Next, Unplug, Handshake, ReadCharacter, WaitFor, Disconnect, Tick, Lock, Write, Pop, Unlock,
         InputWaiting, NoInputWaiting, QueueCommand, Push
<1> QED
  BY <1>1, <1>2, <1>3, <1>4, <1>5

LEMMA FlagTypeStep ==
  ASSUME FlagType, Next
  PROVE  FlagType'
<1>1. cut' \in BOOLEAN
  <2>1. cut' = cut \/ cut' = FALSE \/ cut' = (cut \/ buffer # <<>>)
    BY DEF Next, Unplug, SetPort, Handshake, ReadCharacter, WaitFor, VersionInfo, LineEnds, Pause,
           Disconnect, Tick, Lock, Write, Pop, Unlock, InputWaiting, NoInputWaiting, ProcessCommand,
           ProcessLine, QueueCommand, Push
  <2> QED
    BY <2>1, Zenon DEF FlagType
<1>2. crashed' \in BOOLEAN
  <2>1. CASE ProcessCommand
    <3>1. crashed' \in Throws(buffer)
      BY <2>1 DEF ProcessCommand, ProcessLine
    <3> QED
      BY <3>1 DEF Throws
  <2>2. CASE crashed' = crashed
    BY <2>2 DEF FlagType
  <2>3. ProcessCommand \/ crashed' = crashed
    BY DEF Next, Unplug, SetPort, Handshake, ReadCharacter, WaitFor, VersionInfo,
           Disconnect, Tick, Lock, Write, Pop, Unlock, InputWaiting, NoInputWaiting,
           QueueCommand, Push
  <2> QED
    BY <2>1, <2>2, <2>3
<1> QED
  BY <1>1, <1>2 DEF FlagType
-----------------------------------------------------------------------------
(* The queue: tick() takes from its head while it has the mutex, and       *)
(* queue_command puts at its end when it has it.                           *)
LEMMA QueueStep ==
  ASSUME QueueType, Fifo, Next
  PROVE  QueueType' /\ Fifo'
<1> USE DEF QueueType, Fifo
<1>1. ASSUME Write
      PROVE  QueueType' /\ Fifo'
  <2>1. /\ written' = Append(written, Head(command_queue)) /\ at' = "pop" /\ at = "write"
        /\ command_queue # <<>> /\ UNCHANGED <<mutex, command_queue, posted, asio>>
    BY <1>1 DEF Write
  <2>2. written' \in Seq(1 .. MaxCommands) /\ written' \o Tail(command_queue) = written \o command_queue
    <3>1. /\ Append(written, Head(command_queue)) \in Seq(1 .. MaxCommands)
          /\ Append(written, Head(command_queue)) \o Tail(command_queue) = written \o command_queue
      <4>1. command_queue # <<>> /\ written \in Seq(1 .. MaxCommands) /\ command_queue \in Seq(1 .. MaxCommands)
        BY <2>1
      <4> HIDE DEF QueueType, Fifo
      <4> QED
        BY <4>1, MoveHead
    <3> QED
      BY <2>1, <3>1
  <2> QED
    BY <2>1, <2>2
<1>2. ASSUME Pop
      PROVE  QueueType' /\ Fifo'
  <2>1. /\ command_queue' = Tail(command_queue) /\ at = "pop" /\ at' = "write"
        /\ UNCHANGED <<mutex, written, posted, asio>>
    BY <1>2 DEF Pop
  <2>2. command_queue' \in Seq(1 .. MaxCommands)
    BY <2>1, HeadTailProperties
  <2> QED
    BY <2>1, <2>2
<1>3. ASSUME Push
      PROVE  QueueType' /\ Fifo'
  <2>1. /\ posted < MaxCommands /\ at \notin {"write", "pop"}
        /\ posted' = posted + 1 /\ command_queue' = Append(command_queue, posted + 1)
        /\ asio' = "idle" /\ UNCHANGED <<mutex, written, at>>
    BY <1>3 DEF Push
  <2>2. /\ posted + 1 \in 0 .. MaxCommands /\ posted + 1 \in 1 .. MaxCommands
        /\ Append(Numbers(posted), posted + 1) = Numbers(posted + 1)
    BY <2>1, NextNumber
  <2>3. /\ Append(command_queue, posted + 1) \in Seq(1 .. MaxCommands)
        /\ written \o Append(command_queue, posted + 1) = Append(written \o command_queue, posted + 1)
    BY <2>2, AppendLast
  <2>4. written \o command_queue = Numbers(posted)
    BY <2>1 DEF Numbers
  <2>5. written' \o command_queue' = Numbers(posted')
    BY <2>1, <2>2, <2>3, <2>4
  <2> QED
    BY <2>1, <2>2, <2>3, <2>5 DEF Numbers
<1>4. ASSUME QueueCommand
      PROVE  QueueType' /\ Fifo'
  BY <1>4 DEF QueueCommand
<1>5. ASSUME Lock \/ Unlock
      PROVE  QueueType' /\ Fifo'
  BY <1>5 DEF Lock, Unlock
<1>6. ASSUME UNCHANGED <<queue, asio>>, at \notin {"write", "pop"}, at' \notin {"write", "pop"}
      PROVE  QueueType' /\ Fifo'
  BY <1>6
<1>7. ASSUME UNCHANGED <<queue, asio, at>>
      PROVE  QueueType' /\ Fifo'
  BY <1>7
<1>8. \/ Write \/ Pop \/ Push \/ QueueCommand \/ Lock \/ Unlock
      \/ UNCHANGED <<queue, asio>> /\ at \notin {"write", "pop"} /\ at' \notin {"write", "pop"}
      \/ UNCHANGED <<queue, asio, at>>
  BY DEF Next, Unplug, SetPort, Handshake, ReadCharacter, WaitFor, VersionInfo, Failed, Reading,
         Disconnect, Tick, InputWaiting, NoInputWaiting, ProcessCommand, ProcessLine
<1> QED
  BY <1>1, <1>2, <1>3, <1>4, <1>5, <1>6, <1>7, <1>8
-----------------------------------------------------------------------------
LEMMA IInvInit ==
  ASSUME Init
  PROVE  IInv
<1> USE Counters DEF Init
<1>1. LineType /\ FlagType
  BY DEF LineType, FlagType
<1>2. IdentType
  BY DEF IdentType, Ident, Value
<1>3. QueueType
  BY EmptySeq DEF QueueType
<1>4. Fifo
  <2>1. <<>> \o <<>> = <<>>
    BY EmptySeq, ConcatEmptySeq
  <2>2. Numbers(0) = <<>>
    <3>1. Numbers(0) \in Seq(Nat) /\ Len(Numbers(0)) = 0
      BY NumbersSeq
    <3> QED
      BY <3>1, EmptySeq
  <2> QED
    BY <2>1, <2>2 DEF Fifo, Numbers
<1> QED
  BY <1>1, <1>2, <1>3, <1>4 DEF IInv

LEMMA IInvStep ==
  ASSUME IInv, [Next]_vars
  PROVE  IInv'
<1>1. CASE UNCHANGED vars
  <2>1. LineType' /\ IdentType' /\ FlagType'
    BY <1>1 DEF IInv, LineType, IdentType, FlagType
  <2>2. QueueType'
    BY <1>1 DEF IInv, QueueType
  <2>3. Fifo'
    BY <1>1 DEF IInv, Fifo
  <2> QED
    BY <2>1, <2>2, <2>3 DEF IInv
<1>2. CASE Next
  BY <1>2, LineTypeStep, IdentTypeStep, FlagTypeStep, QueueStep DEF IInv
<1> QED
  BY <1>1, <1>2

LEMMA IInvAlways == Spec => []IInv
  BY IInvInit, IInvStep, PTL DEF Spec

(* Commands are written once each and in order, however the asio thread's  *)
(* queue_command meets the writing, and whatever becomes of the dock.      *)
THEOREM CommandsInOrder == Spec => []Fifo
<1>1. IInv => Fifo
  BY DEF IInv
<1> QED
  BY <1>1, IInvAlways, PTL
-----------------------------------------------------------------------------
(* What is read: where in the lines it was told to send the dock is.       *)

Character == [k : Kinds, part : {1, 2}] \cup {Newline}

First(k) == [k |-> k, part |-> 1]

Second(k) == [k |-> k, part |-> 2]

(* Characters that are the end of a sequence of whole lines.               *)
Shaped(q) ==
  /\ q \in Seq(Character)
  /\ \A i \in 1 .. Len(q) :
       /\ q[i].part = 1 => i + 1 <= Len(q) /\ q[i + 1] = Second(q[i].k)
       /\ q[i].part = 2 => i + 1 <= Len(q) /\ q[i + 1] = Newline
       /\ q[i] = Newline /\ i + 1 <= Len(q) => q[i + 1].part = 1

(* The place in Characters(told) of the character that is read next: not a *)
(* positive one as long as something of an earlier attempt is to come.     *)
Place == 3 * Len(told) + 1 - Len(coming)

(* The banner has been seen; the lines that follow are understood.         *)
InStep == at = "info" \/ state = "Connected"

Coming == Shaped(coming)

ComingTold ==
  present => \A i \in 1 .. Len(coming) :
               i + Place - 1 >= 1 => coming[i] = Characters(told)[i + Place - 1]

Ticking ==
  /\ at \in {"write", "pop", "read", "line"} => state = "Connected"
  /\ at \in {"idle", "write", "pop", "read"} /\ state = "Connected" => buffer = <<>>
  /\ at = "line" /\ buffer = <<>> /\ present => coming # <<>>
  /\ at \in {"wait", "info"} => state = "Connecting"
  /\ at = "wait" => ~cut

(* Unless a line was cut, or the dock is gone, lines are read whole ...    *)
Uncut ==
  InStep /\ ~cut /\ present =>
    \/ buffer = <<>> /\ (coming # <<>> => coming[1].part = 1)
    \/ \E k \in Kinds :
         /\ coming # <<>>
         /\ \/ buffer = <<First(k)>> /\ coming[1] = Second(k)
            \/ buffer = <<First(k), Second(k)>> /\ coming[1] = Newline

(* ... those of this attempt from its first one, whose part in the buffer  *)
(* is that before the place ...                                            *)
Following ==
  state # "Disconnected" /\ ~cut /\ present /\ Place >= 1 =>
    \/ \E i \in 1 .. Len(told) + 1 : Place = 3 * i - 2 /\ buffer = <<>>
    \/ \E i \in 1 .. Len(told) : Place = 3 * i - 1 /\ buffer = <<First(told[i])>>
    \/ \E i \in 1 .. Len(told) : Place = 3 * i /\ buffer = <<First(told[i]), Second(told[i])>>

(* ... the banner has not been passed over while it is waited for ...      *)
Waiting ==
  at = "wait" /\ present =>
    \A i \in 1 .. Len(told) : told[i] = "ready" => Place <= 3 * i

(* ... and what has been read behind it is known.                          *)
Known ==
  InStep /\ ~cut /\ present =>
    \A i, j \in 1 .. Len(told) :
      i < j /\ told[i] = "ready" /\ told[j] \in {"user", "name"} /\ Place > 3 * j
        => ident[told[j]] = dock

(* The channel has a module only while the dock is connected: the one that *)
(* a line found that process_command has got since, and none has lost.     *)
Modular ==
  /\ state # "Connected" => module_state = "ModuleDisconnected"
  /\ state = "Connected" /\ ~cut /\ present =>
       IF module_state = "ModuleConnected"
         THEN \E c \in 1 .. Len(heard) : Finds(heard, c, module_name) /\ module_name \in Modules
         ELSE \A c \in 1 .. Len(heard) :
                heard[c] \in {"c_short", "c_long"} => \E d \in c + 1 .. Len(heard) : heard[d] = "d"

LineIInv ==
  /\ IInv /\ Coming /\ ComingTold /\ Ticking /\ Uncut /\ Following /\ Waiting /\ Known
  /\ ChannelType /\ ReadType /\ Modular

-----------------------------------------------------------------------------
(* The characters of whole lines.                                          *)
LEMMA Thirds ==
  ASSUME NEW n \in Nat, NEW p \in 1 .. 3 * n
  PROVE  \E i \in 1 .. n : \/ p = 3 * i - 2 /\ p % 3 = 1 /\ (p + 2) \div 3 = i
                           \/ p = 3 * i - 1 /\ p % 3 = 2 /\ (p + 2) \div 3 = i
                           \/ p = 3 * i /\ p % 3 = 0
  OBVIOUS

LEMMA CharacterParts ==
  /\ \A c \in Character : c.part \in {0, 1, 2} /\ (c.part = 0 <=> c = Newline)
  /\ \A c \in Character : c # Newline => c.k \in Kinds /\ c = [k |-> c.k, part |-> c.part]
  /\ \A k : First(k).part = 1 /\ First(k).k = k /\ Second(k).part = 2 /\ Second(k).k = k
  /\ Newline.part = 0 /\ Newline \in Character
  /\ \A k \in Kinds : First(k) \in Character /\ Second(k) \in Character
  BY DEF Character, Newline, First, Second

LEMMA LineCharacters ==
  ASSUME NEW a \in Seq(Kinds)
  PROVE  /\ Characters(a) \in Seq(Character) /\ Len(Characters(a)) = 3 * Len(a)
         /\ \A i \in 1 .. Len(a) :
              /\ a[i] \in Kinds
              /\ Characters(a)[3 * i - 2] = First(a[i])
              /\ Characters(a)[3 * i - 1] = Second(a[i])
              /\ Characters(a)[3 * i] = Newline
         /\ \A p \in 1 .. 3 * Len(a) :
              \E i \in 1 .. Len(a) : p = 3 * i - 2 \/ p = 3 * i - 1 \/ p = 3 * i
<1>1. Len(a) \in Nat /\ \A i \in 1 .. Len(a) : a[i] \in Kinds
  OBVIOUS
<1>2. ASSUME NEW i \in 1 .. Len(a)
      PROVE  /\ a[i] \in Kinds
             /\ Characters(a)[3 * i - 2] = First(a[i])
             /\ Characters(a)[3 * i - 1] = Second(a[i])
             /\ Characters(a)[3 * i] = Newline
  <2>1. /\ 3 * i - 2 \in 1 .. 3 * Len(a) /\ (3 * i - 2) % 3 = 1 /\ (3 * i - 2 + 2) \div 3 = i
        /\ 3 * i - 1 \in 1 .. 3 * Len(a) /\ (3 * i - 1) % 3 = 2 /\ (3 * i - 1 + 2) \div 3 = i
        /\ 3 * i \in 1 .. 3 * Len(a) /\ (3 * i) % 3 = 0
    BY <1>1
  <2> QED
    BY <1>1, <2>1 DEF Characters, First, Second
<1>3. \A p \in 1 .. 3 * Len(a) :
        \E i \in 1 .. Len(a) : p = 3 * i - 2 \/ p = 3 * i - 1 \/ p = 3 * i
  BY <1>1, Thirds
<1>4. Characters(a) \in Seq(Character) /\ Len(Characters(a)) = 3 * Len(a)
  <2>1. ASSUME NEW p \in 1 .. 3 * Len(a)
        PROVE  Characters(a)[p] \in Character
    <3>1. PICK i \in 1 .. Len(a) : p = 3 * i - 2 \/ p = 3 * i - 1 \/ p = 3 * i
      BY <1>3
    <3> QED
      BY <1>2, <3>1, CharacterParts
  <2>2. 3 * Len(a) \in Nat
    BY <1>1
  <2>3. Characters(a) = [p \in 1 .. 3 * Len(a) |-> Characters(a)[p]]
    BY DEF Characters
  <2> QED
    BY <2>1, <2>2, <2>3
<1> QED
  BY <1>2, <1>3, <1>4

LEMMA CharactersShaped ==
  ASSUME NEW a \in Seq(Kinds)
  PROVE  /\ Shaped(Characters(a))
         /\ Len(Characters(a)) > 0 => Characters(a)[1].part = 1
<1>1. Len(a) \in Nat
  OBVIOUS
<1>2. ASSUME NEW p \in 1 .. 3 * Len(a)
      PROVE  LET q == Characters(a)
             IN /\ q[p].part = 1 => p + 1 <= 3 * Len(a) /\ q[p + 1] = Second(q[p].k)
                /\ q[p].part = 2 => p + 1 <= 3 * Len(a) /\ q[p + 1] = Newline
                /\ q[p] = Newline /\ p + 1 <= 3 * Len(a) => q[p + 1].part = 1
  <2>1. PICK i \in 1 .. Len(a) : p = 3 * i - 2 \/ p = 3 * i - 1 \/ p = 3 * i
    BY LineCharacters
  <2>2. CASE p = 3 * i - 2
    <3>1. p + 1 = 3 * i - 1 /\ p + 1 <= 3 * Len(a)
      BY <1>1, <2>2
    <3>2. Characters(a)[p] = First(a[i]) /\ Characters(a)[p + 1] = Second(a[i])
      BY <3>1, <2>2, LineCharacters
    <3>3. Characters(a)[p].part = 1 /\ Characters(a)[p].k = a[i] /\ Characters(a)[p] # Newline
      BY ONLY <3>2, CharacterParts
    <3> QED
      BY ONLY <3>1, <3>2, <3>3
  <2>3. CASE p = 3 * i - 1
    <3>1. p + 1 = 3 * i /\ p + 1 <= 3 * Len(a)
      BY <1>1, <2>3
    <3>2. Characters(a)[p] = Second(a[i]) /\ Characters(a)[p + 1] = Newline
      BY <3>1, <2>3, LineCharacters
    <3>3. Characters(a)[p].part = 2 /\ Characters(a)[p] # Newline
      BY ONLY <3>2, CharacterParts
    <3> QED
      BY ONLY <3>1, <3>2, <3>3
  <2>4. CASE p = 3 * i
    <3>1. p + 1 <= 3 * Len(a) => i + 1 \in 1 .. Len(a) /\ 3 * (i + 1) - 2 = p + 1
      BY <1>1, <2>4
    <3>2. Characters(a)[p] = Newline
      BY <2>4, LineCharacters
    <3>3. p + 1 <= 3 * Len(a) => Characters(a)[p + 1] = First(a[i + 1])
      BY <3>1, LineCharacters
    <3> QED
      BY <3>2, <3>3, CharacterParts
  <2> QED
    BY <2>1, <2>2, <2>3, <2>4
<1>3. Len(Characters(a)) > 0 => Characters(a)[1].part = 1
  <2>1. Len(Characters(a)) > 0 => 1 \in 1 .. Len(a) /\ 3 * 1 - 2 = 1
    BY <1>1, LineCharacters
  <2>2. Len(Characters(a)) > 0 => Characters(a)[3 * 1 - 2] = First(a[1])
    BY <2>1, LineCharacters
  <2>3. 3 * 1 - 2 = 1
    OBVIOUS
  <2> QED
    BY <2>2, <2>3, CharacterParts
<1> QED
  BY <1>2, <1>3, LineCharacters DEF Shaped

LEMMA ShapedTail ==
  ASSUME NEW q, Shaped(q), q # <<>>
  PROVE  /\ Shaped(Tail(q))
         /\ q \in Seq(Character) /\ Len(q) \in Nat /\ Len(q) > 0
         /\ Head(q) = q[1] /\ Head(q) \in Character
         /\ Len(Tail(q)) = Len(q) - 1
         /\ \A i \in 1 .. Len(Tail(q)) : Tail(q)[i] = q[i + 1]
<1>1. /\ q \in Seq(Character) /\ Len(q) \in Nat /\ Len(q) > 0
      /\ Head(q) = q[1] /\ Head(q) \in Character
      /\ Tail(q) \in Seq(Character) /\ Len(Tail(q)) = Len(q) - 1
      /\ \A i \in 1 .. Len(Tail(q)) : Tail(q)[i] = q[i + 1]
  BY HeadTailProperties, EmptySeq DEF Shaped
<1>2. ASSUME NEW i \in 1 .. Len(Tail(q))
      PROVE  LET t == Tail(q)
             IN /\ t[i].part = 1 => i + 1 <= Len(t) /\ t[i + 1] = Second(t[i].k)
                /\ t[i].part = 2 => i + 1 <= Len(t) /\ t[i + 1] = Newline
                /\ t[i] = Newline /\ i + 1 <= Len(t) => t[i + 1].part = 1
  <2>1. i + 1 \in 1 .. Len(q) /\ Tail(q)[i] = q[i + 1]
    BY <1>1
  <2>2. i + 1 + 1 <= Len(q) => i + 1 \in 1 .. Len(Tail(q)) /\ Tail(q)[i + 1] = q[i + 1 + 1]
    BY <1>1
  <2>3. i + 1 <= Len(Tail(q)) <=> i + 1 + 1 <= Len(q)
    BY <1>1
  <2> QED
    BY <2>1, <2>2, <2>3 DEF Shaped
<1> QED
  BY <1>1, <1>2 DEF Shaped

LEMMA ShapedConcat ==
  ASSUME NEW p, NEW q, Shaped(p), Shaped(q), Len(q) > 0 => q[1].part = 1
  PROVE  /\ Shaped(p \o q)
         /\ Len(p \o q) = Len(p) + Len(q) /\ Len(p) \in Nat /\ Len(q) \in Nat
         /\ \A i \in 1 .. Len(p) + Len(q) :
              (p \o q)[i] = IF i <= Len(p) THEN p[i] ELSE q[i - Len(p)]
<1> DEFINE r == p \o q
<1>1. /\ r \in Seq(Character) /\ Len(r) = Len(p) + Len(q) /\ Len(p) \in Nat /\ Len(q) \in Nat
      /\ \A i \in 1 .. Len(p) + Len(q) : r[i] = IF i <= Len(p) THEN p[i] ELSE q[i - Len(p)]
  BY ConcatProperties DEF Shaped
<1>2. ASSUME NEW i \in 1 .. Len(r)
      PROVE  /\ r[i].part = 1 => i + 1 <= Len(r) /\ r[i + 1] = Second(r[i].k)
             /\ r[i].part = 2 => i + 1 <= Len(r) /\ r[i + 1] = Newline
             /\ r[i] = Newline /\ i + 1 <= Len(r) => r[i + 1].part = 1
  <2> HIDE DEF r
  <2>1. CASE i < Len(p)
    <3>1. i \in 1 .. Len(p) /\ r[i] = p[i] /\ r[i + 1] = p[i + 1] /\ i + 1 <= Len(p) /\ i + 1 <= Len(r)
      BY <1>1, <2>1
    <3> QED
      BY <3>1 DEF Shaped
  <2>2. CASE i = Len(p)
    <3>1. i \in 1 .. Len(p) /\ r[i] = p[i] /\ ~(i + 1 <= Len(p))
      BY <1>1, <2>2
    <3>2. i + 1 <= Len(r) => Len(q) > 0 /\ r[i + 1] = q[1]
      BY <1>1, <2>2
    <3> QED
      BY <3>1, <3>2 DEF Shaped
  <2>3. CASE i > Len(p)
    <3>1. i - Len(p) \in 1 .. Len(q) /\ r[i] = q[i - Len(p)]
      BY <1>1, <2>3
    <3>2. i + 1 <= Len(r) <=> (i - Len(p)) + 1 <= Len(q)
      BY <1>1
    <3>3. i + 1 <= Len(r) => r[i + 1] = q[(i - Len(p)) + 1]
      BY <1>1, <2>3
    <3> QED
      BY <3>1, <3>2, <3>3 DEF Shaped
  <2> QED
    BY <1>1, <2>1, <2>2, <2>3
<1> QED
  BY <1>1, <1>2 DEF Shaped

LEMMA ShapedEmpty == Shaped(<<>>)
  BY EmptySeq DEF Shaped
-----------------------------------------------------------------------------
(* What a step does to the line.                                           *)
LEMMA Moves ==
  ASSUME Next
  PROVE  \/ \E d \in Docks, a \in Answers : SetPort(d, a)
         \/ Unplug
         \/ ReadCharacter
         \/ (WaitFor \/ VersionInfo \/ ProcessCommand) /\ LineEnds
         \/ (WaitFor \/ VersionInfo \/ ProcessCommand) /\ Pause
         \/ /\ UNCHANGED <<line, dockside, cut, ident>>
            /\ Disconnect \/ Lock \/ Write \/ Pop \/ Unlock \/ InputWaiting \/ NoInputWaiting
               \/ QueueCommand \/ Push
  BY DEF Next, Handshake, Tick, WaitFor, VersionInfo, ProcessCommand, ProcessLine, Disconnect, Lock,
         Write, Pop, Unlock, InputWaiting, NoInputWaiting, QueueCommand, Push

LEMMA StepFrame ==
  ASSUME WaitFor \/ VersionInfo \/ ProcessCommand
  PROVE  /\ UNCHANGED <<dock, present, told>>
         /\ at \in {"wait", "info", "line"}
         /\ state' = "Disconnected" \/ state' = state \/ (at = "info" /\ state' = "Connected")
  BY DEF WaitFor, VersionInfo, ProcessCommand, ProcessLine, Failed

LEMMA ToldSeq ==
  ASSUME LineType
  PROVE  told \in Seq(Kinds) /\ Len(told) \in Nat
<1>1. told \in Seq(Kinds)
  BY AnswerAssumption, EmptySeq DEF LineType
<1> QED
  BY <1>1

LEMMA SetPortComing ==
  ASSUME Coming, NEW d \in Docks, NEW a \in Answers, SetPort(d, a)
  PROVE  \E p : /\ Shaped(p) /\ coming' = p \o Characters(a) /\ told' = a /\ a \in Seq(Kinds)
                /\ Shaped(coming') /\ Len(coming') = Len(p) + 3 * Len(a)
                /\ Len(p) \in Nat /\ Len(a) \in Nat
                /\ \A i \in 1 .. Len(coming') :
                     coming'[i] = IF i <= Len(p) THEN p[i] ELSE Characters(a)[i - Len(p)]
<1> DEFINE p == IF d = dock THEN coming ELSE <<>>
<1>1. Shaped(p) /\ coming' = p \o Characters(a) /\ told' = a /\ a \in Seq(Kinds) /\ Len(a) \in Nat
  BY ShapedEmpty, AnswerAssumption DEF SetPort, Coming
<1>2. Shaped(Characters(a)) /\ (Len(Characters(a)) > 0 => Characters(a)[1].part = 1)
      /\ Len(Characters(a)) = 3 * Len(a)
  BY <1>1, CharactersShaped, LineCharacters
<1>3. /\ Shaped(p \o Characters(a)) /\ Len(p) \in Nat
      /\ Len(p \o Characters(a)) = Len(p) + 3 * Len(a)
      /\ \A i \in 1 .. Len(p) + 3 * Len(a) :
           (p \o Characters(a))[i] = IF i <= Len(p) THEN p[i] ELSE Characters(a)[i - Len(p)]
  <2> HIDE DEF p
  <2> QED
    BY <1>1, <1>2, ShapedConcat
<1> HIDE DEF p
<1> WITNESS p
<1> QED
  BY <1>1, <1>3

LEMMA ComingStep ==
  ASSUME Coming, Next
  PROVE  Coming'
<1>1. ASSUME NEW d \in Docks, NEW a \in Answers, SetPort(d, a)
      PROVE  Coming'
  BY <1>1, SetPortComing DEF Coming
<1>2. CASE Unplug
  BY <1>2, ShapedEmpty DEF Unplug, Coming
<1>3. CASE ReadCharacter \/ LineEnds
  BY <1>3, ShapedTail DEF ReadCharacter, LineEnds, Coming
<1>4. CASE Pause \/ UNCHANGED line
  BY <1>4 DEF Pause, Coming
<1> QED
  BY <1>1, <1>2, <1>3, <1>4, Moves

LEMMA PlaceStep ==
  ASSUME LineType, Coming, ComingTold, ReadCharacter \/ LineEnds, UNCHANGED told
  PROVE  /\ coming # <<>> /\ Head(coming) = coming[1] /\ 1 \in 1 .. Len(coming)
         /\ Len(coming) \in Nat /\ Len(told) \in Nat /\ Place \in Int
         /\ coming' = Tail(coming) /\ Len(coming') = Len(coming) - 1
         /\ \A i \in 1 .. Len(coming') : coming'[i] = coming[i + 1] /\ i + 1 \in 1 .. Len(coming)
         /\ Place' = Place + 1
         /\ present /\ Place >= 1 => coming[1] = Characters(told)[Place]
<1>1. coming # <<>> /\ coming' = Tail(coming)
  BY DEF ReadCharacter, LineEnds
<1>2. /\ Len(coming) \in Nat /\ Len(coming) > 0 /\ Head(coming) = coming[1]
      /\ Len(coming') = Len(coming) - 1
      /\ \A i \in 1 .. Len(coming') : coming'[i] = coming[i + 1]
  BY <1>1, ShapedTail DEF Coming
<1>3. Len(told) \in Nat /\ Place \in Int /\ Place' = Place + 1
  BY <1>2, ToldSeq DEF Place
<1>4. present /\ Place >= 1 => coming[1] = Characters(told)[Place]
  <2>1. 1 \in 1 .. Len(coming) /\ 1 + Place - 1 = Place
    BY <1>2, <1>3
  <2> QED
    BY <2>1 DEF ComingTold
<1> QED
  BY <1>1, <1>2, <1>3, <1>4

LEMMA ToldStep ==
  ASSUME LineType, Coming, ComingTold, Next
  PROVE  ComingTold'
<1>1. ASSUME NEW d \in Docks, NEW a \in Answers, SetPort(d, a)
      PROVE  ComingTold'
  <2>1. PICK p : /\ coming' = p \o Characters(a) /\ told' = a
                 /\ Len(coming') = Len(p) + 3 * Len(a)
                 /\ Len(p) \in Nat /\ Len(a) \in Nat
                 /\ \A i \in 1 .. Len(coming') :
                      coming'[i] = IF i <= Len(p) THEN p[i] ELSE Characters(a)[i - Len(p)]
    BY <1>1, SetPortComing
  <2>2. Place' = 1 - Len(p)
    BY <2>1 DEF Place
  <2>3. ASSUME NEW i \in 1 .. Len(coming'), i + Place' - 1 >= 1
        PROVE  coming'[i] = Characters(a)[i + Place' - 1]
    <3>1. i + Place' - 1 = i - Len(p) /\ ~(i <= Len(p))
      BY <2>1, <2>2, <2>3
    <3> QED
      BY <2>1, <3>1
  <2> QED
    BY <2>1, <2>3 DEF ComingTold
<1>2. CASE Unplug
  BY <1>2 DEF Unplug, ComingTold
<1>3. CASE (ReadCharacter \/ LineEnds) /\ UNCHANGED <<present, told>>
  <2> SUFFICES ASSUME present, NEW i \in 1 .. Len(coming'), i + Place' - 1 >= 1
               PROVE  coming'[i] = Characters(told)[i + Place' - 1]
    BY <1>3 DEF ComingTold
  <2>1. /\ i + 1 \in 1 .. Len(coming) /\ coming'[i] = coming[i + 1]
        /\ Place \in Int /\ Place' = Place + 1 /\ i \in Int
    BY <1>3, PlaceStep
  <2>2. (i + 1) + Place - 1 = i + Place' - 1
    BY <2>1
  <2>3. (i + 1) + Place - 1 >= 1
    BY <2>2
  <2>4. coming[i + 1] = Characters(told)[(i + 1) + Place - 1]
    BY <2>1, <2>3 DEF ComingTold
  <2> QED
    BY <2>1, <2>2, <2>4
<1>4. CASE (Pause \/ UNCHANGED line) /\ UNCHANGED <<present, told>>
  BY <1>4 DEF Pause, ComingTold, Place
<1>5. ReadCharacter => UNCHANGED <<present, told>>
  BY DEF ReadCharacter
<1> QED
  BY <1>1, <1>2, <1>3, <1>4, <1>5, Moves, StepFrame

LEMMA TickingStep ==
  ASSUME Coming, Ticking, Next
  PROVE  Ticking'
<1> USE DEF Ticking
<1>1. ASSUME ReadCharacter
      PROVE  Ticking'
  <2>1. at' \in {"wait", "info", "line"} /\ UNCHANGED <<at, state, cut>>
    BY <1>1 DEF ReadCharacter, Reading
  <2>2. coming # <<>> /\ buffer' = Append(buffer, Head(coming))
    BY <1>1 DEF ReadCharacter
  <2>3. buffer' # <<>>
    BY <2>2, EmptySeq
  <2> QED
    BY <2>1, <2>3
<1>2. ASSUME WaitFor
      PROVE  Ticking'
  BY <1>2 DEF WaitFor, Failed, LineEnds, Pause
<1>3. ASSUME VersionInfo
      PROVE  Ticking'
  BY <1>3 DEF VersionInfo, Failed, LineEnds, Pause
<1>4. ASSUME ProcessCommand
      PROVE  Ticking'
  BY <1>4 DEF ProcessCommand, ProcessLine, LineEnds, Pause
<1>5. ASSUME NEW d \in Docks, NEW a \in Answers, SetPort(d, a)
      PROVE  Ticking'
  BY <1>5 DEF SetPort
<1>6. ASSUME Unplug
      PROVE  Ticking'
  BY <1>6 DEF Unplug
<1>7. ASSUME Disconnect \/ Lock \/ Write \/ Pop \/ Unlock \/ InputWaiting \/ NoInputWaiting
             \/ QueueCommand \/ Push
      PROVE  Ticking'
  BY <1>7 DEF Disconnect, Lock, Write, Pop, Unlock, InputWaiting, NoInputWaiting, QueueCommand, Push
<1> QED
  BY <1>1, <1>2, <1>3, <1>4, <1>5, <1>6, <1>7 DEF Next, Handshake, Tick

(* A line that has ended, or a pause between lines.                        *)
LEMMA AfterLine ==
  ASSUME Coming, LineEnds
  PROVE  buffer' = <<>> /\ cut' = cut /\ coming[1] = Newline /\ coming # <<>>
         /\ (coming' # <<>> => coming'[1].part = 1)
<1>1. coming # <<>> /\ Head(coming) = Newline /\ coming' = Tail(coming) /\ buffer' = <<>> /\ cut' = cut
  BY DEF LineEnds
<1>2. /\ Len(coming) \in Nat /\ Len(coming) > 0 /\ coming[1] = Newline
      /\ Len(coming') = Len(coming) - 1 /\ Shaped(coming')
      /\ \A i \in 1 .. Len(coming') : coming'[i] = coming[i + 1]
  BY <1>1, ShapedTail DEF Coming
<1>3. coming' # <<>> => coming'[1].part = 1
  <2>1. coming' # <<>> => Len(coming') > 0
    BY <1>2, EmptySeq DEF Shaped
  <2>2. coming' # <<>> => 1 \in 1 .. Len(coming) /\ 1 + 1 <= Len(coming) /\ coming'[1] = coming[1 + 1]
    BY <1>2, <2>1
  <2> QED
    BY <1>2, <2>2 DEF Coming, Shaped
<1> QED
  BY <1>1, <1>2, <1>3

LEMMA Appends ==
  ASSUME NEW x \in Character, NEW y \in Character
  PROVE  Append(<<>>, x) = <<x>> /\ Append(<<x>>, y) = <<x, y>>
<1>1. <<>> \in Seq(Character) /\ Len(<<>>) = 0 /\ <<x>> \in Seq(Character) /\ Len(<<x>>) = 1
  BY EmptySeq
<1>2. /\ Append(<<>>, x) \in Seq(Character) /\ Len(Append(<<>>, x)) = 1
      /\ Append(<<>>, x)[1] = x
      /\ Append(<<x>>, y) \in Seq(Character) /\ Len(Append(<<x>>, y)) = 2
      /\ Append(<<x>>, y)[1] = x /\ Append(<<x>>, y)[2] = y
  BY <1>1, AppendProperties
<1>3. /\ <<x>>[1] = x
      /\ <<x, y>> \in Seq(Character) /\ Len(<<x, y>>) = 2 /\ <<x, y>>[1] = x /\ <<x, y>>[2] = y
  OBVIOUS
<1>4. \A i \in 1 .. 1 : i = 1
  OBVIOUS
<1>5. \A i \in 1 .. 2 : i = 1 \/ i = 2
  OBVIOUS
<1> QED
  BY <1>1, <1>2, <1>3, <1>4, <1>5, SeqEqual

LEMMA UncutStep ==
  ASSUME LineType, Coming, ComingTold, Ticking, Uncut, Next
  PROVE  Uncut'
<1> SUFFICES ASSUME InStep', ~cut', present'
             PROVE  Uncut'
  BY DEF Uncut
<1>1. CASE ReadCharacter
  <2>1. /\ UNCHANGED <<at, state, cut, present, told>>
        /\ Head(coming) # Newline /\ buffer' = Append(buffer, Head(coming))
    BY <1>1 DEF ReadCharacter
  <2>2. /\ coming # <<>> /\ Head(coming) = coming[1] /\ 1 \in 1 .. Len(coming)
        /\ Len(coming) \in Nat /\ Len(coming') = Len(coming) - 1
        /\ \A i \in 1 .. Len(coming') : coming'[i] = coming[i + 1]
    BY <1>1, <2>1, PlaceStep
  <2>3. coming[1] \in Character /\ coming[1] # Newline
    BY <2>1, <2>2, ShapedTail DEF Coming
  <2>4. coming[1].part \in {1, 2} =>
          1 + 1 <= Len(coming) /\ coming' # <<>> /\ coming'[1] = coming[1 + 1]
    <3>1. coming[1].part \in {1, 2} => 1 + 1 <= Len(coming)
      BY <2>2 DEF Coming, Shaped
    <3> QED
      BY <2>2, <3>1, EmptySeq
  <2>5. Uncut /\ InStep /\ ~cut /\ present
    BY <2>1 DEF InStep
  <2>6. CASE buffer = <<>>
    <3>1. coming[1].part = 1
      BY <2>2, <2>5, <2>6 DEF Uncut
    <3>2. PICK k \in Kinds : coming[1] = First(k)
      BY <2>3, <3>1, CharacterParts DEF First
    <3>3. coming'[1] = Second(k) /\ coming' # <<>>
      BY <2>2, <2>4, <3>1, <3>2, CharacterParts DEF Coming, Shaped
    <3>4. buffer' = <<First(k)>>
      BY <2>1, <2>2, <2>3, <2>6, <3>2, Appends
    <3> QED
      BY <3>3, <3>4 DEF Uncut
  <2>7. ASSUME NEW k \in Kinds, buffer = <<First(k)>>, coming[1] = Second(k)
        PROVE  Uncut'
    <3>1. coming'[1] = Newline /\ coming' # <<>>
      BY <2>2, <2>4, <2>7, CharacterParts DEF Coming, Shaped
    <3>2. buffer' = <<First(k), Second(k)>>
      BY <2>1, <2>2, <2>3, <2>7, CharacterParts, Appends
    <3> QED
      BY <3>1, <3>2 DEF Uncut
  <2> QED
    BY <2>2, <2>3, <2>5, <2>6, <2>7 DEF Uncut
<1>2. CASE LineEnds
  BY <1>2, AfterLine DEF Uncut
<1>3. CASE (WaitFor \/ VersionInfo \/ ProcessCommand) /\ Pause
  <2>1. buffer = <<>> /\ buffer' = <<>> /\ coming' = coming /\ ~cut
    BY <1>3, Zenon DEF Pause
  <2>2. ~WaitFor \/ ~InStep'
    <3>1. ~Whole(buffer, "ready")
      BY <2>1 DEF Whole
    <3> QED
      BY <3>1 DEF WaitFor, Failed, InStep, Ticking
  <2>3. InStep /\ present
    BY <1>3, <2>2, StepFrame DEF InStep, VersionInfo, ProcessCommand, ProcessLine, Ticking
  <2> QED
    BY <2>1, <2>3, CharacterParts DEF Uncut
<1>4. ASSUME NEW d \in Docks, NEW a \in Answers, SetPort(d, a)
      PROVE  FALSE
  BY <1>4 DEF SetPort, InStep
<1>5. CASE Unplug
  BY <1>5 DEF Unplug
<1>6. CASE /\ UNCHANGED <<line, dockside, cut>>
           /\ Disconnect \/ Lock \/ Write \/ Pop \/ Unlock \/ InputWaiting \/ NoInputWaiting
              \/ QueueCommand \/ Push
  <2>1. InStep
    BY <1>6 DEF InStep, Disconnect, Lock, Write, Pop, Unlock, InputWaiting, NoInputWaiting,
          QueueCommand, Push, Ticking
  <2> QED
    BY <1>6, <2>1 DEF Uncut
<1> QED
  BY <1>1, <1>2, <1>3, <1>4, <1>5, <1>6, Moves

(* process_command is called with whole lines, unless one was cut or the   *)
(* dock is gone.                                                           *)
LEMMA WholeLine ==
  ASSUME Coming, Ticking, Uncut, ProcessCommand, ~cut', present
  PROVE  /\ ~cut /\ state = "Connected"
         /\ \E k \in Kinds : buffer = <<First(k), Second(k)>>
<1>1. at = "line" /\ state = "Connected" /\ InStep
  BY DEF ProcessCommand, ProcessLine, Ticking, InStep
<1>2. ~cut /\ LineEnds
  <2>1. CASE LineEnds
    BY <2>1 DEF LineEnds
  <2>2. CASE Pause
    <3>1. buffer = <<>> /\ ~cut
      BY <2>2, Zenon DEF Pause
    <3>2. coming = <<>>
      BY <1>1, <2>2, <3>1 DEF Pause
    <3> QED
      BY <1>1, <3>1, <3>2 DEF Ticking
  <2> QED
    BY <2>1, <2>2 DEF ProcessCommand, ProcessLine
<1>3. coming # <<>> /\ coming[1] = Newline
  BY <1>2, AfterLine
<1> QED
  BY <1>1, <1>2, <1>3, CharacterParts DEF Uncut

(* What process_command does with a whole line.                            *)
LEMMA WholeLineDone ==
  ASSUME ProcessCommand, ~cut', NEW k \in Kinds, buffer = <<First(k), Second(k)>>
  PROVE  /\ UNCHANGED state /\ heard' = Append(heard, k)
         /\ \/ \E m \in Modules : k = Found[m] /\ connect(m)
            \/ k = "d" /\ module_state' = "ModuleDisconnected"
            \/ /\ k \notin {"d", "c_short", "c_long"}
               /\ UNCHANGED <<module_state, module_name>>
         /\ crashed' => k = "bare" \/ (module_name = "long" /\ k = "u_short") 
<1>1. \A l \in Kinds : (Whole(buffer, l) <=> l = k) /\ (Starts(buffer, l) <=> l = k)
  BY DEF Whole, Starts, First, Second
<1>2. buffer # <<>> /\ buffer[1].k = k
  BY DEF First
<1>3. UNCHANGED state /\ heard' = Append(heard, k)
  BY <1>2 DEF ProcessCommand, ProcessLine
<1>4. /\ \A m \in Modules : Found[m] \in Kinds /\ Data[m] \in Kinds
      /\ {"d", "c_short", "c_long", "bare", "u_short"} \subseteq Kinds
      /\ Data["short"] = "u_short"
  BY DEF Found, Data, Kinds, Modules
<1>5. \/ \E m \in Modules : k = Found[m] /\ connect(m)
      \/ k = "d" /\ module_state' = "ModuleDisconnected"
      \/ k \notin {"d", "c_short", "c_long"} /\ UNCHANGED <<module_state, module_name>>
  <2>1. ModuleLine(buffer)
    BY DEF ProcessCommand, ProcessLine
  <2>2. ASSUME NEW m \in Modules, Starts(buffer, Found[m]),
               \E n \in IF Whole(buffer, Found[m]) THEN {m} ELSE {"", m} : connect(n)
        PROVE  k = Found[m] /\ connect(m)
    BY <2>2, <1>1, <1>4
  <2>3. Starts(buffer, "d") => k = "d"
    BY <1>1, <1>4
  <2>4. (\A l \in {"d", "c_short", "c_long"} : ~Whole(buffer, l)) => k \notin {"d", "c_short", "c_long"}
    BY <1>1, <1>4
  <2> QED
    BY <2>1, <2>2, <2>3, <2>4 DEF ModuleLine
<1>6. crashed' => k = "bare" \/ (module_name = "long" /\ k = "u_short")
  <2>1. crashed' \in Throws(buffer)
    BY DEF ProcessCommand, ProcessLine
  <2>2. ~Broken(buffer)
    BY <1>1 DEF Broken
  <2>3. Whole(buffer, "bare") <=> k = "bare"
    BY <1>1, <1>4
  <2>4. Misplaced(buffer) => module_name = "long" /\ k = "u_short"
    BY <1>1, <1>4 DEF Misplaced
  <2> QED
    BY <1>2, <2>1, <2>2, <2>3, <2>4 DEF Throws
<1> QED
  BY <1>3, <1>5, <1>6

LEMMA ChannelTypeStep ==
  ASSUME ChannelType, Next
  PROVE  ChannelType'
<1> USE DEF ChannelType
<1>1. CASE ProcessCommand
  <2>1. ModuleLine(buffer)
    BY <1>1 DEF ProcessCommand, ProcessLine
  <2>2. ASSUME NEW n \in Modules \cup {""}, connect(n)
        PROVE  module_state' \in {"ModuleConnected", "ModuleDisconnected"} /\ module_name' \in Modules \cup {""}
    BY <2>2 DEF connect
  <2> QED
    BY <2>1, <2>2 DEF ModuleLine
<1>2. CASE UNCHANGED <<module_state, module_name>>
  BY <1>2
<1>3. CASE Disconnect
  BY <1>3 DEF Disconnect
<1>4. ProcessCommand \/ Disconnect \/ UNCHANGED <<module_state, module_name>>
  BY DEF Next, Unplug, SetPort, Handshake, ReadCharacter, WaitFor, VersionInfo, Tick, Lock, Write, Pop,
         Unlock, InputWaiting, NoInputWaiting, QueueCommand, Push
<1> QED
  BY <1>1, <1>2, <1>3, <1>4

LEMMA ReadTypeStep ==
  ASSUME ReadType, Coming, Next
  PROVE  ReadType'
<1> USE DEF ReadType
<1>1. buffer' \in Seq(Part)
  <2>1. CASE ReadCharacter
    <3>1. coming # <<>> /\ Head(coming) # Newline /\ buffer' = Append(buffer, Head(coming))
      BY <2>1 DEF ReadCharacter
    <3>2. Head(coming) \in Character
      BY <3>1, HeadTailProperties DEF Coming, Shaped
    <3>3. Head(coming) \in Part
      BY <3>1, <3>2 DEF Character, Part
    <3> QED
      BY <3>1, <3>3, AppendProperties
  <2>2. buffer' = <<>> => buffer' \in Seq(Part)
    BY EmptySeq
  <2>3. ReadCharacter \/ buffer' = <<>> \/ buffer' = buffer
    BY Moves DEF LineEnds, Pause, SetPort, Unplug
  <2> QED
    BY <2>1, <2>2, <2>3
<1>2. heard' = <<>> => heard' \in Seq(Kinds)
  BY EmptySeq
<1>3. CASE ProcessCommand
  <2>1. buffer # <<>> => buffer[1].k \in Kinds
    <3>1. buffer # <<>> => buffer[1] \in Part
      BY EmptySeq
    <3> QED
      BY <3>1 DEF Part
  <2>2. heard' = <<>> \/ heard' = heard \/ (buffer # <<>> /\ heard' = Append(heard, buffer[1].k))
    BY <1>3, Zenon DEF ProcessCommand, ProcessLine
  <2>3. buffer # <<>> => Append(heard, buffer[1].k) \in Seq(Kinds)
    BY <2>1, AppendProperties
  <2> QED
    BY <1>1, <1>2, <2>2, <2>3
<1>4. ProcessCommand \/ heard' = <<>> \/ heard' = heard
  BY DEF Next, Unplug, SetPort, Handshake, ReadCharacter, WaitFor, VersionInfo, Disconnect, Tick, Lock,
         Write, Pop, Unlock, InputWaiting, NoInputWaiting, QueueCommand, Push
<1> QED
  BY <1>1, <1>2, <1>3, <1>4

LEMMA ModularStep ==
  ASSUME ReadType, Coming, Ticking, Uncut, Modular, Next
  PROVE  Modular'
<1>1. CASE ProcessCommand
  <2>1. state = "Connected" /\ UNCHANGED <<state, present>>
    BY <1>1 DEF ProcessCommand, ProcessLine, Ticking
  <2> SUFFICES ASSUME ~cut', present
               PROVE  IF module_state' = "ModuleConnected"
                        THEN \E c \in 1 .. Len(heard') :
                               Finds(heard', c, module_name') /\ module_name' \in Modules
                        ELSE \A c \in 1 .. Len(heard') :
                               heard'[c] \in {"c_short", "c_long"} =>
                                 \E d \in c + 1 .. Len(heard') : heard'[d] = "d"
    BY <2>1 DEF Modular
  <2>2. PICK k \in Kinds : buffer = <<First(k), Second(k)>>
    BY <1>1, WholeLine
  <2> DEFINE n == Len(heard)
  <2>3. /\ n \in Nat /\ Len(heard') = n + 1 /\ heard'[n + 1] = k
        /\ \A i \in 1 .. n : heard'[i] = heard[i]
    <3>1. heard' = Append(heard, k) /\ heard \in Seq(Kinds)
      BY <1>1, <2>2, WholeLineDone DEF ReadType
    <3> QED
      BY <3>1, AppendProperties
  <2>4. ~cut
    BY <1>1, WholeLine
  <2>5. CASE module_state = "ModuleConnected" /\ k # "d"
    <3>1. UNCHANGED <<module_state, module_name>>
      BY <1>1, <2>2, <2>5, WholeLineDone DEF connect
    <3>2. PICK c \in 1 .. n : Finds(heard, c, module_name) /\ module_name \in Modules
      BY <2>1, <2>4, <2>5 DEF Modular
    <3>3. Finds(heard', c, module_name)
      <4>1. heard'[c] = Found[module_name]
        BY <2>3, <3>2 DEF Finds
      <4>2. ASSUME NEW e \in c + 1 .. n + 1
            PROVE  heard'[e] # "d"
        BY <2>3, <2>5, <3>2, <4>2 DEF Finds
      <4>3. ASSUME NEW e \in 1 .. c - 1, heard'[e] \in {"c_short", "c_long"}
            PROVE  \E d \in e + 1 .. c - 1 : heard'[d] = "d"
        BY <2>3, <3>2, <4>3 DEF Finds
      <4> QED
        BY <2>3, <4>1, <4>2, <4>3 DEF Finds
    <3> QED
      BY <2>3, <2>5, <3>1, <3>2, <3>3
  <2>6. CASE module_state # "ModuleConnected" /\ k \in {"c_short", "c_long"}
    <3>1. PICK m \in Modules : k = Found[m] /\ connect(m)
      BY <1>1, <2>2, <2>6, WholeLineDone
    <3>2. module_state' = "ModuleConnected" /\ module_name' = m
      BY <2>6, <3>1 DEF connect
    <3>3. \A e \in 1 .. n : heard[e] \in {"c_short", "c_long"} => \E d \in e + 1 .. n : heard[d] = "d"
      BY <2>1, <2>4, <2>6 DEF Modular
    <3>4. Finds(heard', n + 1, m)
      <4>1. ASSUME NEW e \in 1 .. (n + 1) - 1, heard'[e] \in {"c_short", "c_long"}
            PROVE  \E d \in e + 1 .. (n + 1) - 1 : heard'[d] = "d"
        BY <2>3, <3>3, <4>1
      <4>2. \A e \in (n + 1) + 1 .. n + 1 : heard'[e] # "d"
        BY <2>3
      <4> QED
        BY <2>3, <3>1, <4>1, <4>2 DEF Finds
    <3> QED
      BY <2>3, <3>2, <3>4
  <2>7. CASE k = "d"
    <3>1. module_state' = "ModuleDisconnected"
      BY <1>1, <2>2, <2>7, WholeLineDone DEF Found, Modules
    <3>2. ASSUME NEW c \in 1 .. n + 1, heard'[c] \in {"c_short", "c_long"}
          PROVE  \E d \in c + 1 .. n + 1 : heard'[d] = "d"
      <4>1. c # n + 1
        BY <2>3, <2>7, <3>2
      <4>2. n + 1 \in c + 1 .. n + 1
        BY <2>3, <4>1
      <4> QED
        BY <2>3, <2>7, <4>2
    <3> QED
      BY <2>3, <3>1, <3>2
  <2>8. CASE module_state # "ModuleConnected" /\ k \notin {"d", "c_short", "c_long"}
    <3>1. UNCHANGED module_state
      BY <1>1, <2>2, <2>8, WholeLineDone DEF Found, Modules
    <3>2. \A e \in 1 .. n : heard[e] \in {"c_short", "c_long"} => \E d \in e + 1 .. n : heard[d] = "d"
      BY <2>1, <2>4, <2>8 DEF Modular
    <3>3. ASSUME NEW c \in 1 .. n + 1, heard'[c] \in {"c_short", "c_long"}
          PROVE  \E d \in c + 1 .. n + 1 : heard'[d] = "d"
      <4>1. c \in 1 .. n
        BY <2>3, <2>8, <3>3
      <4> QED
        BY <2>3, <3>2, <3>3, <4>1
    <3> QED
      BY <2>3, <2>8, <3>1, <3>3
  <2> QED
    BY <2>5, <2>6, <2>7, <2>8
<1>2. CASE VersionInfo
  <2>1. module_state = "ModuleDisconnected" /\ UNCHANGED module_state /\ heard' = <<>>
    BY <1>2 DEF VersionInfo, Ticking, Modular
  <2>2. Len(heard') = 0
    BY <2>1
  <2> QED
    BY <2>1, <2>2 DEF Modular
<1>3. CASE Disconnect
  BY <1>3 DEF Disconnect, Modular
<1>4. CASE /\ UNCHANGED channel
           /\ state' # "Connected" \/ UNCHANGED <<state, present, cut>>
           /\ state = "Connected" => state' = "Connected"
  <2>1. CASE state' # "Connected"
    BY <1>4, <2>1 DEF Modular
  <2>2. CASE state' = "Connected"
    BY <1>4, <2>2 DEF Modular
  <2> QED
    BY <2>1, <2>2
<1>5. CASE Unplug
  BY <1>5 DEF Unplug, Modular
<1>6. ProcessCommand \/ VersionInfo \/ Disconnect \/ Unplug \/ ~(ProcessCommand \/ VersionInfo \/ Disconnect \/ Unplug)
  OBVIOUS
<1>7. CASE ~(ProcessCommand \/ VersionInfo \/ Disconnect \/ Unplug)
  <2>1. ASSUME WaitFor
        PROVE  UNCHANGED channel /\ state' # "Connected" /\ state # "Connected"
    <3>1. state = "Connecting" /\ UNCHANGED channel
      BY <2>1 DEF WaitFor, Ticking
    <3>2. UNCHANGED state \/ state' = "Disconnected"
      BY <2>1 DEF WaitFor, Failed
    <3> QED
      BY <3>1, <3>2
  <2>2. ASSUME NEW d \in Docks, NEW a \in Answers, SetPort(d, a)
        PROVE  UNCHANGED channel /\ state' # "Connected" /\ state # "Connected"
    BY <2>2 DEF SetPort
  <2>3. ASSUME ReadCharacter \/ Lock \/ Write \/ Pop \/ Unlock \/ InputWaiting \/ NoInputWaiting
               \/ QueueCommand \/ Push
        PROVE  UNCHANGED channel /\ UNCHANGED <<state, present, cut>>
    BY <2>3 DEF ReadCharacter, Lock, Write, Pop, Unlock, InputWaiting, NoInputWaiting, QueueCommand, Push
  <2> QED
    BY <1>4, <1>7, <2>1, <2>2, <2>3 DEF Next, Handshake, Tick
<1> QED
  BY <1>1, <1>2, <1>3, <1>5, <1>7

(* A module that a line found, and none lost, has its name.                *)
LEMMA Announced ==
  ASSUME ReadType, Modular, state = "Connected", ~cut, present,
         NEW c \in 1 .. Len(heard), NEW m \in Modules, Finds(heard, c, m)
  PROVE  module_name = m
<1>1. heard[c] \in {"c_short", "c_long"} /\ Len(heard) \in Nat
  <2>1. heard[c] = Found[m]
    BY DEF Finds
  <2>2. Found[m] \in {"c_short", "c_long"}
    BY DEF Found, Modules
  <2>3. Len(heard) \in Nat
    BY DEF ReadType
  <2> QED
    BY ONLY <2>1, <2>2, <2>3
<1>2. module_state = "ModuleConnected"
  <2>1. ~ \E d \in c + 1 .. Len(heard) : heard[d] = "d"
    BY DEF Finds
  <2> QED
    BY <1>1, <2>1 DEF Modular
<1>3. PICK f \in 1 .. Len(heard) : Finds(heard, f, module_name) /\ module_name \in Modules
  BY <1>2 DEF Modular
<1>4. heard[f] \in {"c_short", "c_long"}
  BY <1>3 DEF Finds, Found, Modules
<1>5. c = f
  <2>1. ASSUME c < f
        PROVE  FALSE
    <3>1. c \in 1 .. f - 1
      BY <1>1, <2>1
    <3>2. PICK d \in c + 1 .. f - 1 : heard[d] = "d"
      BY <1>1, <1>3, <3>1 DEF Finds
    <3>3. d \in c + 1 .. Len(heard)
      BY <1>1, <3>2
    <3> QED
      BY <3>2, <3>3 DEF Finds
  <2>2. ASSUME f < c
        PROVE  FALSE
    <3>1. f \in 1 .. c - 1
      BY <1>1, <2>2
    <3>2. PICK d \in f + 1 .. c - 1 : heard[d] = "d"
      BY <1>4, <3>1 DEF Finds
    <3>3. d \in f + 1 .. Len(heard)
      BY <1>1, <3>2
    <3> QED
      BY <1>3, <3>2, <3>3 DEF Finds
  <2> QED
    BY <1>1, <2>1, <2>2
<1> QED
  BY <1>3, <1>5 DEF Finds, Found, Modules

(* A whole line that ends the daemon is a bare one, or has the data of a   *)
(* module that no line found.                                              *)
LEMMA BadLinesStep ==
  ASSUME FlagType, ReadType, Coming, Ticking, Uncut, Modular, CrashesOnlyOnBadLines, Next
  PROVE  CrashesOnlyOnBadLines'
<1>1. CASE crashed
  <2>1. UNCHANGED <<cut, present, heard>>
    BY <1>1 DEF Next, Unplug, SetPort, Handshake, ReadCharacter, WaitFor, VersionInfo, LineEnds, Pause,
           Reading, Disconnect, Tick, Lock, Write, Pop, Unlock, InputWaiting, NoInputWaiting,
           ProcessCommand, ProcessLine, QueueCommand, Push
  <2> QED
    BY <1>1, <2>1 DEF CrashesOnlyOnBadLines
<1>2. CASE ~crashed /\ ~ProcessCommand
  <2>1. crashed' = crashed
    BY <1>2 DEF Next, Unplug, SetPort, Handshake, ReadCharacter, WaitFor, VersionInfo,
           Disconnect, Tick, Lock, Write, Pop, Unlock, InputWaiting, NoInputWaiting,
           QueueCommand, Push
  <2> QED
    BY <1>2, <2>1 DEF CrashesOnlyOnBadLines
<1>3. CASE ProcessCommand
  <2> SUFFICES ASSUME ~cut', present', crashed'
               PROVE  \E i \in 1 .. Len(heard') : heard'[i] = "bare" \/ Unannounced(heard', i)
    BY DEF CrashesOnlyOnBadLines
  <2>1. present
    BY <1>3 DEF ProcessCommand, ProcessLine
  <2>2. PICK k \in Kinds : buffer = <<First(k), Second(k)>>
    BY <1>3, <2>1, WholeLine
  <2>3. ~cut /\ state = "Connected"
    BY <1>3, <2>1, WholeLine
  <2> DEFINE n == Len(heard)
  <2>4. heard' = Append(heard, k) /\ heard \in Seq(Kinds)
    BY <1>3, <2>2, WholeLineDone DEF ReadType
  <2>5. n \in Nat /\ Len(heard') = n + 1 /\ heard'[n + 1] = k
    BY <2>4, AppendProperties
  <2>6. SubSeq(heard', 1, (n + 1) - 1) = heard
    BY <2>4
  <2>7. CASE k = "bare"
    BY <2>5, <2>7
  <2>8. CASE module_name = "long" /\ k = "u_short"
    <3>1. \A c \in 1 .. n : ~Finds(heard, c, "short")
      BY <2>1, <2>3, <2>8, Announced DEF Modules
    <3>2. "short" \in Modules /\ heard'[n + 1] = Data["short"]
      BY <2>5, <2>8 DEF Data, Modules
    <3>3. Unannounced(heard', n + 1)
      <4>1. \A c \in 1 .. (n + 1) - 1 : ~Finds(SubSeq(heard', 1, (n + 1) - 1), c, "short")
        <5>1. (n + 1) - 1 = n
          BY <2>5
        <5> QED
          BY ONLY <2>6, <3>1, <5>1
      <4> QED
        BY <3>2, <4>1 DEF Unannounced
    <3> QED
      BY <2>5, <3>3
  <2> QED
    BY <1>3, <2>2, <2>7, <2>8, WholeLineDone
<1> QED
  BY <1>1, <1>2, <1>3

(* What the character at a place of this attempt says of its line.         *)
LEMMA PlaceInLine ==
  ASSUME LineType, Coming, ComingTold, present, Place >= 1, coming # <<>>
  PROVE  /\ Place \in 1 .. 3 * Len(told) /\ Len(told) \in Nat
         /\ \A i \in 1 .. Len(told) :
              /\ told[i] \in Kinds
              /\ Place = 3 * i - 2 => coming[1] = First(told[i])
              /\ Place = 3 * i - 1 => coming[1] = Second(told[i])
              /\ Place = 3 * i => coming[1] = Newline
<1>1. Len(coming) \in Nat /\ Len(coming) > 0
  BY ShapedTail DEF Coming
<1>2. told \in Seq(Kinds) /\ Len(told) \in Nat
  BY ToldSeq
<1>3. Place \in 1 .. 3 * Len(told)
  BY <1>1, <1>2 DEF Place
<1>4. coming[1] = Characters(told)[Place]
  <2>1. 1 \in 1 .. Len(coming) /\ 1 + Place - 1 = Place
    BY <1>1, <1>3
  <2> QED
    BY <2>1 DEF ComingTold
<1> QED
  BY <1>2, <1>3, <1>4, LineCharacters

(* The last character of an earlier attempt is a newline.                  *)
LEMMA EarlierEnds ==
  ASSUME LineType, Coming, ComingTold, present, Place = 0
  PROVE  coming[1] = Newline
<1>1. /\ Len(coming) \in Nat /\ coming \in Seq(Character)
      /\ told \in Seq(Kinds) /\ Len(told) \in Nat
  BY ToldSeq DEF Coming, Shaped
<1>2. Len(coming) = 3 * Len(told) + 1 /\ 1 \in 1 .. Len(coming)
  BY <1>1 DEF Place
<1>3. coming[1] \in Character
  BY <1>1, <1>2
<1>4. CASE Len(told) = 0
  <2>1. ~(1 + 1 <= Len(coming))
    BY <1>2, <1>4
  <2> QED
    BY <1>2, <1>3, <2>1, CharacterParts DEF Coming, Shaped
<1>5. CASE Len(told) > 0
  <2>1. 2 \in 1 .. Len(coming) /\ 2 + Place - 1 = 1 /\ 1 \in 1 .. Len(told) /\ 3 * 1 - 2 = 1 /\ 1 + 1 = 2
    BY <1>1, <1>2, <1>5
  <2>2. coming[2] = Characters(told)[2 + Place - 1]
    BY <2>1 DEF ComingTold
  <2>3. Characters(told)[3 * 1 - 2] = First(told[1])
    BY <1>1, <2>1, LineCharacters
  <2>4. coming[2] = First(told[1])
    BY <2>1, <2>2, <2>3
  <2>5. coming[2].part = 1
    BY <2>4, CharacterParts
  <2> QED
    BY <1>2, <1>3, <2>1, <2>5, CharacterParts DEF Coming, Shaped
<1> QED
  BY <1>1, <1>4, <1>5

LEMMA FollowingStep ==
  ASSUME LineType, FlagType, Coming, ComingTold, Ticking, Following, Next
  PROVE  Following'
<1> SUFFICES ASSUME state' # "Disconnected", ~cut', present', Place' >= 1
             PROVE  \/ \E i \in 1 .. Len(told') + 1 : Place' = 3 * i - 2 /\ buffer' = <<>>
                    \/ \E i \in 1 .. Len(told') : Place' = 3 * i - 1 /\ buffer' = <<First(told'[i])>>
                    \/ \E i \in 1 .. Len(told') :
                         Place' = 3 * i /\ buffer' = <<First(told'[i]), Second(told'[i])>>
  BY DEF Following
<1>1. CASE ReadCharacter
  <2>1. /\ UNCHANGED <<at, state, cut, present, told>>
        /\ Head(coming) # Newline /\ buffer' = Append(buffer, Head(coming))
    BY <1>1 DEF ReadCharacter
  <2>2. /\ coming # <<>> /\ Head(coming) = coming[1]
        /\ Len(told) \in Nat /\ Place \in Int /\ Place' = Place + 1
    BY <1>1, <2>1, PlaceStep
  <2>3. Place >= 1
    <3>1. Place # 0
      BY <2>1, <2>2, EarlierEnds
    <3> QED
      BY <2>2, <3>1
  <2>4. /\ Place \in 1 .. 3 * Len(told)
        /\ \A i \in 1 .. Len(told) :
              /\ told[i] \in Kinds
              /\ Place = 3 * i - 2 => coming[1] = First(told[i])
              /\ Place = 3 * i - 1 => coming[1] = Second(told[i])
              /\ Place = 3 * i => coming[1] = Newline
    BY <2>1, <2>2, <2>3, PlaceInLine
  <2>5. ASSUME NEW i \in 1 .. Len(told) + 1, Place = 3 * i - 2, buffer = <<>>
        PROVE  i \in 1 .. Len(told) /\ Place' = 3 * i - 1 /\ buffer' = <<First(told[i])>>
    <3>1. i \in 1 .. Len(told) /\ Place' = 3 * i - 1
      BY <2>2, <2>4, <2>5
    <3>2. Head(coming) = First(told[i]) /\ First(told[i]) \in Character
      BY <2>2, <2>4, <2>5, <3>1, CharacterParts
    <3> QED
      BY <2>1, <2>5, <3>1, <3>2, Appends
  <2>6. ASSUME NEW i \in 1 .. Len(told), Place = 3 * i - 1, buffer = <<First(told[i])>>
        PROVE  Place' = 3 * i /\ buffer' = <<First(told[i]), Second(told[i])>>
    <3>1. Place' = 3 * i
      BY <2>2, <2>6
    <3>2. Head(coming) = Second(told[i]) /\ Second(told[i]) \in Character /\ First(told[i]) \in Character
      BY <2>2, <2>4, <2>6, CharacterParts
    <3> QED
      BY <2>1, <2>6, <3>1, <3>2, Appends
  <2>7. ASSUME NEW i \in 1 .. Len(told), Place = 3 * i
        PROVE  FALSE
    BY <2>1, <2>2, <2>4, <2>7
  <2> QED
    BY <2>1, <2>3, <2>5, <2>6, <2>7 DEF Following
<1>2. CASE (WaitFor \/ VersionInfo \/ ProcessCommand) /\ LineEnds
  <2>1. /\ UNCHANGED <<present, told>> /\ buffer' = <<>> /\ cut' = cut
        /\ coming # <<>> /\ coming[1] = Newline /\ state # "Disconnected"
    BY <1>2, StepFrame, AfterLine DEF Ticking
  <2>2. Len(told) \in Nat /\ Place \in Int /\ Place' = Place + 1
    BY <1>2, <2>1, PlaceStep
  <2>3. CASE Place = 0
    <3>1. 1 \in 1 .. Len(told) + 1 /\ Place' = 3 * 1 - 2
      BY <2>2, <2>3
    <3> QED
      BY <2>1, <3>1
  <2>4. CASE Place >= 1
    <3>1. /\ Place \in 1 .. 3 * Len(told)
          /\ \A i \in 1 .. Len(told) :
                /\ told[i] \in Kinds
                /\ Place = 3 * i - 2 => coming[1] = First(told[i])
                /\ Place = 3 * i - 1 => coming[1] = Second(told[i])
      BY <2>1, <2>4, PlaceInLine
    <3>2. PICK i \in 1 .. Len(told) : Place = 3 * i - 2 \/ Place = 3 * i - 1 \/ Place = 3 * i
      BY <2>2, <3>1, Thirds
    <3>3. Place = 3 * i
      BY <2>1, <3>1, <3>2, CharacterParts
    <3>4. i + 1 \in 1 .. Len(told) + 1 /\ Place' = 3 * (i + 1) - 2
      BY <2>2, <3>3
    <3> QED
      BY <2>1, <3>4
  <2> QED
    BY <2>2, <2>3, <2>4
<1>3. CASE (WaitFor \/ VersionInfo \/ ProcessCommand) /\ Pause
  <2>1. buffer = <<>> /\ buffer' = <<>> /\ coming' = coming /\ ~cut
    BY <1>3, Zenon DEF Pause
  <2>2. state # "Disconnected" /\ UNCHANGED <<present, told>>
    BY <1>3, StepFrame DEF Ticking
  <2> QED
    BY <2>1, <2>2 DEF Following, Place
<1>4. ASSUME NEW d \in Docks, NEW a \in Answers, SetPort(d, a)
      PROVE  1 \in 1 .. Len(told') + 1 /\ Place' = 3 * 1 - 2 /\ buffer' = <<>>
  <2>1. PICK p : Len(coming') = Len(p) + 3 * Len(a) /\ Len(p) \in Nat /\ Len(a) \in Nat /\ told' = a
    BY <1>4, SetPortComing
  <2>2. Place' = 1
    BY <2>1 DEF Place
  <2> QED
    BY <1>4, <2>1, <2>2 DEF SetPort
<1>5. CASE Unplug
  BY <1>5 DEF Unplug
<1>6. CASE /\ UNCHANGED <<line, dockside, cut>>
           /\ Disconnect \/ Lock \/ Write \/ Pop \/ Unlock \/ InputWaiting \/ NoInputWaiting
              \/ QueueCommand \/ Push
  <2>1. state # "Disconnected"
    BY <1>6 DEF Disconnect, Lock, Write, Pop, Unlock, InputWaiting, NoInputWaiting, QueueCommand, Push
  <2> QED
    BY <1>6, <2>1 DEF Following, Place
<1> QED
  BY <1>1, <1>2, <1>3, <1>4, <1>5, <1>6, Moves

(* As long as the banner is waited for, no line has been cut, and a whole  *)
(* banner ends the wait.                                                   *)
LEMMA WaitingStep ==
  ASSUME LineType, Coming, ComingTold, Ticking, Following, Waiting, Next
  PROVE  Waiting'
<1> SUFFICES ASSUME at' = "wait", present', NEW i \in 1 .. Len(told'), told'[i] = "ready"
             PROVE  Place' <= 3 * i
  BY DEF Waiting
<1>1. CASE ReadCharacter \/ (WaitFor /\ LineEnds)
  <2>1. at = "wait" /\ UNCHANGED <<present, told>> /\ state = "Connecting" /\ ~cut
    BY <1>1 DEF ReadCharacter, WaitFor, Ticking
  <2>2. /\ coming # <<>> /\ Len(told) \in Nat /\ Place \in Int /\ Place' = Place + 1
    BY <1>1, <2>1, PlaceStep
  <2>3. Place <= 3 * i
    BY <2>1 DEF Waiting
  <2>4. ASSUME Place = 3 * i
        PROVE  FALSE
    <3>1. Place >= 1
      BY <2>1, <2>2, <2>4
    <3>2. coming[1] = Newline
      BY <2>1, <2>2, <2>4, <3>1, PlaceInLine
    <3>3. ~ReadCharacter
      BY <2>1, <3>2, PlaceStep DEF ReadCharacter
    <3>4. buffer = <<First(told[i]), Second(told[i])>>
      BY <2>1, <2>2, <2>4, <3>1 DEF Following
    <3>5. Whole(buffer, "ready")
      BY <2>1, <3>4 DEF Whole, First, Second
    <3> QED
      BY <1>1, <3>3, <3>5 DEF WaitFor
  <2> QED
    BY <2>1, <2>2, <2>3, <2>4
<1>2. ASSUME NEW d \in Docks, NEW a \in Answers, SetPort(d, a)
      PROVE  Place' <= 3 * i
  <2>1. PICK p : Len(coming') = Len(p) + 3 * Len(a) /\ Len(p) \in Nat /\ Len(a) \in Nat /\ told' = a
    BY <1>2, SetPortComing
  <2>2. Place' = 1 - Len(p) /\ i \in 1 .. Len(a)
    BY <2>1 DEF Place
  <2> QED
    BY <2>1, <2>2
<1>3. CASE Unplug
  BY <1>3 DEF Unplug
<1>4. CASE /\ UNCHANGED <<line, dockside, cut>>
           /\ Disconnect \/ Lock \/ Write \/ Pop \/ Unlock \/ InputWaiting \/ NoInputWaiting
              \/ QueueCommand \/ Push
  <2>1. at = "wait"
    BY <1>4 DEF Disconnect, Lock, Write, Pop, Unlock, InputWaiting, NoInputWaiting, QueueCommand, Push
  <2> QED
    BY <1>4, <2>1 DEF Waiting, Place
<1>5. CASE (VersionInfo \/ ProcessCommand) \/ (WaitFor /\ Pause)
  <2>1. CASE WaitFor /\ Pause
    <3>1. at = "wait" /\ UNCHANGED <<present, told>>
      BY <2>1 DEF WaitFor
    <3>2. CASE LineEnds
      BY <1>1, <2>1, <3>2
    <3>3. CASE ~LineEnds
      BY <2>1, <3>3 DEF WaitFor, Failed
    <3> QED
      BY <3>2, <3>3
  <2>2. ~VersionInfo /\ ~ProcessCommand
    BY DEF VersionInfo, ProcessCommand, ProcessLine, Failed
  <2> QED
    BY <1>5, <2>1, <2>2
<1> QED
  BY <1>1, <1>2, <1>3, <1>4, <1>5, Moves

(* What is understood of a whole line changes no other field.              *)
LEMMA WholeValues ==
  ASSUME NEW k \in Kinds, NEW f \in Fields
  PROVE  /\ Values(<<First(k), Second(k)>>, f) = IF k = f THEN {dock} ELSE {ident[f]}
         /\ Values(<<>>, f) = {ident[f]}
<1>1. ASSUME NEW m, Whole(m, f)
      PROVE  Values(m, f) = {dock}
  BY <1>1 DEF Values
<1>2. ASSUME NEW m, ~Whole(m, f), m = <<>> \/ m[1] # [k |-> f, part |-> 1]
      PROVE  Values(m, f) = {ident[f]}
  BY <1>2 DEF Values, Starts
<1>3. Whole(<<First(k), Second(k)>>, f) <=> k = f
  BY DEF Whole, First, Second
<1>4. <<First(k), Second(k)>>[1] = [k |-> f, part |-> 1] <=> k = f
  BY DEF First
<1>5. ~Whole(<<>>, f)
  BY DEF Whole
<1>6. CASE k = f
  <2>1. Whole(<<First(k), Second(k)>>, f)
    BY <1>3, <1>6
  <2>2. Values(<<First(k), Second(k)>>, f) = {dock}
    BY ONLY <2>1, <1>1
  <2> QED
    BY <2>2, <1>6, <1>2, <1>5
<1>7. CASE k # f
  <2>1. ~Whole(<<First(k), Second(k)>>, f) /\ <<First(k), Second(k)>>[1] # [k |-> f, part |-> 1]
    BY <1>3, <1>4, <1>7
  <2>2. Values(<<First(k), Second(k)>>, f) = {ident[f]}
    BY ONLY <2>1, <1>2
  <2> QED
    BY <2>2, <1>7, <1>2, <1>5
<1> QED
  BY <1>6, <1>7

LEMMA IdentStep ==
  ASSUME IdentType, VersionInfo \/ ProcessCommand
  PROVE  ident'["user"] \in Values(buffer, "user") /\ ident'["name"] \in Values(buffer, "name")
<1>1. CASE VersionInfo
  <2>1. PICK v \in Values(buffer, "version"), s \in Values(buffer, "serial"),
             u \in Values(buffer, "user"), n \in Values(buffer, "name") :
               ident' = [version |-> v, serial |-> s, user |-> u, name |-> n]
    BY <1>1 DEF VersionInfo
  <2> QED
    BY <2>1
<1>2. CASE ProcessCommand
  <2>1. PICK u \in Values(buffer, "user"), n \in Values(buffer, "name") :
               ident' = [ident EXCEPT !.user = u, !.name = n]
    BY <1>2 DEF ProcessCommand
  <2> QED
    BY <2>1 DEF IdentType, Ident
<1> QED
  BY <1>1, <1>2

LEMMA KnownStep ==
  ASSUME LineType, IdentType, Coming, ComingTold, Ticking, Uncut, Following, Waiting, Known, Next
  PROVE  Known'
<1> SUFFICES ASSUME InStep', ~cut', present',
                    NEW i \in 1 .. Len(told'), NEW j \in 1 .. Len(told'),
                    i < j, told'[i] = "ready", told'[j] \in {"user", "name"}, Place' > 3 * j
             PROVE  ident'[told'[j]] = dock'
  BY DEF Known
<1>1. CASE ReadCharacter
  <2>1. UNCHANGED <<at, state, cut, dock, present, told, ident>> /\ Head(coming) # Newline
        /\ InStep /\ state # "Disconnected"
    BY <1>1 DEF ReadCharacter, InStep, Ticking
  <2>2. /\ coming # <<>> /\ Head(coming) = coming[1]
        /\ Len(told) \in Nat /\ Place \in Int /\ Place' = Place + 1
    BY <1>1, <2>1, PlaceStep
  <2>3. Place # 3 * j
    <3>1. Place = 3 * j => Place >= 1
      BY <2>1, <2>2
    <3> QED
      BY <2>1, <2>2, <3>1, PlaceInLine
  <2>4. Place > 3 * j
    BY <2>1, <2>2, <2>3
  <2> QED
    BY <2>1, <2>4 DEF Known
<1>2. CASE WaitFor /\ LineEnds
  <2>1. at = "wait" /\ UNCHANGED <<present, told>>
    BY <1>2 DEF WaitFor
  <2>2. Len(told) \in Nat /\ Place \in Int /\ Place' = Place + 1
    BY <1>2, <2>1, PlaceStep
  <2>3. Place <= 3 * i
    BY <2>1 DEF Waiting
  <2> QED
    BY <2>1, <2>2, <2>3
<1>3. CASE (VersionInfo \/ ProcessCommand) /\ LineEnds
  <2>1. /\ UNCHANGED <<dock, present, told>> /\ cut' = cut /\ InStep /\ state # "Disconnected"
        /\ coming # <<>> /\ coming[1] = Newline
    BY <1>3, StepFrame, AfterLine DEF VersionInfo, ProcessCommand, ProcessLine, InStep, Ticking
  <2>2. Len(told) \in Nat /\ Place \in Int /\ Place' = Place + 1
    BY <1>3, <2>1, PlaceStep
  <2>3. PICK k \in Kinds : buffer = <<First(k), Second(k)>>
    BY <2>1, CharacterParts DEF Uncut
  <2> DEFINE f == told[j]
  <2>4. f \in {"user", "name"} /\ f \in Fields
    BY <2>1 DEF Fields
  <2>5. ident'[f] \in Values(buffer, f)
    BY <1>3, <2>4, IdentStep
  <2>6. ident'[f] = IF k = f THEN dock ELSE ident[f]
    <3>1. Values(buffer, f) = IF k = f THEN {dock} ELSE {ident[f]}
      BY <2>3, <2>4, WholeValues
    <3> QED
      BY <2>5, <3>1
  <2>7. CASE Place = 3 * j
    <3>1. buffer = <<First(told[j]), Second(told[j])>>
      BY <2>1, <2>2, <2>7 DEF Following
    <3>2. k = f
      BY <2>3, <3>1, CharacterParts
    <3> QED
      BY <2>1, <2>6, <3>2
  <2>8. CASE Place > 3 * j
    BY <2>1, <2>6, <2>8 DEF Known
  <2> QED
    BY <2>1, <2>2, <2>7, <2>8
<1>4. CASE (WaitFor \/ VersionInfo \/ ProcessCommand) /\ Pause /\ ~LineEnds
  <2>1. buffer = <<>> /\ buffer' = <<>> /\ coming' = coming /\ ~cut
    BY <1>4, Zenon DEF Pause
  <2>2. ~WaitFor
    <3>1. ~Whole(buffer, "ready")
      BY <2>1 DEF Whole
    <3> QED
      BY <1>4, <3>1 DEF WaitFor, Failed, InStep, Ticking
  <2>3. InStep /\ UNCHANGED <<present, told, dock>>
    BY <1>4, <2>2, StepFrame DEF InStep, VersionInfo, ProcessCommand, ProcessLine, Ticking
  <2> DEFINE f == told[j]
  <2>4. f \in {"user", "name"} /\ f \in Fields
    BY <2>3 DEF Fields
  <2>5. ident'[f] \in Values(buffer, f)
    BY <1>4, <2>2, <2>4, IdentStep
  <2>6. ident'[f] = ident[f]
    <3>1. Values(buffer, f) = {ident[f]}
      BY <2>1, <2>4, WholeValues DEF Kinds
    <3> QED
      BY <2>5, <3>1
  <2> QED
    BY <2>1, <2>3, <2>6 DEF Known, Place
<1>5. ASSUME NEW d \in Docks, NEW a \in Answers, SetPort(d, a)
      PROVE  FALSE
  BY <1>5 DEF SetPort, InStep
<1>6. CASE Unplug
  BY <1>6 DEF Unplug
<1>7. CASE /\ UNCHANGED <<line, dockside, cut, ident>>
           /\ Disconnect \/ Lock \/ Write \/ Pop \/ Unlock \/ InputWaiting \/ NoInputWaiting
              \/ QueueCommand \/ Push
  <2>1. InStep
    BY <1>7 DEF InStep, Disconnect, Lock, Write, Pop, Unlock, InputWaiting, NoInputWaiting,
          QueueCommand, Push, Ticking
  <2> QED
    BY <1>7, <2>1 DEF Known, Place
<1> QED
  BY <1>1, <1>2, <1>3, <1>4, <1>5, <1>6, <1>7, Moves

-----------------------------------------------------------------------------
LEMMA LineInit ==
  ASSUME Init
  PROVE  LineIInv /\ CrashesOnlyOnBadLines
<1>1. IInv
  BY IInvInit
<1>2. Coming /\ CrashesOnlyOnBadLines
  BY ShapedEmpty DEF Init, Coming, CrashesOnlyOnBadLines
<1>3. ComingTold /\ Ticking /\ Uncut /\ Following /\ Waiting /\ Known
  BY DEF Init, ComingTold, Ticking, Uncut, InStep, Following, Waiting, Known
<1>4. ChannelType /\ ReadType /\ Modular
  <2>1. ReadType
    BY EmptySeq DEF Init, ReadType
  <2> QED
    BY <2>1 DEF Init, ChannelType, Modular
<1> QED
  BY <1>1, <1>2, <1>3, <1>4 DEF LineIInv

LEMMA LineStep ==
  ASSUME LineIInv, CrashesOnlyOnBadLines, [Next]_vars
  PROVE  LineIInv' /\ CrashesOnlyOnBadLines'
<1>1. IInv'
  BY IInvStep DEF LineIInv
<1>2. CASE UNCHANGED vars
  <2>1. Coming' /\ ComingTold' /\ Ticking' /\ Uncut' /\ Following' /\ Waiting' /\ Known'
    BY <1>2 DEF LineIInv, Coming, ComingTold, Ticking, Uncut, InStep, Following, Waiting, Known, Place
  <2>2. ChannelType' /\ ReadType' /\ Modular' /\ CrashesOnlyOnBadLines'
    BY <1>2 DEF LineIInv, ChannelType, ReadType, Modular, CrashesOnlyOnBadLines
  <2> QED
    BY <1>1, <2>1, <2>2 DEF LineIInv
<1>3. CASE Next
  <2>1. Coming' /\ ComingTold' /\ Ticking' /\ Uncut'
    BY <1>3, ComingStep, ToldStep, TickingStep, UncutStep DEF LineIInv, IInv
  <2>2. Following' /\ Waiting' /\ Known'
    BY <1>3, FollowingStep, WaitingStep, KnownStep DEF LineIInv, IInv
  <2>3. ChannelType' /\ ReadType' /\ Modular' /\ CrashesOnlyOnBadLines'
    BY <1>3, ChannelTypeStep, ReadTypeStep, ModularStep, BadLinesStep DEF LineIInv, IInv
  <2> QED
    BY <1>1, <2>1, <2>2, <2>3 DEF LineIInv
<1> QED
  BY <1>2, <1>3

LEMMA LineIInvAlways == Spec => [](LineIInv /\ CrashesOnlyOnBadLines)
  BY LineInit, LineStep, PTL DEF Spec

(* Every variable has its type, and tick() has the dock's mutex exactly    *)
(* while it writes.                                                        *)
THEOREM TypeCorrect == Spec => []TypeOK
<1>1. LineIInv => TypeOK
  BY TypeGroups DEF LineIInv, IInv
<1> QED
  BY <1>1, LineIInvAlways, PTL

(* Whatever lines docks send, in however many attempts, and wherever       *)
(* tick() is: unless the dock paused within a line or is gone, only a bare *)
(* line, or data of a module that no line of this connection found, ends   *)
(* the daemon; the name of a module of an earlier connection never does.   *)
THEOREM OnlyBadLinesCrash == Spec => []CrashesOnlyOnBadLines
  BY LineIInvAlways, PTL

(* A connected dock that has told its user or its name behind the banner   *)
(* is known by it, and not by those of the dock before, whatever else it   *)
(* sends and whatever was left of an earlier attempt: unless a line was    *)
(* cut, the lines of this attempt are read one by one from the first, and  *)
(* the banner is not passed over.                                          *)
THEOREM DockIdentified == Spec => []Identified
<1>1. LineIInv => Identified
  <2> SUFFICES ASSUME LineIInv, state = "Connected", coming = <<>>, ~cut, present,
                      NEW i \in DOMAIN told, NEW j \in DOMAIN told,
                      i < j, told[i] = "ready", told[j] \in {"user", "name"}
               PROVE  ident[told[j]] = dock
    BY DEF Identified
  <2>1. told \in Seq(Kinds) /\ Len(told) \in Nat /\ i \in 1 .. Len(told) /\ j \in 1 .. Len(told)
    BY ToldSeq DEF LineIInv, IInv
  <2>2. Place > 3 * j
    BY <2>1, EmptySeq DEF Place
  <2> QED
    BY <2>1, <2>2 DEF LineIInv, Known, InStep
<1> QED
  BY <1>1, LineIInvAlways, PTL
=============================================================================
