------------------------- MODULE FlotillaModuleProofs -------------------------
(***************************************************************************)
(* Proofs about FlotillaModule, for any number of reports, posts and       *)
(* reconnections and any set of values and module names.                   *)
(***************************************************************************)
EXTENDS FlotillaModule, SequenceTheorems, TLAPS
-----------------------------------------------------------------------------
(* The queue operators.                                                    *)

LEMMA TailElements ==
  ASSUME NEW S, NEW q \in Seq(S), q # <<>>
  PROVE  /\ Tail(q) \in Seq(S)
         /\ Len(Tail(q)) = Len(q) - 1
         /\ \A i \in 1 .. Len(q) - 1 : Tail(q)[i] = q[i + 1]
  BY HeadTailProperties

(* Popping, in either form, leaves a queue numbered up to the same value   *)
(* that is not empty and not longer.                                       *)
LEMMA PopKeepsNumbering ==
  ASSUME NEW q \in Seq(Item), NEW n \in Nat, Len(q) > 0, Numbered(q, n)
  PROVE  /\ PopUnlessLast(q) \in Seq(Item)
         /\ Len(PopUnlessLast(q)) \in 1 .. Len(q)
         /\ Len(PopUnlessLast(q)) >= Len(q) - 1
         /\ Numbered(PopUnlessLast(q), n)
<1>1. CASE Len(q) > 1
  <2>1. /\ Tail(q) \in Seq(Item)
        /\ Len(Tail(q)) = Len(q) - 1
        /\ \A i \in 1 .. Len(q) - 1 : Tail(q)[i] = q[i + 1]
    BY TailElements
  <2>3. Len(q) <= n /\ \A i \in 1 .. Len(q) : q[i].seq = n - Len(q) + i
    BY DEF Numbered
  <2>4. ASSUME NEW i \in 1 .. Len(q) - 1
        PROVE  Tail(q)[i].seq = n - (Len(q) - 1) + i
    <3>1. i + 1 \in 1 .. Len(q) /\ Tail(q)[i] = q[i + 1]
      BY <2>1
    <3>2. q[i + 1].seq = n - Len(q) + (i + 1)
      BY <2>3, <3>1
    <3> QED
      BY <3>1, <3>2
  <2>5. Numbered(Tail(q), n)
    BY <2>1, <2>3, <2>4 DEF Numbered
  <2> QED
    BY <1>1, <2>1, <2>5 DEF PopUnlessLast
<1>2. CASE ~(Len(q) > 1)
  BY <1>2 DEF PopUnlessLast
<1> QED
  BY <1>1, <1>2

LEMMA KeepLatestKeepsNumbering ==
  ASSUME NEW q \in Seq(Item), NEW n \in Nat, Len(q) > 0, Numbered(q, n)
  PROVE  /\ KeepLatest(q) \in Seq(Item)
         /\ Len(KeepLatest(q)) \in 1 .. Len(q)
         /\ Numbered(KeepLatest(q), n)
<1>1. /\ Len(q) \in 1 .. n
      /\ q[Len(q)] \in Item
      /\ q[Len(q)].seq = n
  BY DEF Numbered
<1>2. KeepLatest(q) = <<q[Len(q)]>>
  BY DEF KeepLatest
<1> QED
  BY <1>1, <1>2 DEF Numbered

(* The front of a numbered queue is the oldest value in it, and whatever   *)
(* is popped after it was taken, nothing older is left.                    *)
LEMMA HeadIsOldest ==
  ASSUME NEW q \in Seq(Item), NEW n \in Nat, Len(q) > 0, Numbered(q, n)
  PROVE  /\ Head(q) \in Item
         /\ Head(q).seq = n - Len(q) + 1
         /\ TakenInOrder(q, n, Head(q))
<1>1. Len(q) \in 1 .. n /\ Head(q) = q[1] /\ q[1] \in Item
  BY DEF Numbered
<1> QED
  BY <1>1 DEF Numbered, TakenInOrder

LEMMA ShorterTakenInOrder ==
  ASSUME NEW q \in Seq(Item), NEW p \in Seq(Item), NEW n \in Nat, NEW item,
         Len(p) <= Len(q), TakenInOrder(q, n, item)
  PROVE  TakenInOrder(p, n, item)
  BY DEF TakenInOrder

(* Queueing a value numbers it one higher than the last.                   *)
LEMMA AppendKeepsNumbering ==
  ASSUME NEW q \in Seq(Item), NEW n \in Nat, NEW v \in Data, Numbered(q, n)
  PROVE  /\ Append(q, [seq |-> n + 1, val |-> v]) \in Seq(Item)
         /\ Len(Append(q, [seq |-> n + 1, val |-> v])) = Len(q) + 1
         /\ Numbered(Append(q, [seq |-> n + 1, val |-> v]), n + 1)
<1> DEFINE x == [seq |-> n + 1, val |-> v]
           a == Append(q, x)
<1>1. x \in Item /\ x.seq = n + 1
  BY DEF Item
<1>2. /\ a \in Seq(Item)
      /\ Len(a) = Len(q) + 1
      /\ \A i \in 1 .. Len(q) : a[i] = q[i]
      /\ a[Len(q) + 1] = x
  BY <1>1
<1>3. Numbered(a, n + 1)
  BY <1>1, <1>2 DEF Numbered
<1> QED
  BY <1>2, <1>3

LEMMA NextTakenInOrder ==
  ASSUME NEW n \in Nat, NEW q \in Seq(Item), NEW p \in Seq(Item), NEW item,
         Len(p) = Len(q) + 1, TakenInOrder(q, n, item)
  PROVE  TakenInOrder(p, n + 1, item)
  BY DEF TakenInOrder

LEMMA EmptyQueue ==
  ASSUME NEW n \in Nat, NEW q \in Seq(Item), NEW item, TakenInOrder(q, n, item)
  PROVE  Numbered(<<>>, n) /\ TakenInOrder(<<>>, n, item)
  BY DEF Numbered, TakenInOrder
-----------------------------------------------------------------------------
(* The inductive invariant.                                                *)

LEMMA NonEmpty ==
  ASSUME NEW q \in Seq(Item)
  PROVE  q # <<>> <=> Len(q) > 0
  BY EmptySeq

(* The parts of IInv that speak about each direction.                      *)
LEMMA QueueFacts ==
  ASSUME IInv
  PROVE  /\ command_queue \in Seq(Item) /\ update_queue \in Seq(Item)
         /\ reported \in Nat /\ posted \in Nat /\ session \in Nat
         /\ Numbered(command_queue, reported)
         /\ Numbered(update_queue, posted)
         /\ TakenInOrder(command_queue, reported, examined)
         /\ TakenInOrder(update_queue, posted, considered)
<1>1. TypeOK
  BY DEF IInv
<1>2. \A m \in Nat : 0 .. m \subseteq Nat
  OBVIOUS
<1>3. reported \in Nat /\ posted \in Nat
  BY <1>1, <1>2, BoundAssumption DEF TypeOK, Bounded
<1>4. session \in Nat
  BY <1>1, <1>2, <1>3 DEF TypeOK, Bounded
<1> QED
  BY <1>1, <1>3, <1>4 DEF TypeOK, IInv

LEMMA InitIInv == Init => IInv
<1> SUFFICES ASSUME Init PROVE IInv
  OBVIOUS
<1>1. TypeOK
  <2>1. <<>> \in Seq(Item)
    BY EmptySeq
  <2>2. Bounded
    <3>1. /\ 0 \in 0 .. MaxSessions
          /\ 0 \in 0 .. MaxReports
          /\ 0 \in 0 .. MaxPosts
          /\ 0 \in 0 .. 0
      BY BoundAssumption
    <3> QED
      BY <3>1 DEF Init, Bounded
  <2> QED
    BY <2>1, <2>2 DEF Init, TypeOK
<1>2. Numbered(<<>>, 0) /\ TakenInOrder(<<>>, 0, NoItem)
  BY DEF Numbered, TakenInOrder, NoItem
<1>3. /\ Numbered(command_queue, reported)
      /\ Numbered(update_queue, posted)
      /\ TakenInOrder(command_queue, reported, examined)
      /\ TakenInOrder(update_queue, posted, considered)
  BY <1>2, Zenon DEF Init
<1>4. OfThisSession /\ InputModuleNotResent
  BY DEF Init, OfThisSession, InputModuleNotResent
<1> QED
  BY <1>1, <1>3, <1>4 DEF IInv

(* A step that leaves the queues and the numbers alone preserves the       *)
(* numbering.                                                              *)
LEMMA QueuesUnchanged ==
  ASSUME IInv, UNCHANGED <<command_queue, update_queue, reported, posted,
                           examined, considered>>
  PROVE  /\ Numbered(command_queue, reported)'
         /\ Numbered(update_queue, posted)'
         /\ TakenInOrder(command_queue, reported, examined)'
         /\ TakenInOrder(update_queue, posted, considered)'
  BY DEF IInv, Numbered, TakenInOrder

LEMMA BoundedUnchanged ==
  ASSUME Bounded, UNCHANGED <<sessions, reported, posted, session>>
  PROVE  Bounded'
  BY DEF Bounded

LEMMA StutterStep == ASSUME IInv, UNCHANGED vars PROVE IInv'
<1>1. TypeOK'
  <2>1. Bounded'
    BY BoundedUnchanged DEF IInv, TypeOK, vars, history
  <2> QED
    BY <2>1, Zenon DEF IInv, TypeOK, vars, code, history
<1>2. OfThisSession'
  BY DEF IInv, OfThisSession, vars, code, history
<1>3. InputModuleNotResent'
  BY DEF IInv, InputModuleNotResent, vars, code, history
<1>4. UNCHANGED <<command_queue, update_queue, reported, posted, examined,
                  considered>>
  BY DEF vars, code, history
<1> QED
  BY <1>1, <1>2, <1>3, <1>4, QueuesUnchanged DEF IInv

(* A counter that has not reached its bound can count one further.         *)
LEMMA CountsUp ==
  ASSUME NEW m \in Nat, NEW n \in 0 .. m, n < m, NEW s \in 0 .. n
  PROVE  n + 1 \in 0 .. m /\ s \in 0 .. (n + 1)
  OBVIOUS

(* Steps that touch no queue and no history.                               *)
LEMMA ControlStep ==
  ASSUME IInv, NoUpdate \/ SkipUpdate \/ EndInput \/ CheckCommands
  PROVE  IInv'
<1>1. TypeOK'
  BY BoundedUnchanged
     DEF IInv, TypeOK, NoUpdate, SkipUpdate, EndInput, CheckCommands, history
<1>2. OfThisSession'
  BY DEF IInv, OfThisSession, NoUpdate, SkipUpdate, EndInput, CheckCommands,
         Serving, history
<1>3. InputModuleNotResent'
  BY DEF IInv, InputModuleNotResent, NoUpdate, SkipUpdate, EndInput,
         CheckCommands, history
<1>4. UNCHANGED <<command_queue, update_queue, reported, posted, examined,
                  considered>>
  BY DEF NoUpdate, SkipUpdate, EndInput, CheckCommands, history
<1> QED
  BY <1>1, <1>2, <1>3, <1>4, QueuesUnchanged DEF IInv

(* What get_next_update leaves in the queue after it has taken the front.  *)
Flushed == LET rest == PopUnlessLast(update_queue)
           IN IF is_volatile THEN rest ELSE KeepLatest(rest)

LEMMA FlushedFacts ==
  ASSUME IInv, GetNextUpdate
  PROVE  /\ Len(update_queue) \in 1 .. posted
         /\ Flushed \in Seq(Item)
         /\ Len(Flushed) \in 1 .. Len(update_queue)
         /\ is_volatile => Len(Flushed) >= Len(update_queue) - 1
         /\ Numbered(Flushed, posted)
         /\ Head(update_queue) \in Item
         /\ Head(update_queue).seq = posted - Len(update_queue) + 1
         /\ TakenInOrder(Flushed, posted, Head(update_queue))
<1> DEFINE q == update_queue
           rest == PopUnlessLast(q)
<1>1. /\ q \in Seq(Item)
      /\ posted \in Nat
      /\ Numbered(q, posted)
      /\ Len(q) > 0
  BY NonEmpty, QueueFacts DEF GetNextUpdate
<1>2. Len(q) \in 1 .. posted
  BY <1>1 DEF Numbered
<1>3. /\ rest \in Seq(Item)
      /\ Len(rest) \in 1 .. Len(q)
      /\ Len(rest) >= Len(q) - 1
      /\ Numbered(rest, posted)
  BY <1>1, PopKeepsNumbering
<1>4. Len(rest) > 0
  BY <1>3
<1>5. /\ KeepLatest(rest) \in Seq(Item)
      /\ Len(KeepLatest(rest)) \in 1 .. Len(rest)
      /\ Numbered(KeepLatest(rest), posted)
  BY <1>1, <1>3, <1>4, KeepLatestKeepsNumbering
<1>6. Len(KeepLatest(rest)) \in 1 .. Len(q)
  BY <1>1, <1>3, <1>5
<1>7. /\ Flushed \in Seq(Item)
      /\ Len(Flushed) \in 1 .. Len(q)
      /\ is_volatile => Len(Flushed) >= Len(q) - 1
      /\ Numbered(Flushed, posted)
  BY <1>3, <1>5, <1>6 DEF Flushed
<1>8. /\ Head(q) \in Item
      /\ Head(q).seq = posted - Len(q) + 1
      /\ TakenInOrder(q, posted, Head(q))
  BY <1>1, HeadIsOldest
<1>9. TakenInOrder(Flushed, posted, Head(q))
  BY <1>1, <1>7, <1>8, ShorterTakenInOrder
<1> QED
  BY <1>2, <1>7, <1>8, <1>9

LEMMA GetNextUpdateStep == ASSUME IInv, GetNextUpdate PROVE IInv'
<1>1. /\ update_queue' = Flushed
      /\ considered' = Head(update_queue)
      /\ last_update' = Head(update_queue).val
      /\ upc' = "input"
      /\ UNCHANGED <<dock_state, state, name, command_queue, spc, sessions,
                     reported, posted, session, examined, client_out>>
  BY DEF GetNextUpdate, Flushed
<1>2. TypeOK'
  BY <1>1, FlushedFacts, BoundedUnchanged DEF IInv, TypeOK, Item
<1>3. OfThisSession'
  BY <1>1 DEF IInv, OfThisSession
<1>4. posted # 0
  BY FlushedFacts
<1> QED
  BY <1>1, <1>2, <1>3, <1>4, FlushedFacts
     DEF IInv, Numbered, TakenInOrder, InputModuleNotResent

LEMMA LineUpdateStep ==
  ASSUME IInv, NEW v \in Data \cup {NoData}, LineUpdate(v)
  PROVE  IInv'
<1>1. CASE v = NoData
  <2>1. UNCHANGED vars
    BY <1>1 DEF LineUpdate, queue_command, vars, code, history
  <2> QED
    BY <2>1, StutterStep
<1>2. CASE v # NoData
  <2> DEFINE q == command_queue
             new == Append(q, [seq |-> reported + 1, val |-> v])
  <2>1. /\ v \in Data
        /\ reported < MaxReports
        /\ command_queue' = new
        /\ reported' = reported + 1
        /\ UNCHANGED <<dock_state, state, name, update_queue, last_update, upc,
                       spc, sessions, posted, session, examined, considered,
                       client_out>>
    BY <1>2 DEF LineUpdate, queue_command
  <2>2. /\ new \in Seq(Item)
        /\ Len(new) = Len(q) + 1
        /\ Numbered(new, reported + 1)
    BY <2>1, QueueFacts, AppendKeepsNumbering
  <2>3. TakenInOrder(new, reported + 1, examined)
    BY <2>2, QueueFacts, NextTakenInOrder
  <2>4. TypeOK'
    <3>1. Bounded'
      <4>1. Bounded
        BY DEF IInv, TypeOK
      <4>2. reported + 1 \in 0 .. MaxReports /\ session \in 0 .. (reported + 1)
        BY <2>1, <4>1, BoundAssumption, CountsUp DEF Bounded
      <4> QED
        BY <2>1, <4>1, <4>2, Zenon DEF Bounded
    <3> QED
      BY <2>1, <2>2, <3>1 DEF IInv, TypeOK
  <2>5. OfThisSession'
    BY <2>1, <2>2, QueueFacts DEF IInv, OfThisSession
  <2>6. InputModuleNotResent'
    <3>1. CASE q = <<>>
      <4>1. Head(new).seq = reported + 1
        BY <3>1, QueueFacts
      <4>2. examined.seq <= reported
        BY QueueFacts DEF TakenInOrder
      <4> QED
        BY <2>1, <4>1, <4>2, QueueFacts DEF InputModuleNotResent
    <3>2. CASE q # <<>>
      <4>1. Head(new) = Head(q)
        BY <3>2, QueueFacts
      <4> QED
        BY <2>1, <3>2, <4>1 DEF IInv, InputModuleNotResent
    <3> QED
      BY <3>1, <3>2
  <2> QED
    BY <2>1, <2>2, <2>3, <2>4, <2>5, <2>6, QueueFacts
       DEF IInv, Numbered, TakenInOrder
<1> QED
  BY <1>1, <1>2

(* Steps that empty command_queue, or leave it alone, and read nothing     *)
(* from either queue.                                                      *)
LEMMA EmptyingStep ==
  ASSUME IInv,
         command_queue' \in {command_queue, <<>>},
         UNCHANGED <<update_queue, reported, posted, examined, considered>>
  PROVE  /\ command_queue' \in Seq(Item)
         /\ Numbered(command_queue, reported)'
         /\ Numbered(update_queue, posted)'
         /\ TakenInOrder(command_queue, reported, examined)'
         /\ TakenInOrder(update_queue, posted, considered)'
<1>1. Numbered(<<>>, reported) /\ TakenInOrder(<<>>, reported, examined)
  BY QueueFacts, EmptyQueue
<1>2. <<>> \in Seq(Item)
  BY EmptySeq
<1>3. CASE command_queue' = <<>>
  BY <1>1, <1>2, <1>3, QueueFacts DEF Numbered, TakenInOrder
<1>4. CASE command_queue' = command_queue
  BY <1>4, QueueFacts, QueuesUnchanged
<1> QED
  BY <1>3, <1>4

LEMMA LineConnectStep ==
  ASSUME IInv, NEW n \in Names, LineConnect(n)
  PROVE  IInv'
<1>1. CASE state = "ModuleConnected"
  <2>1. UNCHANGED vars
    BY <1>1 DEF LineConnect, connect, vars, code, history
  <2> QED
    BY <2>1, StutterStep
<1>2. CASE state # "ModuleConnected"
  <2>1. /\ upc = "input"
        /\ name' = n
        /\ command_queue' = <<>>
        /\ state' = "ModuleConnected"
        /\ session' = reported
        /\ client_out' = NoData
        /\ UNCHANGED <<dock_state, update_queue, last_update, upc, spc, sessions,
                       reported, posted, examined, considered>>
    BY <1>2 DEF LineConnect, connect
  <2>2. Bounded'
    <3>1. reported \in 0 .. reported
      BY QueueFacts
    <3> QED
      BY <2>1, <3>1, Zenon DEF IInv, TypeOK, Bounded
  <2>3. TypeOK'
    BY <2>1, <2>2, EmptySeq DEF IInv, TypeOK
  <2>4. OfThisSession'
    <3>1. reported <= reported - Len(<<>>)
      BY QueueFacts, EmptySeq
    <3> QED
      BY <2>1, <3>1, Zenon DEF OfThisSession
  <2>5. InputModuleNotResent'
    BY <2>1 DEF InputModuleNotResent
  <2> QED
    BY <2>1, <2>3, <2>4, <2>5, EmptyingStep DEF IInv
<1> QED
  BY <1>1, <1>2

LEMMA LineDisconnectStep == ASSUME IInv, LineDisconnect PROVE IInv'
<1>1. /\ upc = "input"
      /\ state' = "ModuleDisconnected"
      /\ command_queue' = <<>>
      /\ UNCHANGED <<dock_state, name, update_queue, last_update, upc, spc,
                     history>>
  BY DEF LineDisconnect
<1>2. TypeOK'
  BY <1>1, EmptySeq, BoundedUnchanged DEF IInv, TypeOK, history
<1>3. OfThisSession' /\ InputModuleNotResent'
  BY <1>1 DEF OfThisSession, InputModuleNotResent
<1> QED
  BY <1>1, <1>2, <1>3, EmptyingStep DEF IInv, history

(* The comparison with last_update keeps the values' types.                *)
LEMMA HandToClientsTypes ==
  ASSUME TypeOK, NEW v \in Data \cup {NoData, Garbage}, HandToClients(v)
  PROVE  /\ last_update' = v
         /\ client_out' \in Data \cup {NoData, Garbage}
  BY DEF HandToClients, TypeOK

(* What get_next_command leaves in the queue before it takes the front.    *)
Kept == IF is_volatile THEN command_queue ELSE KeepLatest(command_queue)

LEMMA KeptFacts ==
  ASSUME IInv, TakeCommand
  PROVE  /\ Len(command_queue) \in 1 .. reported
         /\ Kept \in Seq(Item)
         /\ Len(Kept) \in 1 .. Len(command_queue)
         /\ PopUnlessLast(Kept) \in Seq(Item)
         /\ Len(PopUnlessLast(Kept)) \in 1 .. Len(Kept)
         /\ Len(PopUnlessLast(Kept)) >= Len(Kept) - 1
         /\ Numbered(PopUnlessLast(Kept), reported)
         /\ Head(Kept) \in Item
         /\ Head(Kept).seq = reported - Len(Kept) + 1
         /\ TakenInOrder(PopUnlessLast(Kept), reported, Head(Kept))
<1> DEFINE q == command_queue
<1>1. /\ q \in Seq(Item)
      /\ reported \in Nat
      /\ Numbered(q, reported)
      /\ Len(q) > 0
  BY NonEmpty, QueueFacts DEF TakeCommand
<1>2. Len(q) \in 1 .. reported
  BY <1>1 DEF Numbered
<1>3. /\ Kept \in Seq(Item)
      /\ Len(Kept) \in 1 .. Len(q)
      /\ Numbered(Kept, reported)
  <2>1. /\ KeepLatest(q) \in Seq(Item)
        /\ Len(KeepLatest(q)) \in 1 .. Len(q)
        /\ Numbered(KeepLatest(q), reported)
    BY <1>1, KeepLatestKeepsNumbering
  <2>2. Len(q) \in 1 .. Len(q)
    BY <1>1
  <2> QED
    BY <1>1, <2>1, <2>2 DEF Kept
<1>4. Len(Kept) > 0
  BY <1>3
<1>5. /\ PopUnlessLast(Kept) \in Seq(Item)
      /\ Len(PopUnlessLast(Kept)) \in 1 .. Len(Kept)
      /\ Len(PopUnlessLast(Kept)) >= Len(Kept) - 1
      /\ Numbered(PopUnlessLast(Kept), reported)
  BY <1>1, <1>3, <1>4, PopKeepsNumbering
<1>6. /\ Head(Kept) \in Item
      /\ Head(Kept).seq = reported - Len(Kept) + 1
      /\ TakenInOrder(Kept, reported, Head(Kept))
  BY <1>1, <1>3, <1>4, HeadIsOldest
<1>7. TakenInOrder(PopUnlessLast(Kept), reported, Head(Kept))
  BY <1>1, <1>3, <1>5, <1>6, ShorterTakenInOrder
<1> QED
  BY <1>2, <1>3, <1>5, <1>6, <1>7

LEMMA TakeCommandStep == ASSUME IInv, TakeCommand PROVE IInv'
<1> DEFINE rest == PopUnlessLast(Kept)
<1>1. /\ upc = "take" /\ upc' = "update"
      /\ command_queue' = rest
      /\ examined' = Head(Kept)
      /\ HandToClients(Head(Kept).val)
      /\ UNCHANGED <<dock_state, state, name, update_queue, spc, sessions,
                     reported, posted, session, considered>>
  BY DEF TakeCommand, Kept
<1>2. Head(Kept).val \in Data
  BY KeptFacts DEF Item
<1>3. /\ last_update' = Head(Kept).val
      /\ client_out' \in Data \cup {NoData, Garbage}
  BY <1>1, <1>2, HandToClientsTypes DEF IInv
<1>4. TypeOK'
  BY <1>1, <1>2, <1>3, KeptFacts, BoundedUnchanged DEF IInv, TypeOK
<1>5. OfThisSession'
  <2>1. session <= reported - Len(command_queue)
    BY <1>1 DEF IInv, OfThisSession
  <2>2. session <= reported - Len(rest)
    BY <2>1, KeptFacts, QueueFacts
  <2> QED
    BY <1>1, <2>2 DEF OfThisSession
<1>6. InputModuleNotResent'
  BY <1>1, <1>3 DEF InputModuleNotResent
<1> QED
  BY <1>1, <1>4, <1>5, <1>6, KeptFacts, QueueFacts
     DEF IInv, Numbered, TakenInOrder

(* The queue is empty, so whatever last_update becomes does no harm.       *)
LEMMA TakeFromEmptyStep == ASSUME IInv, TakeFromEmpty PROVE IInv'
<1>1. /\ command_queue = <<>>
      /\ upc' \in {"crashed", "update"}
      /\ UNCHANGED <<dock_state, state, name, command_queue, update_queue, spc,
                     sessions, reported, posted, session, examined, considered>>
  BY DEF TakeFromEmpty
<1>2. /\ last_update' \in Data \cup {NoData, Garbage}
      /\ client_out' \in Data \cup {NoData, Garbage}
  BY HandToClientsTypes DEF TakeFromEmpty, IInv, TypeOK
<1>3. TypeOK'
  BY <1>1, <1>2, BoundedUnchanged DEF IInv, TypeOK
<1>4. OfThisSession'
  <2>1. session <= reported - Len(<<>>)
    <3>1. session \in 0 .. reported
      BY DEF IInv, TypeOK, Bounded
    <3> QED
      BY <3>1, QueueFacts, EmptySeq
  <2> QED
    BY <1>1, <2>1, Zenon DEF OfThisSession
<1>5. InputModuleNotResent'
  BY <1>1 DEF InputModuleNotResent
<1> QED
  BY <1>1, <1>3, <1>4, <1>5, QueuesUnchanged DEF IInv

LEMMA QueueUpdateStep ==
  ASSUME IInv, NEW v \in Data \cup {NoData}, QueueUpdate(v)
  PROVE  IInv'
<1>1. CASE v = NoData
  <2>1. UNCHANGED vars
    BY <1>1, DataAssumption DEF QueueUpdate, queue_update, vars, code, history
  <2> QED
    BY <2>1, StutterStep
<1>2. CASE v # NoData
  <2> DEFINE q == update_queue
             new == Append(q, [seq |-> posted + 1, val |-> v])
  <2>1. /\ v \in Data
        /\ posted < MaxPosts
        /\ update_queue' = new
        /\ posted' = posted + 1
        /\ UNCHANGED <<dock_state, state, name, command_queue, last_update, upc,
                       spc, sessions, reported, session, examined, considered,
                       client_out>>
    BY <1>2 DEF QueueUpdate, queue_update
  <2>2. /\ new \in Seq(Item)
        /\ Len(new) = Len(q) + 1
        /\ Numbered(new, posted + 1)
    BY <2>1, QueueFacts, AppendKeepsNumbering
  <2>3. TakenInOrder(new, posted + 1, considered)
    BY <2>2, QueueFacts, NextTakenInOrder
  <2>4. TypeOK'
    <3>1. Bounded'
      <4>1. Bounded
        BY DEF IInv, TypeOK
      <4>2. posted + 1 \in 0 .. MaxPosts
        BY <2>1, <4>1, BoundAssumption DEF Bounded
      <4> QED
        BY <2>1, <4>1, <4>2, Zenon DEF Bounded
    <3> QED
      BY <2>1, <2>2, <3>1 DEF IInv, TypeOK
  <2>5. OfThisSession'
    BY <2>1 DEF IInv, OfThisSession
  <2>6. InputModuleNotResent'
    BY <2>1, QueueFacts DEF InputModuleNotResent
  <2> QED
    BY <2>1, <2>2, <2>3, <2>4, <2>5, <2>6, QueueFacts
       DEF IInv, Numbered, TakenInOrder
<1> QED
  BY <1>1, <1>2

LEMMA ScanStep == ASSUME IInv, Scan PROVE IInv'
<1>1. /\ command_queue' \in {command_queue, <<>>}
      /\ state' \in {state, "ModuleDisconnected"}
      /\ UNCHANGED <<name, update_queue, last_update, upc, reported, posted,
                     session, examined, considered, client_out>>
  BY DEF Scan, ScanConnect, ScanDisconnect, ScanModule, ScanEmpty, history
<1>2. Bounded'
  <2>1. Bounded
    BY DEF IInv, TypeOK
  <2>2. CASE UNCHANGED sessions
    BY <1>1, <2>1, <2>2, BoundedUnchanged
  <2>3. CASE sessions < MaxSessions /\ sessions' = sessions + 1
    <3>1. sessions + 1 \in 0 .. MaxSessions
      BY <2>1, <2>3, BoundAssumption DEF Bounded
    <3> QED
      BY <1>1, <2>1, <2>3, <3>1, Zenon DEF Bounded
  <2> QED
    BY <2>2, <2>3
       DEF Scan, ScanConnect, ScanDisconnect, ScanModule, ScanEmpty, history
<1>3. TypeOK'
  <2>1. /\ dock_state' \in {"Connected", "Disconnected"}
        /\ spc' \in {"idle", "module", "empty"}
    BY DEF IInv, TypeOK, Scan, ScanConnect, ScanDisconnect, ScanModule, ScanEmpty
  <2>2. command_queue' \in Seq(Item)
    BY <1>1, EmptyingStep
  <2>3. state' \in {"ModuleConnected", "ModuleDisconnected"}
    BY <1>1 DEF IInv, TypeOK
  <2> QED
    BY <1>1, <1>2, <2>1, <2>2, <2>3 DEF IInv, TypeOK
<1>4. OfThisSession'
  <2>1. CASE command_queue' = <<>>
    <3>1. session <= reported - Len(<<>>)
      <4>1. session \in 0 .. reported
        BY DEF IInv, TypeOK, Bounded
      <4> QED
        BY <4>1, QueueFacts, EmptySeq
    <3> QED
      BY <1>1, <2>1, <3>1, Zenon DEF OfThisSession
  <2>2. CASE command_queue' = command_queue
    BY <1>1, <2>2 DEF IInv, OfThisSession
  <2> QED
    BY <1>1, <2>1, <2>2
<1>5. InputModuleNotResent'
  BY <1>1 DEF IInv, InputModuleNotResent
<1> QED
  BY <1>1, <1>3, <1>4, <1>5, EmptyingStep DEF IInv

LEMMA NextIInv == IInv /\ [Next]_vars => IInv'
<1> SUFFICES ASSUME IInv, [Next]_vars PROVE IInv'
  OBVIOUS
<1>1. CASE Worker
  BY <1>1, ControlStep, GetNextUpdateStep, TakeCommandStep, TakeFromEmptyStep
     DEF Worker
<1>2. CASE DockLine
  BY <1>2, LineUpdateStep, LineConnectStep, LineDisconnectStep DEF DockLine
<1>3. CASE Scan
  BY <1>3, ScanStep
<1>4. CASE Client
  BY <1>4, QueueUpdateStep DEF Client
<1>5. CASE UNCHANGED vars
  BY <1>5, StutterStep
<1> QED
  BY <1>1, <1>2, <1>3, <1>4, <1>5 DEF Next

LEMMA Invariance == Spec => []IInv
  BY InitIInv, NextIInv, PTL DEF Spec
-----------------------------------------------------------------------------
(* The theorems.                                                           *)

(* The state of a module stays well typed whatever the three threads do.   *)
THEOREM TypeCorrect == Spec => []TypeOK
<1>1. IInv => TypeOK
  BY DEF IInv
<1> QED
  BY <1>1, Invariance, PTL

(* What a connected module has queued for the clients was reported since   *)
(* it connected (connect() and disconnect(), Flotilla_Module.cpp:17-36).   *)
THEOREM SessionsIsolated == Spec => []SessionIsolation
<1>1. IInv => SessionIsolation
  <2> SUFFICES ASSUME IInv,
                      state = "ModuleConnected" \/ upc = "take",
                      NEW i \in 1 .. Len(command_queue)
               PROVE  command_queue[i].seq > session
    BY DEF SessionIsolation
  <2>1. session <= reported - Len(command_queue)
    BY DEF IInv, OfThisSession
  <2>2. command_queue[i].seq = reported - Len(command_queue) + i
    BY QueueFacts DEF Numbered
  <2> QED
    BY <2>1, <2>2, QueueFacts
<1> QED
  BY <1>1, Invariance, PTL

(* The value get_next_command keeps after it was sent is recognised by     *)
(* last_update as long as no client writes (Flotilla_Module.cpp:54-60).    *)
THEOREM KeptValueRecognised == Spec => []InputModuleNotResent
<1>1. IInv => InputModuleNotResent
  BY DEF IInv
<1> QED
  BY <1>1, Invariance, PTL
-----------------------------------------------------------------------------
(* Each direction of a module implements Mailbox.                          *)

(* Taking the oldest of the k values that are left of a, and leaving r of  *)
(* them, where n values were posted: the numbers Mailbox!Take asks for.    *)
LEMMA TakeNumbers ==
  ASSUME NEW n \in Nat, NEW a \in 1 .. n, NEW k \in 1 .. a, NEW r \in 1 .. k
  PROVE  /\ n - a < n
         /\ n - k + 1 \in (n - a + 1) .. n
         /\ n - r \in ((n - k + 1) - 1) .. (n - 1)
         /\ k = a /\ r >= k - 1 => n - k + 1 = n - a + 1 /\ n - r <= n - k + 1
  OBVIOUS

LEMMA EmptyFloor == ASSUME NEW n \in Nat PROVE n - Len(<<>>) = n
<1>1. Len(<<>>) = 0
  OBVIOUS
<1> QED
  BY <1>1

LEMMA CommandsInit == Init => Commands!Init
<1>1. 0 - Len(<<>>) = 0
  BY EmptyFloor
<1>2. NoItem.seq = 0
  BY DEF NoItem
<1> QED
  BY <1>1, <1>2, Zenon DEF Init, Commands!Init

LEMMA CommandsDrop ==
  ASSUME IInv, command_queue' = <<>>, UNCHANGED <<reported, examined>>
  PROVE  Commands!Drop
<1>1. reported - Len(<<>>) = reported
  BY EmptyFloor, QueueFacts
<1> QED
  BY <1>1, Zenon DEF Commands!Drop

LEMMA CommandsTake == ASSUME IInv, TakeCommand PROVE Commands!Take
<1> DEFINE q == command_queue
           rest == PopUnlessLast(Kept)
<1>1. name = "touch" => Len(Kept) = Len(q)
  BY DEF is_volatile, Kept
<1>2. /\ reported - Len(q) < reported
      /\ Head(Kept).seq \in (reported - Len(q) + 1) .. reported
      /\ reported - Len(rest) \in (Head(Kept).seq - 1) .. (reported - 1)
      /\ Len(Kept) = Len(q) =>
           Head(Kept).seq = reported - Len(q) + 1
           /\ reported - Len(rest) <= Head(Kept).seq
  BY KeptFacts, QueueFacts, TakeNumbers
<1>3. /\ command_queue' = rest
      /\ examined' = Head(Kept)
      /\ UNCHANGED <<reported, name>>
  BY DEF TakeCommand, Kept
<1> QED
  BY <1>1, <1>2, <1>3, Zenon DEF Commands!Take

(* Only TakeCommand takes a value; connect(), disconnect() and             *)
(* empty_queue() drop them all.                                            *)
LEMMA CommandsNext == IInv /\ [Next]_vars => [Commands!Next]_(Commands!vars)
<1> SUFFICES ASSUME IInv, [Next]_vars
             PROVE  Commands!Next \/ UNCHANGED Commands!vars
  OBVIOUS
<1>1. CASE Worker
  <2>1. CASE TakeCommand
    BY <2>1, CommandsTake DEF Commands!Next
  <2>2. CASE ~TakeCommand
    BY <1>1, <2>2 DEF Worker, NoUpdate, GetNextUpdate, SkipUpdate, EndInput,
       CheckCommands, TakeFromEmpty, Commands!vars, history
  <2> QED
    BY <2>1, <2>2
<1>2. ASSUME NEW v \in Data \cup {NoData}, LineUpdate(v)
      PROVE  Commands!Next \/ UNCHANGED Commands!vars
  <2>1. CASE v = NoData
    BY <1>2, <2>1 DEF LineUpdate, queue_command, Commands!vars
  <2>2. CASE v # NoData
    <3> DEFINE new == Append(command_queue, [seq |-> reported + 1, val |-> v])
    <3>1. /\ command_queue' = new
          /\ reported' = reported + 1
          /\ UNCHANGED <<name, examined>>
      BY <1>2, <2>2 DEF LineUpdate, queue_command
    <3>2. Len(new) = Len(command_queue) + 1
      BY <2>2, QueueFacts, AppendKeepsNumbering
    <3>3. (reported + 1) - Len(new) = reported - Len(command_queue)
      BY <3>2, QueueFacts
    <3> QED
      BY <3>1, <3>3, Zenon DEF Commands!Next, Commands!Post
  <2> QED
    BY <2>1, <2>2
<1>3. CASE LineDisconnect
  BY <1>3, CommandsDrop DEF LineDisconnect, history, Commands!Next
<1>4. ASSUME NEW n \in Names, LineConnect(n)
      PROVE  Commands!Next \/ UNCHANGED Commands!vars
  BY <1>4, CommandsDrop DEF LineConnect, connect, Commands!Next, Commands!vars
<1>5. CASE Scan
  BY <1>5, CommandsDrop
     DEF Scan, ScanConnect, ScanDisconnect, ScanModule, ScanEmpty, history,
         Commands!Next, Commands!vars
<1>6. CASE Client
  BY <1>6 DEF Client, QueueUpdate, Commands!vars
<1>7. CASE UNCHANGED vars
  BY <1>7 DEF vars, code, history, Commands!vars
<1> QED
  BY <1>1, <1>2, <1>3, <1>4, <1>5, <1>6, <1>7 DEF Next, DockLine

(* Dock -> clients, a FlotillaModule is a Mailbox: reports are looked at   *)
(* in order, skipped only for modules that are not volatile, and the       *)
(* newest is lost only when the module goes (Flotilla_Module.cpp:17-63).   *)
THEOREM CommandsImplementMailbox == Spec => CommandMailbox
  BY CommandsInit, CommandsNext, Invariance, PTL
     DEF Spec, CommandMailbox, Commands!Spec

LEMMA UpdatesInit == Init => Updates!Init
<1>1. 0 - Len(<<>>) = 0
  BY EmptyFloor
<1>2. NoItem.seq = 0
  BY DEF NoItem
<1> QED
  BY <1>1, <1>2, Zenon DEF Init, Updates!Init

LEMMA UpdatesTake == ASSUME IInv, GetNextUpdate PROVE Updates!Take
<1> DEFINE q == update_queue
<1>1. Len(q) \in 1 .. Len(q)
  BY FlushedFacts, QueueFacts
<1>2. /\ posted - Len(q) < posted
      /\ Head(q).seq \in (posted - Len(q) + 1) .. posted
      /\ posted - Len(Flushed) \in (Head(q).seq - 1) .. (posted - 1)
      /\ Len(Flushed) >= Len(q) - 1 =>
           Head(q).seq = posted - Len(q) + 1
           /\ posted - Len(Flushed) <= Head(q).seq
  BY <1>1, FlushedFacts, QueueFacts, TakeNumbers
<1>3. name = "touch" => Len(Flushed) >= Len(q) - 1
  BY FlushedFacts DEF is_volatile
<1>4. /\ update_queue' = Flushed
      /\ considered' = Head(q)
      /\ UNCHANGED <<posted, name>>
  BY DEF GetNextUpdate, Flushed
<1> QED
  BY <1>2, <1>3, <1>4, Zenon DEF Updates!Take

(* Only GetNextUpdate takes a value and nothing drops any; another module  *)
(* may be plugged in while values are pending.                             *)
LEMMA UpdatesNext == IInv /\ [Next]_vars => [Updates!Keeping]_(Updates!vars)
<1> SUFFICES ASSUME IInv, [Next]_vars
             PROVE  Updates!Keeping \/ UNCHANGED Updates!vars
  OBVIOUS
<1>1. CASE Worker
  <2>1. CASE GetNextUpdate
    BY <2>1, UpdatesTake DEF Updates!Keeping
  <2>2. CASE ~GetNextUpdate
    BY <1>1, <2>2 DEF Worker, NoUpdate, SkipUpdate, EndInput, CheckCommands,
       TakeCommand, TakeFromEmpty, Updates!vars, history
  <2> QED
    BY <2>1, <2>2
<1>2. CASE DockLine
  <2>1. UNCHANGED <<update_queue, posted, considered>>
    BY <1>2 DEF DockLine, LineUpdate, LineConnect, LineDisconnect, history
  <2> QED
    BY <2>1, Zenon DEF Updates!Keeping, Updates!Retype
<1>3. CASE Scan
  BY <1>3 DEF Scan, ScanConnect, ScanDisconnect, ScanModule, ScanEmpty, history,
     Updates!vars
<1>4. ASSUME NEW v \in Data \cup {NoData}, QueueUpdate(v)
      PROVE  Updates!Keeping \/ UNCHANGED Updates!vars
  <2>1. CASE v = NoData
    BY <1>4, <2>1 DEF QueueUpdate, queue_update, Updates!vars
  <2>2. CASE v # NoData
    <3> DEFINE new == Append(update_queue, [seq |-> posted + 1, val |-> v])
    <3>1. /\ update_queue' = new
          /\ posted' = posted + 1
          /\ UNCHANGED <<name, considered>>
      BY <1>4, <2>2 DEF QueueUpdate, queue_update
    <3>2. Len(new) = Len(update_queue) + 1
      BY <2>2, QueueFacts, AppendKeepsNumbering
    <3>3. (posted + 1) - Len(new) = posted - Len(update_queue)
      BY <3>2, QueueFacts
    <3> QED
      BY <3>1, <3>3, Zenon DEF Updates!Keeping, Updates!Post
  <2> QED
    BY <2>1, <2>2
<1>5. CASE UNCHANGED vars
  BY <1>5 DEF vars, code, history, Updates!vars
<1> QED
  BY <1>1, <1>2, <1>3, <1>4, <1>5 DEF Next, Client

(* Clients -> dock, a FlotillaModule is a Mailbox: values are looked at in *)
(* order, skipped only for modules that are not volatile, and the newest   *)
(* is never lost, whatever is plugged in (Flotilla_Module.cpp:17-33, 72-104).                       *)
THEOREM UpdatesImplementMailbox == Spec => UpdateMailbox
  BY UpdatesInit, UpdatesNext, Invariance, PTL
     DEF Spec, UpdateMailbox, Updates!KeepSpec
-----------------------------------------------------------------------------
(* What every mailbox guarantees, of both directions of a FlotillaModule.  *)

(* Taking t of the pending values f+1 .. p and keeping g+1 .. p keeps the  *)
(* numbers in range (the arithmetic of Take).                              *)
LEMMA TakeKeepsRange ==
  ASSUME NEW p \in Nat, NEW f \in 0 .. p,
         NEW t \in (f + 1) .. p, NEW g \in (t - 1) .. (p - 1)
  PROVE  g \in 0 .. p /\ t \in 0 .. p /\ t <= g + 1 /\ t >= f + 1
  OBVIOUS

(* Every step of a mailbox keeps its pending values a suffix of the posted *)
(* ones, and the value taken last no newer than the oldest pending one.    *)
LEMMA CommandsMailboxStep == Commands!Inv /\ [Commands!Next]_(Commands!vars) => Commands!Inv'
<1> SUFFICES ASSUME Commands!Inv, [Commands!Next]_(Commands!vars) PROVE Commands!Inv'
  OBVIOUS
<1> PICK f : f = reported - Len(command_queue)
  OBVIOUS
<1> PICK g : g = (reported - Len(command_queue))'
  OBVIOUS
<1> PICK t : t = examined.seq
  OBVIOUS
<1> PICK u : u = examined.seq'
  OBVIOUS
<1>1. reported \in Nat /\ f \in 0 .. reported /\ t \in 0 .. reported /\ t <= f + 1
  BY Zenon DEF Commands!Inv
<1>2. \/ reported' = reported + 1 /\ g = f /\ u = t
      \/ f < reported /\ reported' = reported /\ u \in (f + 1) .. reported /\ g \in (u - 1) .. (reported - 1)
      \/ reported' = reported /\ g = reported /\ u = t
      \/ reported' = reported /\ g = f /\ u = t
  BY Zenon DEF Commands!Next, Commands!Post, Commands!Take, Commands!Drop, Commands!Retype, Commands!vars
<1>3. reported' \in Nat /\ g \in 0 .. reported' /\ u \in 0 .. reported' /\ u <= g + 1
  <2>1. CASE f < reported /\ reported' = reported /\ u \in (f + 1) .. reported /\ g \in (u - 1) .. (reported - 1)
    BY ONLY <1>1, <2>1, TakeKeepsRange
  <2>2. CASE \/ reported' = reported + 1 /\ g = f /\ u = t
             \/ reported' = reported /\ g = reported /\ u = t
             \/ reported' = reported /\ g = f /\ u = t
    BY ONLY <1>1, <2>2
  <2> QED
    BY <1>2, <2>1, <2>2, Zenon
<1>4. (name = "touch")' \in BOOLEAN
  OBVIOUS
<1> QED
  BY <1>3, <1>4, Zenon DEF Commands!Inv

LEMMA UpdatesMailboxStep == Updates!Inv /\ [Updates!Keeping]_(Updates!vars) => Updates!Inv'
<1> SUFFICES ASSUME Updates!Inv, [Updates!Keeping]_(Updates!vars) PROVE Updates!Inv'
  OBVIOUS
<1> PICK f : f = posted - Len(update_queue)
  OBVIOUS
<1> PICK g : g = (posted - Len(update_queue))'
  OBVIOUS
<1> PICK t : t = considered.seq
  OBVIOUS
<1> PICK u : u = considered.seq'
  OBVIOUS
<1>1. posted \in Nat /\ f \in 0 .. posted /\ t \in 0 .. posted /\ t <= f + 1
  BY Zenon DEF Updates!Inv
<1>2. \/ posted' = posted + 1 /\ g = f /\ u = t
      \/ f < posted /\ posted' = posted /\ u \in (f + 1) .. posted /\ g \in (u - 1) .. (posted - 1)
      \/ posted' = posted /\ g = f /\ u = t
  BY Zenon DEF Updates!Keeping, Updates!Post, Updates!Take, Updates!Retype, Updates!vars
<1>3. posted' \in Nat /\ g \in 0 .. posted' /\ u \in 0 .. posted' /\ u <= g + 1
  <2>1. CASE f < posted /\ posted' = posted /\ u \in (f + 1) .. posted /\ g \in (u - 1) .. (posted - 1)
    BY ONLY <1>1, <2>1, TakeKeepsRange
  <2>2. CASE \/ posted' = posted + 1 /\ g = f /\ u = t
             \/ posted' = posted /\ g = f /\ u = t
    BY ONLY <1>1, <2>2
  <2> QED
    BY <1>2, <2>1, <2>2, Zenon
<1>4. (name = "touch")' \in BOOLEAN
  OBVIOUS
<1> QED
  BY <1>3, <1>4, Zenon DEF Updates!Inv

(* Of both queues: what is pending is a suffix of what was posted, and the *)
(* value taken last is not newer than the oldest pending one               *)
(* (Flotilla_Module.cpp:38-63 and 79-104 take from the front and pop from  *)
(* the front).                                                             *)
THEOREM MailboxInv == Spec => [](Commands!Inv /\ Updates!Inv)
<1>1. Commands!Init => Commands!Inv
  BY DEF Commands!Init, Commands!Inv
<1>2. Spec => []Commands!Inv
  BY <1>1, CommandsMailboxStep, CommandsImplementMailbox, PTL
     DEF CommandMailbox, Commands!Spec
<1>3. Updates!Init => Updates!Inv
  BY DEF Updates!Init, Updates!Inv
<1>4. Spec => []Updates!Inv
  BY <1>3, UpdatesMailboxStep, UpdatesImplementMailbox, PTL
     DEF UpdateMailbox, Updates!KeepSpec
<1> QED
  BY <1>2, <1>4, PTL

(* Neither get_next_command nor get_next_update ever goes back to a value  *)
(* older than one it has looked at.                                        *)
THEOREM NeverBackwards == Spec => Commands!NeverBackwards /\ Updates!NeverBackwards
<1>1. Commands!Inv /\ [Commands!Next]_(Commands!vars)
        => [examined.seq' >= examined.seq]_(Commands!vars)
  BY DEF Commands!Inv, Commands!Next, Commands!Post, Commands!Take, Commands!Drop, Commands!Retype
<1>2. Updates!Inv /\ [Updates!Keeping]_(Updates!vars)
        => [considered.seq' >= considered.seq]_(Updates!vars)
  BY DEF Updates!Inv, Updates!Keeping, Updates!Post, Updates!Take, Updates!Retype
<1>3. Spec => Commands!NeverBackwards
  BY <1>1, MailboxInv, CommandsImplementMailbox, PTL
     DEF CommandMailbox, Commands!Spec, Commands!NeverBackwards
<1>4. Spec => Updates!NeverBackwards
  BY <1>2, MailboxInv, UpdatesImplementMailbox, PTL
     DEF UpdateMailbox, Updates!KeepSpec, Updates!NeverBackwards
<1> QED
  BY <1>3, <1>4, PTL

(* What the step that pops a queue removes is what it took, the front.     *)
LEMMA PoppedIsHead ==
  ASSUME NEW q \in Seq(Item), Len(q) > 0, NEW n,
         Queued(q, n), ~Queued(PopUnlessLast(q), n)
  PROVE  Head(q).seq = n
<1>1. Len(q) > 1 /\ PopUnlessLast(q) = Tail(q)
  BY DEF PopUnlessLast
<1>2. PICK i \in 1 .. Len(q) : q[i].seq = n
  BY DEF Queued
<1>3. CASE i = 1
  <2>1. Head(q) = q[1]
    BY <1>1
  <2> QED
    BY <1>2, <1>3, <2>1, Zenon
<1>4. CASE i # 1
  <2>1. i - 1 \in 1 .. Len(q) - 1 /\ (i - 1) + 1 = i
    BY <1>4
  <2>2. /\ Len(Tail(q)) = Len(q) - 1
        /\ Tail(q)[i - 1] = q[(i - 1) + 1]
    BY <1>1, <2>1, TailElements
  <2>3. Queued(Tail(q), n)
    BY <1>2, <2>1, <2>2, Zenon DEF Queued
  <2> QED
    BY <1>1, <2>3, Zenon
<1> QED
  BY <1>3, <1>4

LEMMA AppendLosesNothing ==
  ASSUME NEW q \in Seq(Item), NEW x \in Item, NEW n, Queued(q, n)
  PROVE  Queued(Append(q, x), n)
<1>1. PICK i \in 1 .. Len(q) : q[i].seq = n
  BY DEF Queued
<1>2. i \in 1 .. Len(Append(q, x)) /\ Append(q, x)[i] = q[i]
  OBVIOUS
<1> QED
  BY <1>1, <1>2, Zenon DEF Queued

(* The two conjuncts of TouchSkipsNothing.                                 *)
ReportSeen(n) ==
  Queued(command_queue, n) /\ ~Queued(command_queue', n)
    => examined'.seq = n \/ EmptiesCommands

UpdateSeen(n) ==
  Queued(update_queue, n) /\ ~Queued(update_queue', n) => considered'.seq = n

LEMMA ReportsSeen ==
  ASSUME IInv, [Next]_vars, name = "touch", NEW n
  PROVE  ReportSeen(n)
<1>1. CASE TakeCommand
  <2>1. /\ command_queue' = PopUnlessLast(command_queue)
        /\ examined' = Head(command_queue)
    BY <1>1 DEF TakeCommand, is_volatile
  <2>2. command_queue \in Seq(Item) /\ Len(command_queue) > 0
    BY <1>1, NonEmpty, QueueFacts DEF TakeCommand
  <2> QED
    BY <2>1, <2>2, PoppedIsHead DEF ReportSeen
<1>2. ASSUME NEW v \in Data \cup {NoData}, LineUpdate(v)
      PROVE  ReportSeen(n)
  <2>1. CASE v = NoData
    BY <1>2, <2>1 DEF LineUpdate, queue_command, ReportSeen
  <2>2. CASE v # NoData
    <3> DEFINE x == [seq |-> reported + 1, val |-> v]
    <3>1. x \in Item
      BY <2>2, QueueFacts DEF Item
    <3>2. command_queue' = Append(command_queue, x)
      BY <1>2, <2>2 DEF LineUpdate, queue_command
    <3> QED
      BY <3>1, <3>2, QueueFacts, AppendLosesNothing DEF ReportSeen
  <2> QED
    BY <2>1, <2>2
<1>3. CASE LineDisconnect
  BY <1>3 DEF LineDisconnect, ReportSeen, EmptiesCommands
<1>4. ASSUME NEW m \in Names, LineConnect(m)
      PROVE  ReportSeen(n)
  BY <1>4 DEF LineConnect, connect, ReportSeen, EmptiesCommands, IInv, TypeOK
<1>5. CASE ScanEmpty
  BY <1>5 DEF ScanEmpty, ReportSeen, EmptiesCommands
<1>6. CASE UNCHANGED command_queue
  BY <1>6 DEF ReportSeen
<1>7. CASE Worker
  BY <1>1, <1>6, <1>7 DEF Worker, NoUpdate, GetNextUpdate, SkipUpdate, EndInput,
     CheckCommands, TakeFromEmpty
<1>8. CASE Scan \/ Client \/ UNCHANGED vars
  BY <1>5, <1>6, <1>8 DEF Scan, ScanConnect, ScanDisconnect, ScanModule, Client,
     QueueUpdate, vars, code
<1> QED
  BY <1>2, <1>3, <1>4, <1>7, <1>8, Zenon DEF Next, DockLine

LEMMA UpdatesSeen ==
  ASSUME IInv, [Next]_vars, name = "touch", NEW n
  PROVE  UpdateSeen(n)
<1>1. CASE GetNextUpdate
  <2>1. /\ update_queue' = PopUnlessLast(update_queue)
        /\ considered' = Head(update_queue)
    BY <1>1 DEF GetNextUpdate, is_volatile
  <2>2. update_queue \in Seq(Item) /\ Len(update_queue) > 0
    BY <1>1, NonEmpty, QueueFacts DEF GetNextUpdate
  <2> QED
    BY <2>1, <2>2, PoppedIsHead DEF UpdateSeen
<1>2. ASSUME NEW v \in Data \cup {NoData}, QueueUpdate(v)
      PROVE  UpdateSeen(n)
  <2>1. CASE v = NoData
    BY <1>2, <2>1 DEF QueueUpdate, queue_update, UpdateSeen
  <2>2. CASE v # NoData
    <3> DEFINE x == [seq |-> posted + 1, val |-> v]
    <3>1. x \in Item
      BY <2>2, QueueFacts DEF Item
    <3>2. update_queue' = Append(update_queue, x)
      BY <1>2, <2>2 DEF QueueUpdate, queue_update
    <3> QED
      BY <3>1, <3>2, QueueFacts, AppendLosesNothing DEF UpdateSeen
  <2> QED
    BY <2>1, <2>2
<1>3. CASE UNCHANGED update_queue
  BY <1>3 DEF UpdateSeen
<1>4. CASE Worker \/ DockLine
  BY <1>1, <1>3, <1>4 DEF Worker, NoUpdate, SkipUpdate, EndInput, CheckCommands,
     TakeCommand, TakeFromEmpty, DockLine, LineUpdate, LineConnect, LineDisconnect
<1>5. CASE Scan \/ UNCHANGED vars
  BY <1>3, <1>5 DEF Scan, ScanConnect, ScanDisconnect, ScanModule, ScanEmpty,
     vars, code
<1> QED
  BY <1>2, <1>4, <1>5, Zenon DEF Next, Client

(* No value of a touch module is passed over, in either direction: it      *)
(* leaves its queue in the step that looks at it, or, on the way to the    *)
(* clients, when the module's queue is emptied (Flotilla_Module.cpp:7-8,   *)
(* 38-63, 79-104).                                                         *)
THEOREM TouchSeesAll == Spec => TouchSkipsNothing
<1>1. IInv /\ [Next]_vars
        => [name = "touch" =>
             /\ \A n \in 1 .. reported : ReportSeen(n)
             /\ \A n \in 1 .. posted : UpdateSeen(n)]_vars
  BY ReportsSeen, UpdatesSeen, Zenon
<1> QED
  BY <1>1, Invariance, PTL DEF Spec, TouchSkipsNothing, ReportSeen, UpdateSeen
=============================================================================
