-------------------------- MODULE ModuleEventsProofs --------------------------
(***************************************************************************)
(* Proofs about ModuleEvents, for any number of channels, names, clients   *)
(* and queued events.                                                      *)
(***************************************************************************)
EXTENDS ModuleEvents, SequenceTheorems, TLAPS

USE DEF dock, worker, scan, asio, registry, history

-----------------------------------------------------------------------------
(* Channels and messages.                                                  *)

LEMMA ChannelFacts ==
  /\ 1 \in Channels
  /\ \A ch \in Channels : ch < NumChannels => ch + 1 \in Channels
  BY ChannelAssumption DEF Channels

LEMMA MessageFacts ==
  /\ NoEvent \in Message
  /\ NoLine \in [channel : 0 .. NumChannels, name : Names \cup {NoName}]
  /\ \A m \in Message : m.channel \in Channels
  /\ \A m \in Message, n \in Names \cup {NoName, Torn} :
       [m EXCEPT !.name = n] \in Message
  BY ChannelFacts, ChannelAssumption DEF Message, NoEvent, NoLine

LEMMA LineFacts ==
  ASSUME NEW ch \in Channels, NEW n \in Names \cup {NoName}
  PROVE  [channel |-> ch, name |-> n] \in [channel : 0 .. NumChannels,
                                          name : Names \cup {NoName}]
  BY ChannelAssumption DEF Channels

LEMMA EventIsMessage ==
  ASSUME DockTypeOK, NEW ch \in Channels
  PROVE  module_event(ch) \in Message /\ Update(ch) \in Message
  BY DEF DockTypeOK, module_event, Update, Message

LEMMA Renamed ==
  ASSUME NEW m \in Message, NEW n
  PROVE  [m EXCEPT !.name = n] = [kind |-> m.kind, channel |-> m.channel, name |-> n]
  BY DEF Message

LEMMA HeadAndTail ==
  ASSUME NEW q \in Seq(Message), Len(q) > 0
  PROVE  Head(q) \in Message /\ Tail(q) \in Seq(Message)
  BY HeadTailProperties

(* Queueing an event, and telling a client, keep the types.                *)

LEMMA QueueEventTypes ==
  ASSUME DockTypeOK, HistoryTypeOK, NEW event \in Message, QueueEvent(event)
  PROVE  event_queue' \in Seq(Message) /\ announced' \in [Channels -> Message]
<1>1. event_queue' \in Seq(Message)
  BY AppendProperties DEF QueueEvent, DockTypeOK
<1>2. announced' \in [Channels -> Message]
  BY MessageFacts DEF QueueEvent, HistoryTypeOK
<1> QED
  BY <1>1, <1>2

LEMMA SeesTypes ==
  ASSUME HistoryTypeOK, NEW c, NEW event \in Message,
         NEW what \in Message \cup {Unknown}, Sees(c, event, what)
  PROVE  /\ view' \in [Clients -> [Channels -> Message \cup {Unknown}]]
         /\ overtaken' \in BOOLEAN
<1>1. CASE event.kind = "u"
  BY <1>1 DEF Sees, HistoryTypeOK
<1>2. CASE event.kind # "u"
  <2>1. view' = [view EXCEPT ![c][event.channel] = what]
    BY <1>2 DEF Sees
  <2>2. overtaken' \in BOOLEAN
    BY <1>2 DEF Sees, HistoryTypeOK, Overtakes
  <2> QED
    BY <2>1, <2>2 DEF HistoryTypeOK
<1> QED
  BY <1>1, <1>2

-----------------------------------------------------------------------------
(* One step per action; under it, the groups of variables it changes.      *)
LEMMA TypeStep ==
  ASSUME DockTypeOK, WorkerTypeOK, ScanTypeOK, AsioTypeOK, RegistryTypeOK,
          HistoryTypeOK,
         LineNamesChannel, MessageInHand, ComposedKindCurrent, Next
  PROVE  TypeOK'
<1>1. ASSUME TickStart
      PROVE  TypeOK'
  <2>1. WorkerTypeOK'
    BY <1>1 DEF TickStart, WorkerTypeOK
  <2>2. DockTypeOK' /\ ScanTypeOK' /\ AsioTypeOK' /\ RegistryTypeOK' /\ HistoryTypeOK'
    BY <1>1 DEF TickStart, DockTypeOK, ScanTypeOK, AsioTypeOK, RegistryTypeOK,
            HistoryTypeOK
  <2> QED
    BY <2>1, <2>2 DEF TypeOK
<1>2. ASSUME NEW ch \in Channels, ReadDisconnect(ch)
      PROVE  TypeOK'
  <2>1. DockTypeOK'
    BY <1>2 DEF ReadDisconnect, DockTypeOK
  <2>2. WorkerTypeOK'
    BY <1>2, LineFacts DEF ReadDisconnect, WorkerTypeOK
  <2>3. ScanTypeOK' /\ AsioTypeOK' /\ RegistryTypeOK' /\ HistoryTypeOK'
    BY <1>2 DEF ReadDisconnect, ScanTypeOK, AsioTypeOK, RegistryTypeOK, HistoryTypeOK
  <2> QED
    BY <2>1, <2>2, <2>3 DEF TypeOK
<1>3. ASSUME NEW ch \in Channels, NEW n \in Names, ReadConnect(ch, n)
      PROVE  TypeOK'
  <2>1. DockTypeOK'
    BY <1>3 DEF ReadConnect, DockTypeOK
  <2>2. WorkerTypeOK'
    BY <1>3, LineFacts DEF ReadConnect, WorkerTypeOK
  <2>3. ScanTypeOK' /\ AsioTypeOK' /\ RegistryTypeOK' /\ HistoryTypeOK'
    BY <1>3 DEF ReadConnect, ScanTypeOK, AsioTypeOK, RegistryTypeOK, HistoryTypeOK
  <2> QED
    BY <2>1, <2>2, <2>3 DEF TypeOK
<1>4. ASSUME WriteName
      PROVE  TypeOK'
  <2>1. DockTypeOK'
    BY <1>4 DEF WriteName, DockTypeOK, WorkerTypeOK
  <2>2. WorkerTypeOK'
    BY <1>4 DEF WriteName, WorkerTypeOK
  <2>3. ScanTypeOK' /\ AsioTypeOK' /\ RegistryTypeOK' /\ HistoryTypeOK'
    BY <1>4 DEF WriteName, ScanTypeOK, AsioTypeOK, RegistryTypeOK, HistoryTypeOK
  <2> QED
    BY <2>1, <2>2, <2>3 DEF TypeOK
<1>5. ASSUME SetConnected
      PROVE  TypeOK'
  <2>1. DockTypeOK'
    BY <1>5 DEF SetConnected, DockTypeOK
  <2>2. WorkerTypeOK'
    BY <1>5 DEF SetConnected, WorkerTypeOK
  <2>3. ScanTypeOK' /\ AsioTypeOK' /\ RegistryTypeOK' /\ HistoryTypeOK'
    BY <1>5 DEF SetConnected, ScanTypeOK, AsioTypeOK, RegistryTypeOK, HistoryTypeOK
  <2> QED
    BY <2>1, <2>2, <2>3 DEF TypeOK
<1>6. ASSUME QueueLineEvent
      PROVE  TypeOK'
  <2>0. module_event(line.channel) \in Message
    BY <1>6, EventIsMessage DEF QueueLineEvent, LineNamesChannel
  <2>1. DockTypeOK'
    BY <1>6, <2>0, QueueEventTypes DEF QueueLineEvent, DockTypeOK
  <2>2. WorkerTypeOK'
    BY <1>6, MessageFacts DEF QueueLineEvent, QueueEvent, WorkerTypeOK
  <2>3. HistoryTypeOK'
    BY <1>6, <2>0, QueueEventTypes DEF QueueLineEvent, HistoryTypeOK
  <2>4. ScanTypeOK' /\ AsioTypeOK' /\ RegistryTypeOK'
    BY <1>6 DEF QueueLineEvent, ScanTypeOK, AsioTypeOK, RegistryTypeOK
  <2> QED
    BY <2>1, <2>2, <2>3, <2>4 DEF TypeOK
<1>7. ASSUME EndLines
      PROVE  TypeOK'
  <2>1. WorkerTypeOK'
    BY <1>7 DEF EndLines, WorkerTypeOK
  <2>2. DockTypeOK' /\ ScanTypeOK' /\ AsioTypeOK' /\ RegistryTypeOK' /\ HistoryTypeOK'
    BY <1>7 DEF EndLines, DockTypeOK, ScanTypeOK, AsioTypeOK, RegistryTypeOK,
            HistoryTypeOK
  <2> QED
    BY <2>1, <2>2 DEF TypeOK
<1>8. ASSUME GetPendingEvents
      PROVE  TypeOK'
  <2>1. DockTypeOK'
    BY <1>8 DEF GetPendingEvents, DockTypeOK
  <2>2. WorkerTypeOK'
    BY <1>8 DEF GetPendingEvents, WorkerTypeOK, DockTypeOK
  <2>3. ScanTypeOK' /\ AsioTypeOK' /\ RegistryTypeOK' /\ HistoryTypeOK'
    BY <1>8 DEF GetPendingEvents, ScanTypeOK, AsioTypeOK, RegistryTypeOK,
            HistoryTypeOK
  <2> QED
    BY <2>1, <2>2, <2>3 DEF TypeOK
<1>9. ASSUME GetPendingCommands
      PROVE  TypeOK'
  <2>1. WorkerTypeOK'
    BY <1>9, EventIsMessage DEF GetPendingCommands, WorkerTypeOK
  <2>2. DockTypeOK' /\ ScanTypeOK' /\ AsioTypeOK' /\ RegistryTypeOK' /\ HistoryTypeOK'
    BY <1>9 DEF GetPendingCommands, DockTypeOK, ScanTypeOK, AsioTypeOK,
            RegistryTypeOK, HistoryTypeOK
  <2> QED
    BY <2>1, <2>2 DEF TypeOK
<1>10. ASSUME BeginMessage
      PROVE  TypeOK'
  <2>1. WorkerTypeOK'
    BY <1>10 DEF BeginMessage, WorkerTypeOK, RegistryTypeOK
  <2>2. DockTypeOK' /\ ScanTypeOK' /\ AsioTypeOK' /\ RegistryTypeOK' /\ HistoryTypeOK'
    BY <1>10 DEF BeginMessage, DockTypeOK, ScanTypeOK, AsioTypeOK, RegistryTypeOK,
            HistoryTypeOK
  <2> QED
    BY <2>1, <2>2 DEF TypeOK
<1>11. ASSUME NEW c \in Clients, CopyClient(c)
      PROVE  TypeOK'
  <2>0. Head(batch) \in Message /\ Tail(batch) \in Seq(Message)
    BY <1>11, HeadAndTail DEF CopyClient, MessageInHand, WorkerTypeOK
  <2>1. WorkerTypeOK'
    BY <1>11 DEF CopyClient, Sees, WorkerTypeOK
  <2>2. HistoryTypeOK'
    BY <1>11, <2>0, SeesTypes DEF CopyClient, HistoryTypeOK
  <2>3. DockTypeOK' /\ ScanTypeOK' /\ AsioTypeOK' /\ RegistryTypeOK'
    BY <1>11 DEF CopyClient, DockTypeOK, ScanTypeOK, AsioTypeOK, RegistryTypeOK
  <2> QED
    BY <2>1, <2>2, <2>3 DEF TypeOK
<1>12. ASSUME Send
      PROVE  TypeOK'
  <2>0. Head(batch) \in Message /\ Tail(batch) \in Seq(Message)
    BY <1>12, HeadAndTail DEF Send, MessageInHand, WorkerTypeOK
  <2>1. WorkerTypeOK'
    BY <1>12 DEF Send, Sees, WorkerTypeOK
  <2>2. HistoryTypeOK'
    BY <1>12, <2>0, SeesTypes DEF Send, HistoryTypeOK
  <2>3. DockTypeOK' /\ ScanTypeOK' /\ AsioTypeOK' /\ RegistryTypeOK'
    BY <1>12 DEF Send, DockTypeOK, ScanTypeOK, AsioTypeOK, RegistryTypeOK
  <2> QED
    BY <2>1, <2>2, <2>3 DEF TypeOK
<1>13. ASSUME EndMessage
      PROVE  TypeOK'
  <2>0. Head(batch) \in Message /\ Tail(batch) \in Seq(Message)
    BY <1>13, HeadAndTail DEF EndMessage, MessageInHand, WorkerTypeOK
  <2>1. WorkerTypeOK'
    BY <1>13, <2>0 DEF EndMessage, WorkerTypeOK
  <2>2. DockTypeOK' /\ ScanTypeOK' /\ AsioTypeOK' /\ RegistryTypeOK' /\ HistoryTypeOK'
    BY <1>13 DEF EndMessage, DockTypeOK, ScanTypeOK, AsioTypeOK, RegistryTypeOK,
            HistoryTypeOK
  <2> QED
    BY <2>1, <2>2 DEF TypeOK
<1>14. ASSUME MessagesDone
      PROVE  TypeOK'
  <2>1. WorkerTypeOK'
    BY <1>14 DEF MessagesDone, WorkerTypeOK
  <2>2. DockTypeOK' /\ ScanTypeOK' /\ AsioTypeOK' /\ RegistryTypeOK' /\ HistoryTypeOK'
    BY <1>14 DEF MessagesDone, DockTypeOK, ScanTypeOK, AsioTypeOK, RegistryTypeOK,
            HistoryTypeOK
  <2> QED
    BY <2>1, <2>2 DEF TypeOK
<1>15. ASSUME ScanConnect
      PROVE  TypeOK'
  <2>1. DockTypeOK'
    BY <1>15 DEF ScanConnect, DockTypeOK
  <2>2. WorkerTypeOK' /\ ScanTypeOK' /\ AsioTypeOK' /\ RegistryTypeOK' /\ HistoryTypeOK'
    BY <1>15 DEF ScanConnect, WorkerTypeOK, ScanTypeOK, AsioTypeOK, RegistryTypeOK,
            HistoryTypeOK
  <2> QED
    BY <2>1, <2>2 DEF TypeOK
<1>16. ASSUME ScanDisconnect
      PROVE  TypeOK'
  <2>1. DockTypeOK'
    BY <1>16 DEF ScanDisconnect, DockTypeOK
  <2>2. ScanTypeOK'
    BY <1>16, ChannelFacts DEF ScanDisconnect, ScanTypeOK
  <2>3. WorkerTypeOK' /\ AsioTypeOK' /\ RegistryTypeOK' /\ HistoryTypeOK'
    BY <1>16 DEF ScanDisconnect, WorkerTypeOK, AsioTypeOK, RegistryTypeOK,
            HistoryTypeOK
  <2> QED
    BY <2>1, <2>2, <2>3 DEF TypeOK
<1>17. ASSUME ScanModule
      PROVE  TypeOK'
  <2>1. DockTypeOK'
    BY <1>17 DEF ScanModule, NextScanned, DockTypeOK
  <2>2. ScanTypeOK'
    BY <1>17, ChannelFacts DEF ScanModule, NextScanned, ScanTypeOK
  <2>3. WorkerTypeOK' /\ AsioTypeOK' /\ RegistryTypeOK' /\ HistoryTypeOK'
    BY <1>17 DEF ScanModule, WorkerTypeOK, AsioTypeOK, RegistryTypeOK, HistoryTypeOK
  <2> QED
    BY <2>1, <2>2, <2>3 DEF TypeOK
<1>18. ASSUME ScanKind
      PROVE  TypeOK'
  <2>1. ScanTypeOK'
    BY <1>18, EventIsMessage DEF ScanKind, ScanTypeOK
  <2>2. DockTypeOK' /\ WorkerTypeOK' /\ AsioTypeOK' /\ RegistryTypeOK' /\ HistoryTypeOK'
    BY <1>18 DEF ScanKind, DockTypeOK, WorkerTypeOK, AsioTypeOK, RegistryTypeOK,
            HistoryTypeOK
  <2> QED
    BY <2>1, <2>2 DEF TypeOK
<1>19. ASSUME ScanName
      PROVE  TypeOK'
  <2>0. [smsg EXCEPT !.name = name[sch]] \in Message
    BY <1>19, MessageFacts DEF ScanTypeOK, DockTypeOK
  <2>1. DockTypeOK'
    BY <1>19, <2>0, QueueEventTypes DEF ScanName, DockTypeOK
  <2>2. ScanTypeOK'
    BY <1>19, MessageFacts, ChannelFacts DEF ScanName, QueueEvent, NextScanned,
            ScanTypeOK
  <2>3. HistoryTypeOK'
    BY <1>19, <2>0, QueueEventTypes DEF ScanName, HistoryTypeOK
  <2>4. WorkerTypeOK' /\ AsioTypeOK' /\ RegistryTypeOK'
    BY <1>19 DEF ScanName, WorkerTypeOK, AsioTypeOK, RegistryTypeOK
  <2> QED
    BY <2>1, <2>2, <2>3, <2>4 DEF TypeOK
<1>20. ASSUME NEW c \in Clients, websocket_on_open(c)
      PROVE  TypeOK'
  <2>1. RegistryTypeOK'
    BY <1>20 DEF websocket_on_open, RegistryTypeOK
  <2>2. DockTypeOK' /\ WorkerTypeOK' /\ ScanTypeOK' /\ AsioTypeOK' /\ HistoryTypeOK'
    BY <1>20 DEF websocket_on_open, DockTypeOK, WorkerTypeOK, ScanTypeOK,
            AsioTypeOK, HistoryTypeOK
  <2> QED
    BY <2>1, <2>2 DEF TypeOK
<1>21. ASSUME NEW c \in Clients, websocket_on_close(c)
      PROVE  TypeOK'
  <2>1. RegistryTypeOK'
    BY <1>21 DEF websocket_on_close, RegistryTypeOK
  <2>2. HistoryTypeOK'
    BY <1>21 DEF websocket_on_close, HistoryTypeOK
  <2>3. DockTypeOK' /\ WorkerTypeOK' /\ ScanTypeOK' /\ AsioTypeOK'
    BY <1>21 DEF websocket_on_close, DockTypeOK, WorkerTypeOK, ScanTypeOK, AsioTypeOK
  <2> QED
    BY <2>1, <2>2, <2>3 DEF TypeOK
<1>22. ASSUME NEW c \in Clients, Pause(c)
      PROVE  TypeOK'
  <2>1. RegistryTypeOK'
    BY <1>22 DEF Pause, RegistryTypeOK
  <2>2. DockTypeOK' /\ WorkerTypeOK' /\ ScanTypeOK' /\ AsioTypeOK' /\ HistoryTypeOK'
    BY <1>22 DEF Pause, DockTypeOK, WorkerTypeOK, ScanTypeOK, AsioTypeOK,
            HistoryTypeOK
  <2> QED
    BY <2>1, <2>2 DEF TypeOK
<1>23. ASSUME NEW c \in Clients, NEW on \in BOOLEAN, Subscribe(c, on)
      PROVE  TypeOK'
  <2>1. RegistryTypeOK'
    BY <1>23 DEF Subscribe, RegistryTypeOK
  <2>2. DockTypeOK' /\ WorkerTypeOK' /\ ScanTypeOK' /\ AsioTypeOK' /\ HistoryTypeOK'
    BY <1>23 DEF Subscribe, DockTypeOK, WorkerTypeOK, ScanTypeOK, AsioTypeOK,
            HistoryTypeOK
  <2> QED
    BY <2>1, <2>2 DEF TypeOK
<1>24. ASSUME NEW c \in Clients, NEW b \in BOOLEAN, InitClient(c, b)
      PROVE  TypeOK'
  <2>1. AsioTypeOK'
    BY <1>24 DEF InitClient, AsioTypeOK
  <2>2. RegistryTypeOK'
    BY <1>24 DEF InitClient, RegistryTypeOK
  <2>3. DockTypeOK' /\ WorkerTypeOK' /\ ScanTypeOK' /\ HistoryTypeOK'
    BY <1>24 DEF InitClient, DockTypeOK, WorkerTypeOK, ScanTypeOK, HistoryTypeOK
  <2> QED
    BY <2>1, <2>2, <2>3 DEF TypeOK
<1>25. ASSUME InitDock
      PROVE  TypeOK'
  <2>1. AsioTypeOK'
    BY <1>25 DEF InitDock, AsioTypeOK
  <2>2. DockTypeOK' /\ WorkerTypeOK' /\ ScanTypeOK' /\ RegistryTypeOK' /\ HistoryTypeOK'
    BY <1>25 DEF InitDock, DockTypeOK, WorkerTypeOK, ScanTypeOK, RegistryTypeOK,
            HistoryTypeOK
  <2> QED
    BY <2>1, <2>2 DEF TypeOK
<1>26. ASSUME InitCheck
      PROVE  TypeOK'
  <2>1. AsioTypeOK'
    BY <1>26, ChannelFacts DEF InitCheck, NextInit, AsioTypeOK
  <2>2. DockTypeOK' /\ WorkerTypeOK' /\ ScanTypeOK' /\ RegistryTypeOK' /\ HistoryTypeOK'
    BY <1>26 DEF InitCheck, DockTypeOK, WorkerTypeOK, ScanTypeOK, RegistryTypeOK,
            HistoryTypeOK
  <2> QED
    BY <2>1, <2>2 DEF TypeOK
<1>27. ASSUME InitKind
      PROVE  TypeOK'
  <2>1. AsioTypeOK'
    BY <1>27, EventIsMessage DEF InitKind, AsioTypeOK
  <2>2. HistoryTypeOK'
    BY <1>27 DEF InitKind, HistoryTypeOK
  <2>3. DockTypeOK' /\ WorkerTypeOK' /\ ScanTypeOK' /\ RegistryTypeOK'
    BY <1>27 DEF InitKind, DockTypeOK, WorkerTypeOK, ScanTypeOK, RegistryTypeOK
  <2> QED
    BY <2>1, <2>2, <2>3 DEF TypeOK
<1>28. ASSUME InitName
      PROVE  TypeOK'
  <2>1. AsioTypeOK'
    BY <1>28, MessageFacts DEF InitName, AsioTypeOK, DockTypeOK
  <2>2. DockTypeOK' /\ WorkerTypeOK' /\ ScanTypeOK' /\ RegistryTypeOK' /\ HistoryTypeOK'
    BY <1>28 DEF InitName, DockTypeOK, WorkerTypeOK, ScanTypeOK, RegistryTypeOK,
            HistoryTypeOK
  <2> QED
    BY <2>1, <2>2 DEF TypeOK
<1>29. ASSUME InitSend
      PROVE  TypeOK'
  <2>1. AsioTypeOK'
    BY <1>29, ChannelFacts, MessageFacts DEF InitSend, NextInit, AsioTypeOK
  <2>2. HistoryTypeOK'
    BY <1>29 DEF InitSend, AsioTypeOK, HistoryTypeOK
  <2>3. DockTypeOK' /\ WorkerTypeOK' /\ ScanTypeOK' /\ RegistryTypeOK'
    BY <1>29 DEF InitSend, DockTypeOK, WorkerTypeOK, ScanTypeOK, RegistryTypeOK
  <2> QED
    BY <2>1, <2>2, <2>3 DEF TypeOK
<1> QED
  BY <1>1, <1>2, <1>3, <1>4, <1>5, <1>6, <1>7, <1>8, <1>9, <1>10, <1>11, <1>12,
          <1>13, <1>14, <1>15, <1>16, <1>17, <1>18, <1>19, <1>20, <1>21, <1>22,
                  <1>23, <1>24, <1>25, <1>26, <1>27, <1>28, <1>29 DEF Next,
                          worker_update_clients, worker_dock_scan,
                                  websocket_handlers, init_client
-----------------------------------------------------------------------------
(* The small invariants: every action, expanded.                           *)
LEMMA LineStep ==
  ASSUME LineNamesChannel, Next
  PROVE  LineNamesChannel'
  BY DEF LineNamesChannel,
        Next, worker_update_clients, worker_dock_scan, websocket_handlers, init_client,
        TickStart, ReadDisconnect, ReadConnect, WriteName, SetConnected, QueueLineEvent,
        EndLines, GetPendingEvents, GetPendingCommands, BeginMessage, CopyClient, Send,
        EndMessage, MessagesDone, ScanConnect, ScanDisconnect, ScanModule, ScanKind,
        ScanName, websocket_on_open, websocket_on_close, Pause, Subscribe, InitClient,
        InitDock, InitCheck, InitKind, InitName, InitSend

LEMMA MessageStep ==
  ASSUME WorkerTypeOK, MessageInHand, Next
  PROVE  MessageInHand'
  BY EmptySeq DEF MessageInHand, WorkerTypeOK,
        Next, worker_update_clients, worker_dock_scan, websocket_handlers, init_client,
        TickStart, ReadDisconnect, ReadConnect, WriteName, SetConnected, QueueLineEvent,
        EndLines, GetPendingEvents, GetPendingCommands, BeginMessage, CopyClient, Send,
        EndMessage, MessagesDone, ScanConnect, ScanDisconnect, ScanModule, ScanKind,
        ScanName, websocket_on_open, websocket_on_close, Pause, Subscribe, InitClient,
        InitDock, InitCheck, InitKind, InitName, InitSend

LEMMA ClientsStep ==
  ASSUME SendsToOpenClient, Next
  PROVE  SendsToOpenClient'
  BY DEF SendsToOpenClient, ClientsMutexFree,
        Next, worker_update_clients, worker_dock_scan, websocket_handlers, init_client,
        TickStart, ReadDisconnect, ReadConnect, WriteName, SetConnected, QueueLineEvent,
        EndLines, GetPendingEvents, GetPendingCommands, BeginMessage, CopyClient, Send,
        EndMessage, MessagesDone, ScanConnect, ScanDisconnect, ScanModule, ScanKind,
        ScanName, websocket_on_open, websocket_on_close, Pause, Subscribe, InitClient,
        InitDock, InitCheck, InitKind, InitName, InitSend
-----------------------------------------------------------------------------
(* While worker_dock_scan holds the dock's mutex, what it has read of the  *)
(* module's state stays true until process_command has an event to queue.  *)
LEMMA ComposedStep ==
  ASSUME TypeOK, LineNamesChannel, ComposedKindCurrent, Next
  PROVE  ComposedKindCurrent'
<1> USE DEF TypeOK, DockTypeOK, ScanTypeOK, ComposedKindCurrent, module_event,
            WorkerOwes
<1>1. ASSUME NEW ch \in Channels, ReadDisconnect(ch)
      PROVE  ComposedKindCurrent'
  BY <1>1 DEF ReadDisconnect
<1>2. ASSUME NEW ch \in Channels, NEW n \in Names, ReadConnect(ch, n)
      PROVE  ComposedKindCurrent'
  BY <1>2 DEF ReadConnect
<1>3. ASSUME WriteName
      PROVE  ComposedKindCurrent'
  BY <1>3 DEF WriteName
<1>4. ASSUME SetConnected
      PROVE  ComposedKindCurrent'
  BY <1>4 DEF SetConnected
<1>5. ASSUME QueueLineEvent
      PROVE  ComposedKindCurrent'
  BY <1>5 DEF QueueLineEvent, QueueEvent, DockMutexFree
<1>6. ASSUME ScanConnect \/ ScanDisconnect
      PROVE  ComposedKindCurrent'
  BY <1>6 DEF ScanConnect, ScanDisconnect
<1>7. ASSUME ScanModule
      PROVE  ComposedKindCurrent'
  BY <1>7 DEF ScanModule, NextScanned
<1>8. ASSUME ScanKind
      PROVE  ComposedKindCurrent'
  BY <1>8 DEF ScanKind
<1>9. ASSUME ScanName
      PROVE  ComposedKindCurrent'
  BY <1>9 DEF ScanName, QueueEvent, NextScanned
<1>10. ASSUME \/ TickStart \/ EndLines \/ GetPendingEvents \/ GetPendingCommands
             \/ BeginMessage \/ (\E c \in Clients : CopyClient(c)) \/ Send
             \/ EndMessage \/ MessagesDone
      PROVE  ComposedKindCurrent'
  BY <1>10 DEF TickStart, EndLines, GetPendingEvents, GetPendingCommands,
          BeginMessage, CopyClient,
        Send, Sees, EndMessage, MessagesDone
<1>11. ASSUME websocket_handlers
      PROVE  ComposedKindCurrent'
  BY <1>11 DEF websocket_handlers, websocket_on_open, websocket_on_close, Pause,
          Subscribe,
        init_client, InitClient, InitDock, InitCheck, InitKind, InitName, InitSend
<1> QED
  BY <1>1, <1>2, <1>3, <1>4, <1>5, <1>6, <1>7, <1>8, <1>9, <1>10, <1>11 DEF Next,
          worker_update_clients, worker_dock_scan

LEMMA ConvergeStep ==
  ASSUME TypeOK, LineNamesChannel, ComposedKindCurrent, Converged, Next
  PROVE  Converged'
<1> SUFFICES ASSUME NEW h \in Channels, ~WorkerOwes(h)', ~ScanOwesGone(h)'
             PROVE  announced'[h] = module_event(h)'
  BY DEF Converged
<1>0. WorkerOwes(h) \/ ScanOwesGone(h) \/ announced[h] = module_event(h)
  BY DEF Converged
<1> USE DEF TypeOK, DockTypeOK, WorkerTypeOK, ScanTypeOK, HistoryTypeOK,
            LineNamesChannel, ComposedKindCurrent, WorkerOwes, ScanOwesGone, module_event
<1>1. ASSUME NEW ch \in Channels, ReadDisconnect(ch)
      PROVE  announced'[h] = module_event(h)'
  BY <1>0, <1>1 DEF ReadDisconnect
<1>2. ASSUME NEW ch \in Channels, NEW n \in Names, ReadConnect(ch, n)
      PROVE  announced'[h] = module_event(h)'
  BY <1>0, <1>2 DEF ReadConnect
<1>3. ASSUME WriteName
      PROVE  announced'[h] = module_event(h)'
  BY <1>0, <1>3 DEF WriteName
<1>4. ASSUME SetConnected
      PROVE  announced'[h] = module_event(h)'
  BY <1>0, <1>4 DEF SetConnected
<1>5. ASSUME QueueLineEvent
      PROVE  announced'[h] = module_event(h)'
  BY <1>0, <1>5 DEF QueueLineEvent, QueueEvent, DockMutexFree
<1>6. ASSUME ScanConnect \/ ScanDisconnect
      PROVE  announced'[h] = module_event(h)'
  BY <1>0, <1>6 DEF ScanConnect, ScanDisconnect
<1>7. ASSUME ScanModule
      PROVE  announced'[h] = module_event(h)'
  BY <1>0, <1>7 DEF ScanModule, NextScanned
<1>8. ASSUME ScanKind
      PROVE  announced'[h] = module_event(h)'
  BY <1>0, <1>8 DEF ScanKind
<1>9. ASSUME ScanName
      PROVE  announced'[h] = module_event(h)'
  <2>1. [smsg EXCEPT !.name = name[sch]] =
          [kind |-> smsg.kind, channel |-> sch, name |-> name[sch]]
    BY <1>9, Renamed DEF ScanName
  <2>2. announced' = [announced EXCEPT ![sch] =
                        [kind |-> smsg.kind, channel |-> sch, name |-> name[sch]]]
    BY <1>9, <2>1 DEF ScanName, QueueEvent
  <2>3. UNCHANGED <<state, name, upc, line>>
    BY <1>9 DEF ScanName
  <2>4. CASE h = sch
    BY <1>9, <2>2, <2>3, <2>4 DEF ScanName
  <2>5. CASE h # sch
    BY <1>0, <1>9, <2>2, <2>3, <2>5 DEF ScanName
  <2> QED
    BY <2>4, <2>5
<1>10. ASSUME \/ TickStart \/ EndLines \/ GetPendingEvents \/ GetPendingCommands
             \/ BeginMessage \/ (\E c \in Clients : CopyClient(c)) \/ Send
             \/ EndMessage \/ MessagesDone
      PROVE  announced'[h] = module_event(h)'
  BY <1>0, <1>10 DEF TickStart, EndLines, GetPendingEvents, GetPendingCommands,
          BeginMessage, CopyClient,
        Send, Sees, EndMessage, MessagesDone
<1>11. ASSUME websocket_handlers
      PROVE  announced'[h] = module_event(h)'
  BY <1>0, <1>11 DEF websocket_handlers, websocket_on_open, websocket_on_close,
          Pause, Subscribe,
        init_client, InitClient, InitDock, InitCheck, InitKind, InitName, InitSend
<1> QED
  BY <1>1, <1>2, <1>3, <1>4, <1>5, <1>6, <1>7, <1>8, <1>9, <1>10, <1>11 DEF Next,
          worker_update_clients, worker_dock_scan
-----------------------------------------------------------------------------
LEMMA InitIInv == Init => IInv
<1> SUFFICES ASSUME Init PROVE IInv
  OBVIOUS
<1>1. TypeOK
  <2>1. DockTypeOK /\ announced \in [Channels -> Message]
    BY EmptySeq DEF Init, DockTypeOK, module_event, Message
  <2>2. WorkerTypeOK
    BY MessageFacts, EmptySeq DEF Init, WorkerTypeOK
  <2>3. ScanTypeOK /\ AsioTypeOK
    BY MessageFacts, ChannelFacts DEF Init, ScanTypeOK, AsioTypeOK
  <2>4. RegistryTypeOK /\ HistoryTypeOK
    BY <2>1 DEF Init, RegistryTypeOK, HistoryTypeOK
  <2> QED
    BY <2>1, <2>2, <2>3, <2>4 DEF TypeOK
<1>2. LineNamesChannel /\ MessageInHand /\ ComposedKindCurrent
  BY DEF Init, LineNamesChannel, MessageInHand, ComposedKindCurrent
<1>3. Converged
  BY DEF Init, Converged
<1> QED
  BY <1>1, <1>2, <1>3 DEF IInv

LEMMA StepIInv == IInv /\ [Next]_vars => IInv'
<1>1. ASSUME IInv, Next
      PROVE  IInv'
  BY <1>1, TypeStep, LineStep, MessageStep, ComposedStep, ConvergeStep DEF IInv,
          TypeOK
<1>2. ASSUME IInv, UNCHANGED vars
      PROVE  IInv'
  BY <1>2 DEF IInv, TypeOK, DockTypeOK, WorkerTypeOK, ScanTypeOK, AsioTypeOK,
        RegistryTypeOK, HistoryTypeOK, LineNamesChannel, MessageInHand,
        ComposedKindCurrent, Converged, WorkerOwes, ScanOwesGone, module_event, vars
<1> QED
  BY <1>1, <1>2

LEMMA IInvAlways == Spec => []IInv
<1> QED
  BY InitIInv, StepIInv, PTL DEF Spec

(* Whatever lines the dock sends and whatever the three threads interleave,*)
(* every variable keeps its type: channel indices stay below MAX_CHANNELS. *)
THEOREM TypeCorrect == Spec => []TypeOK
<1>1. IInv => TypeOK
  BY DEF IInv
<1> QED
  BY <1>1, IInvAlways, PTL

(* The last event queued about a channel agrees with the channel's state   *)
(* and name, for any number of channels, names and clients, although       *)
(* FlotillaModule's state and name are not locked: each writer queues an   *)
(* event after it has written, and queue_module_event composes the event   *)
(* and queues it in one critical section.                                  *)
THEOREM EventsAgree == Spec => []EventsConverge
<1>1. IInv => EventsConverge
  BY DEF IInv, Converged, EventsConverge, ScanOwesGone, ScanOwes
<1> QED
  BY <1>1, IInvAlways, PTL

(* send_to_clients never comes to a client that on_close or on_fail has    *)
(* erased since it began to iterate.                                       *)
THEOREM NoErasedClient == Spec => []SendsToOpenClient
<1>1. Init => SendsToOpenClient
  BY DEF Init, SendsToOpenClient
<1>2. SendsToOpenClient /\ [Next]_vars => SendsToOpenClient'
  <2>1. ASSUME SendsToOpenClient, UNCHANGED vars
        PROVE  SendsToOpenClient'
    BY <2>1 DEF SendsToOpenClient, vars
  <2> QED
    BY <2>1, ClientsStep
<1> QED
  BY <1>1, <1>2, PTL DEF Spec
-----------------------------------------------------------------------------
(* What a client sees.  An event about a channel goes from the line that   *)
(* is being processed, or from worker_dock_scan, to event_queue, from      *)
(* there to batch, and to one client after the other.                      *)

About(m, ch) == m.kind # "u" /\ m.channel = ch

Has(q, ch) == \E i \in 1 .. Len(q) : About(q[i], ch)

HasGone(q, ch) == \E i \in 1 .. Len(q) : q[i].kind = "d" /\ q[i].channel = ch

(* If there are events about the channel in q, the last of them is e.      *)
LastIs(q, ch, e) ==
  \A i \in 1 .. Len(q) :
    About(q[i], ch) /\ (\A j \in 1 .. Len(q) : j > i => ~About(q[j], ch)) => q[i] = e

(* From get_pending_events to the next tick().                             *)
Collected == upc \in {"announce", "commands", "report", "clients", "send"}

(* Once the events have been collected, only worker_dock_scan can queue    *)
(* one that changes anything, and it says that the module has gone.        *)
QueueOwes(ch) ==
  IF Collected THEN HasGone(event_queue, ch) ELSE Has(event_queue, ch)

Gone(ch) == ScanOwesGone(ch) \/ QueueOwes(ch)

(* An event that send_to_clients has collected and not yet sent to c.      *)
BatchTo(c, ch) ==
  IF upc \in {"clients", "send"} /\ c \notin todo THEN Has(Tail(batch), ch)
                                                  ELSE Has(batch, ch)

Owed(c, ch) == WorkerOwes(ch) \/ Gone(ch) \/ BatchTo(c, ch)

(* The invariant: the last event queued about a channel is the last in the *)
(* queue ...                                                               *)
LastQueued == \A ch \in Channels : LastIs(event_queue, ch, announced[ch])

(* ... and the last one collected says what the channel is ...             *)
LastCollected ==
  Collected => \A ch \in Channels : Gone(ch) \/ LastIs(batch, ch, module_event(ch))

(* ... the queue has only events; batch is empty unless it is being sent,  *)
(* and then has only events or only updates ...                            *)
EventKinds ==
  /\ smsg.kind # "u"
  /\ \A i \in 1 .. Len(event_queue) : event_queue[i].kind # "u"

NothingCollected ==
  upc \notin {"announce", "report", "clients", "send"} => batch = <<>>

OneKind ==
  /\ upc = "report" => \A i \in 1 .. Len(batch) : batch[i].kind = "u"
  /\ upc = "announce" => \A i \in 1 .. Len(batch) : batch[i].kind # "u"
  /\ upc \in {"clients", "send"} =>
       \A i \in 1 .. Len(batch) : batch[i].kind = "u" <=> Head(batch).kind = "u"

(* ... who is being served is connected, and nobody else has a view ...    *)
ServedIsOpen ==
  /\ apc # "idle" => icl \in clients
  /\ upc = "send" => target \in todo
  /\ \A c \in Clients \ clients, ch \in Channels : view[c][ch] = Unknown

(* ... what a client sees of a channel is so, or it is owed an event ...   *)
ViewOwed ==
  \A c \in Clients, ch \in Channels :
    view[c][ch] = Unknown \/ Owed(c, ch) \/ view[c][ch] = module_event(ch)

(* ... and so is what init_client has read of it, unless overtaken ...     *)
SnapshotOwed ==
  apc \in {"name", "send"} =>
    /\ imsg.channel = ich
    /\ \/ overtaken
       \/ Owed(icl, ich)
       \/ /\ imsg.kind = module_event(ich).kind
          /\ apc = "send" => imsg.name = name[ich]

(* ... and an update names a module that is connected by the name it has,  *)
(* unless it has gone since.                                               *)
UpdatesNamed ==
  \A i \in 1 .. Len(batch) :
    batch[i].kind = "u" =>
      /\ batch[i].name = name[batch[i].channel]
      /\ Gone(batch[i].channel) \/ state[batch[i].channel] = "ModuleConnected"

ViewIInv ==
  /\ IInv /\ SendsToOpenClient
  /\ LastQueued /\ LastCollected
  /\ EventKinds /\ NothingCollected /\ OneKind /\ ServedIsOpen
  /\ ViewOwed /\ SnapshotOwed /\ UpdatesNamed

-----------------------------------------------------------------------------
(* Events in a sequence of messages, at its end and at its head.           *)

LEMMA AppendHas ==
  ASSUME NEW q \in Seq(Message), NEW e \in Message, NEW ch
  PROVE  /\ Has(q, ch) \/ About(e, ch) => Has(Append(q, e), ch)
         /\ HasGone(q, ch) \/ (e.kind = "d" /\ e.channel = ch)
              => HasGone(Append(q, e), ch)
<1>1. /\ Len(Append(q, e)) = Len(q) + 1 /\ Append(q, e)[Len(q) + 1] = e
      /\ \A i \in 1 .. Len(q) : Append(q, e)[i] = q[i]
      /\ Len(q) \in Nat
  BY AppendProperties
<1> QED
  BY <1>1 DEF Has, HasGone

LEMMA AppendLastIs ==
  ASSUME NEW q \in Seq(Message), NEW e \in Message, e.kind # "u"
  PROVE  /\ LastIs(Append(q, e), e.channel, e)
         /\ \A ch, x : ch # e.channel /\ LastIs(q, ch, x) => LastIs(Append(q, e), ch, x)
<1>1. /\ Len(Append(q, e)) = Len(q) + 1 /\ Append(q, e)[Len(q) + 1] = e
      /\ \A i \in 1 .. Len(q) : Append(q, e)[i] = q[i]
      /\ Len(q) \in Nat
  BY AppendProperties
<1>2. LastIs(Append(q, e), e.channel, e)
  BY <1>1 DEF LastIs, About
<1>3. ASSUME NEW ch, NEW x, ch # e.channel, LastIs(q, ch, x)
      PROVE  LastIs(Append(q, e), ch, x)
  <2> SUFFICES ASSUME NEW i \in 1 .. Len(q) + 1, About(Append(q, e)[i], ch),
                      \A j \in 1 .. Len(q) + 1 : j > i => ~About(Append(q, e)[j], ch)
               PROVE  Append(q, e)[i] = x
    BY <1>1 DEF LastIs
  <2>1. i \in 1 .. Len(q) /\ About(q[i], ch)
    BY <1>1, <1>3 DEF About
  <2>2. \A j \in 1 .. Len(q) : j > i => ~About(q[j], ch)
    BY <1>1
  <2> QED
    BY <1>1, <1>3, <2>1, <2>2 DEF LastIs
<1> QED
  BY <1>2, <1>3

LEMMA TailElements ==
  ASSUME NEW q \in Seq(Message), Len(q) > 0
  PROVE  /\ Len(q) \in Nat /\ Len(Tail(q)) = Len(q) - 1 /\ Head(q) = q[1]
         /\ \A i \in 1 .. Len(Tail(q)) : Tail(q)[i] = q[i + 1]
         /\ \A i \in 2 .. Len(q) : i - 1 \in 1 .. Len(Tail(q)) /\ Tail(q)[i - 1] = q[i]
  BY HeadTailProperties

LEMMA TailHas ==
  ASSUME NEW q \in Seq(Message), Len(q) > 0, NEW ch
  PROVE  Has(q, ch) <=> Has(Tail(q), ch) \/ About(Head(q), ch)
<1>1. ASSUME Has(q, ch), ~About(Head(q), ch)
      PROVE  Has(Tail(q), ch)
  <2>1. PICK i \in 1 .. Len(q) : About(q[i], ch)
    BY <1>1 DEF Has
  <2>2. i \in 2 .. Len(q)
    BY <1>1, <2>1, TailElements
  <2> QED
    BY <2>1, <2>2, TailElements DEF Has
<1>2. ASSUME Has(Tail(q), ch)
      PROVE  Has(q, ch)
  BY <1>2, TailElements DEF Has
<1>3. ASSUME About(Head(q), ch)
      PROVE  Has(q, ch)
  BY <1>3, TailElements DEF Has
<1> QED
  BY <1>1, <1>2, <1>3

LEMMA TailLastIs ==
  ASSUME NEW q \in Seq(Message), Len(q) > 0, NEW ch, NEW x, LastIs(q, ch, x)
  PROVE  /\ LastIs(Tail(q), ch, x)
         /\ About(Head(q), ch) /\ ~Has(Tail(q), ch) => Head(q) = x
<1>1. LastIs(Tail(q), ch, x)
  <2> SUFFICES ASSUME NEW i \in 1 .. Len(Tail(q)), About(Tail(q)[i], ch),
                      \A j \in 1 .. Len(Tail(q)) : j > i => ~About(Tail(q)[j], ch)
               PROVE  Tail(q)[i] = x
    BY DEF LastIs
  <2>1. i + 1 \in 1 .. Len(q) /\ Tail(q)[i] = q[i + 1]
    BY TailElements
  <2>2. ASSUME NEW j \in 1 .. Len(q), j > i + 1
        PROVE  ~About(q[j], ch)
    <3>1. j - 1 \in 1 .. Len(Tail(q)) /\ Tail(q)[j - 1] = q[j] /\ j - 1 > i
      BY <2>2, TailElements
    <3> QED
      BY <3>1
  <2> QED
    BY <2>1, <2>2 DEF LastIs
<1>2. ASSUME About(Head(q), ch), ~Has(Tail(q), ch)
      PROVE  Head(q) = x
  <2>1. 1 \in 1 .. Len(q) /\ Head(q) = q[1]
    BY TailElements
  <2>2. ASSUME NEW j \in 1 .. Len(q), j > 1
        PROVE  ~About(q[j], ch)
    <3>1. j - 1 \in 1 .. Len(Tail(q)) /\ Tail(q)[j - 1] = q[j]
      BY <2>2, TailElements
    <3> QED
      BY <1>2, <3>1 DEF Has
  <2> QED
    BY <1>2, <2>1, <2>2 DEF LastIs
<1> QED
  BY <1>1, <1>2

LEMMA EmptyHas ==
  ASSUME NEW ch, NEW x
  PROVE  ~Has(<<>>, ch) /\ ~HasGone(<<>>, ch) /\ LastIs(<<>>, ch, x)
  BY EmptySeq DEF Has, HasGone, LastIs

LEMMA GoneIsEvent ==
  ASSUME NEW q, NEW ch, HasGone(q, ch)
  PROVE  Has(q, ch)
  BY DEF Has, HasGone, About
-----------------------------------------------------------------------------
(* What a step can do to what is owed about a channel: nothing is lost     *)
(* before the clients have it, and the channel changes only if somebody    *)
(* then owes an event about it.                                            *)
LEMMA OwesStep ==
  ASSUME TypeOK, LineNamesChannel, ComposedKindCurrent, EventKinds, Next,
         NEW h \in Channels
  PROVE  /\ WorkerOwes(h) \/ Gone(h) =>
              \/ WorkerOwes(h)' \/ Gone(h)'
              \/ GetPendingEvents /\ ~WorkerOwes(h)
         /\ \/ module_event(h)' = module_event(h)
            \/ WorkerOwes(h)' \/ Gone(h)'
<1> DEFINE Kept ==
      /\ WorkerOwes(h) \/ Gone(h) =>
           \/ WorkerOwes(h)' \/ Gone(h)'
           \/ GetPendingEvents /\ ~WorkerOwes(h)
      /\ \/ module_event(h)' = module_event(h)
         \/ WorkerOwes(h)' \/ Gone(h)'
<1> USE DEF Gone, QueueOwes, WorkerOwes, ScanOwesGone, module_event, Collected,
            TypeOK, DockTypeOK, ScanTypeOK
<1>1. ASSUME NEW ch \in Channels, ReadDisconnect(ch)
      PROVE  Kept
  BY <1>1 DEF ReadDisconnect
<1>2. ASSUME NEW ch \in Channels, NEW n \in Names, ReadConnect(ch, n)
      PROVE  Kept
  BY <1>2 DEF ReadConnect
<1>3. ASSUME WriteName
      PROVE  Kept
  BY <1>3 DEF WriteName
<1>4. ASSUME SetConnected
      PROVE  Kept
  BY <1>4 DEF SetConnected
<1>5. ASSUME QueueLineEvent
      PROVE  Kept
  <2>1. module_event(line.channel) \in Message
    BY <1>5, EventIsMessage DEF QueueLineEvent, LineNamesChannel
  <2>2. Has(event_queue', h) \/ (~Has(event_queue, h) /\ h # line.channel)
    BY <1>5, <2>1, AppendHas DEF QueueLineEvent, QueueEvent, About
  <2> QED
    BY <1>5, <2>2 DEF QueueLineEvent, QueueEvent, DockMutexFree
<1>6. ASSUME ScanConnect \/ ScanDisconnect
      PROVE  Kept
  BY <1>6 DEF ScanConnect, ScanDisconnect
<1>7. ASSUME ScanModule
      PROVE  Kept
  BY <1>7 DEF ScanModule, NextScanned
<1>8. ASSUME ScanKind
      PROVE  Kept
  BY <1>8 DEF ScanKind
<1>9. ASSUME ScanName
      PROVE  Kept
  <2> DEFINE e == [smsg EXCEPT !.name = name[sch]]
  <2>1. /\ e \in Message /\ e.kind = smsg.kind /\ e.channel = sch /\ e.kind # "u"
        /\ event_queue' = Append(event_queue, e)
    <3>1. e = [kind |-> smsg.kind, channel |-> smsg.channel, name |-> name[sch]]
      BY Renamed
    <3>2. e \in Message
      BY <1>9, MessageFacts
    <3>3. smsg.channel = sch /\ smsg.kind # "u" /\ event_queue' = Append(event_queue, e)
      BY <1>9 DEF ScanName, QueueEvent, ComposedKindCurrent, EventKinds
    <3> QED
      BY <3>1, <3>2, <3>3
  <2>2. /\ Has(event_queue, h) => Has(event_queue', h)
        /\ HasGone(event_queue, h) => HasGone(event_queue', h)
        /\ ScanOwesGone(h) => Has(event_queue', h) /\ HasGone(event_queue', h)
    BY <1>9, <2>1, AppendHas DEF ScanName, About
  <2>3. UNCHANGED <<state, name, upc, line>>
    BY <1>9 DEF ScanName
  <2> QED
    BY <2>2, <2>3
<1>10. ASSUME GetPendingEvents
       PROVE  Kept
  BY <1>10 DEF GetPendingEvents
<1>11. ASSUME \/ TickStart \/ EndLines \/ GetPendingCommands
              \/ BeginMessage \/ (\E c \in Clients : CopyClient(c)) \/ Send
              \/ EndMessage
       PROVE  Kept
  BY <1>11 DEF TickStart, EndLines, GetPendingCommands,
          BeginMessage, CopyClient, Send, Sees, EndMessage
<1>12. ASSUME MessagesDone
       PROVE  Kept
  BY <1>12, GoneIsEvent DEF MessagesDone
<1>13. ASSUME websocket_handlers
       PROVE  Kept
  BY <1>13 DEF websocket_handlers, websocket_on_open, websocket_on_close, Pause,
          Subscribe, init_client, InitClient, InitDock, InitCheck, InitKind, InitName, InitSend
<1> QED
  BY <1>1, <1>2, <1>3, <1>4, <1>5, <1>6, <1>7, <1>8, <1>9, <1>10, <1>11, <1>12, <1>13
     DEF Next, worker_update_clients, worker_dock_scan

-----------------------------------------------------------------------------
(* The small parts of the invariant.                                       *)
LEMMA NothingStep ==
  ASSUME MessageInHand, NothingCollected, Next
  PROVE  NothingCollected'
  BY DEF NothingCollected,
        Next, worker_update_clients, worker_dock_scan, websocket_handlers, init_client,
        TickStart, ReadDisconnect, ReadConnect, WriteName, SetConnected, QueueLineEvent,
        EndLines, GetPendingEvents, GetPendingCommands, BeginMessage, CopyClient, Send,
        EndMessage, MessagesDone, ScanConnect, ScanDisconnect, ScanModule, ScanKind,
        ScanName, websocket_on_open, websocket_on_close, Pause, Subscribe, InitClient,
        InitDock, InitCheck, InitKind, InitName, InitSend

LEMMA KindsStep ==
  ASSUME TypeOK, LineNamesChannel, EventKinds, Next
  PROVE  EventKinds'
<1>1. ASSUME QueueLineEvent
      PROVE  EventKinds'
  <2> DEFINE e == module_event(line.channel)
  <2>1. e \in Message /\ e.kind # "u"
    BY <1>1, EventIsMessage DEF QueueLineEvent, LineNamesChannel, TypeOK, module_event
  <2>2. event_queue' = Append(event_queue, e) /\ smsg' = smsg
    BY <1>1 DEF QueueLineEvent, QueueEvent
  <2> QED
    BY <2>1, <2>2, AppendProperties DEF EventKinds, TypeOK, DockTypeOK
<1>2. ASSUME ScanName
      PROVE  EventKinds'
  <2> DEFINE e == [smsg EXCEPT !.name = name[sch]]
  <2>1. e \in Message /\ e.kind # "u"
    BY MessageFacts, Renamed DEF EventKinds, TypeOK, ScanTypeOK, DockTypeOK
  <2>2. event_queue' = Append(event_queue, e) /\ smsg' = NoEvent
    BY <1>2 DEF ScanName, QueueEvent
  <2>3. NoEvent.kind # "u"
    BY DEF NoEvent
  <2> QED
    BY <2>1, <2>2, <2>3, AppendProperties DEF EventKinds, TypeOK, DockTypeOK
<1>3. ASSUME GetPendingEvents
      PROVE  EventKinds'
  BY <1>3, EmptySeq DEF GetPendingEvents, EventKinds
<1>4. ASSUME ScanKind
      PROVE  EventKinds'
  BY <1>4 DEF ScanKind, EventKinds, module_event
<1>5. ASSUME \/ TickStart \/ WriteName \/ SetConnected \/ EndLines \/ GetPendingCommands
             \/ (\E ch \in Channels : ReadDisconnect(ch) \/ \E n \in Names : ReadConnect(ch, n))
             \/ BeginMessage \/ (\E c \in Clients : CopyClient(c)) \/ Send
             \/ EndMessage \/ MessagesDone \/ ScanConnect \/ ScanDisconnect \/ ScanModule
             \/ websocket_handlers
      PROVE  EventKinds'
  BY <1>5 DEF EventKinds, websocket_handlers, init_client,
        TickStart, ReadDisconnect, ReadConnect, WriteName, SetConnected,
        EndLines, GetPendingCommands, BeginMessage, CopyClient, Send,
        EndMessage, MessagesDone, ScanConnect, ScanDisconnect, ScanModule,
        websocket_on_open, websocket_on_close, Pause, Subscribe, InitClient,
        InitDock, InitCheck, InitKind, InitName, InitSend
<1> QED
  BY <1>1, <1>2, <1>3, <1>4, <1>5 DEF Next, worker_update_clients, worker_dock_scan

LEMMA OneKindStep ==
  ASSUME TypeOK, MessageInHand, EventKinds, NothingCollected, OneKind, Next
  PROVE  OneKind'
<1> USE DEF OneKind, TypeOK, WorkerTypeOK
<1>1. ASSUME GetPendingEvents
      PROVE  OneKind'
  BY <1>1 DEF GetPendingEvents, EventKinds
<1>2. ASSUME GetPendingCommands
      PROVE  OneKind'
  BY <1>2 DEF GetPendingCommands, Update
<1>3. ASSUME BeginMessage
      PROVE  OneKind'
  <2>1. Len(batch) > 0 /\ Head(batch) = batch[1]
    BY <1>3, EmptySeq DEF BeginMessage
  <2> QED
    BY <1>3, <2>1 DEF BeginMessage
<1>4. ASSUME EndMessage
      PROVE  OneKind'
  <2>1. Len(batch) > 0
    BY <1>4 DEF EndMessage, MessageInHand
  <2>2. \A i \in 1 .. Len(Tail(batch)) :
          Tail(batch)[i] = batch[i + 1] /\ i + 1 \in 1 .. Len(batch)
    BY <2>1, TailElements
  <2> QED
    BY <1>4, <2>2 DEF EndMessage
<1>5. ASSUME NEW c \in Clients, CopyClient(c)
      PROVE  OneKind'
  BY <1>5 DEF CopyClient
<1>6. ASSUME Send
      PROVE  OneKind'
  BY <1>6 DEF Send
<1>7. ASSUME \/ TickStart \/ WriteName \/ SetConnected \/ QueueLineEvent \/ EndLines
             \/ (\E ch \in Channels : ReadDisconnect(ch) \/ \E n \in Names : ReadConnect(ch, n))
             \/ MessagesDone \/ worker_dock_scan \/ websocket_handlers
      PROVE  OneKind'
  BY <1>7 DEF worker_dock_scan, websocket_handlers, init_client,
        TickStart, ReadDisconnect, ReadConnect, WriteName, SetConnected, QueueLineEvent,
        EndLines, MessagesDone, ScanConnect, ScanDisconnect, ScanModule, ScanKind,
        ScanName, websocket_on_open, websocket_on_close, Pause, Subscribe, InitClient,
        InitDock, InitCheck, InitKind, InitName, InitSend
<1> QED
  BY <1>1, <1>2, <1>3, <1>4, <1>5, <1>6, <1>7 DEF Next, worker_update_clients

LEMMA ServedStep ==
  ASSUME TypeOK, MessageInHand, SendsToOpenClient, ServedIsOpen, Next
  PROVE  ServedIsOpen'
<1> USE DEF ServedIsOpen, TypeOK, HistoryTypeOK
<1>1. ASSUME NEW c \in Clients, CopyClient(c)
      PROVE  ServedIsOpen'
  <2>1. c \in clients /\ UNCHANGED <<apc, icl, clients>>
    BY <1>1 DEF CopyClient, SendsToOpenClient
  <2>2. \/ view' = view
        \/ view' = [view EXCEPT ![c][Head(batch).channel] = Unknown]
    BY <1>1 DEF CopyClient, Sees
  <2>3. upc' = "send" => target' \in todo'
    BY <1>1 DEF CopyClient
  <2> QED
    BY <2>1, <2>2, <2>3
<1>2. ASSUME Send
      PROVE  ServedIsOpen'
  <2>1. target \in clients /\ UNCHANGED <<apc, icl, clients>> /\ upc' = "clients"
    BY <1>2 DEF Send, SendsToOpenClient
  <2>2. \/ view' = view
        \/ view' = [view EXCEPT ![target][Head(batch).channel] = Head(batch)]
    BY <1>2 DEF Send, Sees
  <2> QED
    BY <2>1, <2>2
<1>3. ASSUME NEW c \in Clients, websocket_on_open(c) \/ websocket_on_close(c)
      PROVE  ServedIsOpen'
  BY <1>3 DEF websocket_on_open, websocket_on_close, ClientsMutexFree
<1>4. ASSUME InitSend
      PROVE  ServedIsOpen'
  BY <1>4 DEF InitSend, NextInit
<1>5. ASSUME \/ (\E c \in Clients : Pause(c)) \/ (\E c \in Clients, on \in BOOLEAN : Subscribe(c, on))
             \/ (\E c \in Clients, is_ready \in BOOLEAN : InitClient(c, is_ready))
             \/ InitDock \/ InitCheck \/ InitKind \/ InitName
      PROVE  ServedIsOpen'
  BY <1>5 DEF Pause, Subscribe, InitClient, InitDock, InitCheck, NextInit, InitKind, InitName
<1>6. ASSUME \/ TickStart \/ WriteName \/ SetConnected \/ QueueLineEvent \/ EndLines
             \/ (\E ch \in Channels : ReadDisconnect(ch) \/ \E n \in Names : ReadConnect(ch, n))
             \/ GetPendingEvents \/ GetPendingCommands \/ BeginMessage \/ EndMessage
             \/ MessagesDone \/ worker_dock_scan
      PROVE  ServedIsOpen'
  BY <1>6 DEF worker_dock_scan,
        TickStart, ReadDisconnect, ReadConnect, WriteName, SetConnected, QueueLineEvent,
        EndLines, GetPendingEvents, GetPendingCommands, BeginMessage, EndMessage,
        MessagesDone, ScanConnect, ScanDisconnect, ScanModule, ScanKind, ScanName
<1> QED
  BY <1>1, <1>2, <1>3, <1>4, <1>5, <1>6 DEF Next, worker_update_clients,
        websocket_handlers, init_client
-----------------------------------------------------------------------------
(* Events in the queue and in the batch.                                   *)
LEMMA LastQueuedStep ==
  ASSUME TypeOK, LineNamesChannel, ComposedKindCurrent, EventKinds, LastQueued, Next
  PROVE  LastQueued'
<1>1. ASSUME NEW e \in Message, e.kind # "u", QueueEvent(e)
      PROVE  LastQueued'
  <2> SUFFICES ASSUME NEW h \in Channels
               PROVE  LastIs(event_queue', h, announced'[h])
    BY DEF LastQueued
  <2>1. /\ event_queue' = Append(event_queue, e) /\ event_queue \in Seq(Message)
        /\ announced' = [announced EXCEPT ![e.channel] = e]
        /\ e.channel \in Channels /\ announced \in [Channels -> Message]
    BY <1>1, MessageFacts DEF QueueEvent, TypeOK, DockTypeOK, HistoryTypeOK
  <2>2. CASE h = e.channel
    BY <1>1, <2>1, <2>2, AppendLastIs
  <2>3. CASE h # e.channel
    <3>1. announced'[h] = announced[h] /\ LastIs(event_queue, h, announced[h])
      BY <2>1, <2>3 DEF LastQueued
    <3> QED
      BY <1>1, <2>1, <2>3, <3>1, AppendLastIs
  <2> QED
    BY <2>2, <2>3
<1>2. ASSUME QueueLineEvent
      PROVE  LastQueued'
  <2> DEFINE e == module_event(line.channel)
  <2>1. e \in Message /\ e.kind # "u" /\ QueueEvent(e)
    BY <1>2, EventIsMessage DEF QueueLineEvent, LineNamesChannel, TypeOK, module_event
  <2> QED
    BY <1>1, <2>1
<1>3. ASSUME ScanName
      PROVE  LastQueued'
  <2> DEFINE e == [smsg EXCEPT !.name = name[sch]]
  <2>1. e \in Message /\ e.kind # "u" /\ QueueEvent(e)
    BY <1>3, MessageFacts, Renamed DEF ScanName, EventKinds, TypeOK, ScanTypeOK, DockTypeOK
  <2> QED
    BY <1>1, <2>1
<1>4. ASSUME GetPendingEvents
      PROVE  LastQueued'
  BY <1>4, EmptyHas DEF GetPendingEvents, LastQueued
<1>5. ASSUME \/ TickStart \/ WriteName \/ SetConnected \/ EndLines \/ GetPendingCommands
             \/ (\E ch \in Channels : ReadDisconnect(ch) \/ \E n \in Names : ReadConnect(ch, n))
             \/ BeginMessage \/ (\E c \in Clients : CopyClient(c)) \/ Send
             \/ EndMessage \/ MessagesDone \/ ScanConnect \/ ScanDisconnect \/ ScanModule
             \/ ScanKind \/ websocket_handlers
      PROVE  LastQueued'
  <2>1. UNCHANGED <<event_queue, announced>>
    BY <1>5 DEF websocket_handlers, init_client,
        TickStart, ReadDisconnect, ReadConnect, WriteName, SetConnected,
        EndLines, GetPendingCommands, BeginMessage, CopyClient, Send, Sees,
        EndMessage, MessagesDone, ScanConnect, ScanDisconnect, ScanModule, ScanKind,
        websocket_on_open, websocket_on_close, Pause, Subscribe, InitClient,
        InitDock, InitCheck, InitKind, InitName, InitSend
  <2> QED
    BY <2>1 DEF LastQueued
<1> QED
  BY <1>2, <1>3, <1>4, <1>5 DEF Next, worker_update_clients, worker_dock_scan

(* What is collected, and what can happen to it.                           *)
LEMMA CollectedStep ==
  ASSUME Next, Collected'
  PROVE  \/ Collected /\ UNCHANGED batch
         \/ GetPendingEvents
         \/ GetPendingCommands
         \/ EndMessage
  BY DEF Collected,
        Next, worker_update_clients, worker_dock_scan, websocket_handlers, init_client,
        TickStart, ReadDisconnect, ReadConnect, WriteName, SetConnected, QueueLineEvent,
        EndLines, GetPendingEvents, GetPendingCommands, BeginMessage, CopyClient, Send,
        EndMessage, MessagesDone, ScanConnect, ScanDisconnect, ScanModule, ScanKind,
        ScanName, websocket_on_open, websocket_on_close, Pause, Subscribe, InitClient,
        InitDock, InitCheck, InitKind, InitName, InitSend

(* While messages are being sent, a channel changes only by going.         *)
LEMMA CollectedKept ==
  ASSUME TypeOK, LineNamesChannel, ComposedKindCurrent, EventKinds, Next,
         Collected, Collected', ~GetPendingEvents, NEW h \in Channels
  PROVE  /\ Gone(h) => Gone(h)'
         /\ Gone(h)' \/ module_event(h)' = module_event(h)
  BY OwesStep DEF Collected, WorkerOwes

LEMMA LastCollectedStep ==
  ASSUME TypeOK, LineNamesChannel, MessageInHand, ComposedKindCurrent, Converged,
         EventKinds, LastQueued, LastCollected, Next
  PROVE  LastCollected'
<1> SUFFICES ASSUME Collected', NEW h \in Channels, ~Gone(h)'
             PROVE  LastIs(batch', h, module_event(h)')
  BY DEF LastCollected
<1>1. CASE GetPendingEvents
  <2>1. /\ ~WorkerOwes(h) /\ batch' = event_queue
        /\ UNCHANGED <<state, name, spc, sch, smsg>>
    BY <1>1 DEF GetPendingEvents, WorkerOwes
  <2>2. ~ScanOwesGone(h) /\ module_event(h)' = module_event(h)
    BY <2>1 DEF Gone, ScanOwesGone, module_event
  <2>3. announced[h] = module_event(h)
    BY <2>1, <2>2 DEF Converged
  <2> QED
    BY <2>1, <2>2, <2>3 DEF LastQueued
<1>2. ASSUME Collected, ~GetPendingEvents
      PROVE  ~Gone(h) /\ module_event(h)' = module_event(h)
             /\ LastIs(batch, h, module_event(h))
  BY <1>2, CollectedKept DEF LastCollected
<1>3. CASE Collected /\ UNCHANGED batch /\ ~GetPendingEvents
  BY <1>2, <1>3
<1>4. CASE GetPendingCommands
  <2>1. \A i \in 1 .. Len(batch') : batch'[i].kind = "u"
    BY <1>4 DEF GetPendingCommands, Update
  <2> QED
    BY <2>1 DEF LastIs, About
<1>5. CASE EndMessage
  <2>1. Collected /\ ~GetPendingEvents /\ batch' = Tail(batch)
    BY <1>5 DEF EndMessage, GetPendingEvents, Collected
  <2>2. batch \in Seq(Message) /\ Len(batch) > 0
    BY <1>5 DEF EndMessage, MessageInHand, TypeOK, WorkerTypeOK
  <2> QED
    BY <1>2, <2>1, <2>2, TailLastIs
<1> QED
  BY <1>1, <1>3, <1>4, <1>5, CollectedStep

LEMMA UpdatesStep ==
  ASSUME TypeOK, LineNamesChannel, MessageInHand, ComposedKindCurrent,
         EventKinds, NothingCollected, UpdatesNamed, Next
  PROVE  UpdatesNamed'
<1>1. CASE ~Collected'
  <2>1. batch' = <<>>
    BY <1>1, NothingStep DEF NothingCollected, Collected
  <2> QED
    BY <2>1, EmptySeq DEF UpdatesNamed
<1>2. CASE GetPendingEvents
  BY <1>2 DEF GetPendingEvents, EventKinds, UpdatesNamed
<1>3. CASE GetPendingCommands
  BY <1>3 DEF GetPendingCommands, Update, UpdatesNamed
<1>4. ASSUME Collected, Collected', ~GetPendingEvents, NEW m \in Message, m.kind = "u",
             /\ m.name = name[m.channel]
             /\ Gone(m.channel) \/ state[m.channel] = "ModuleConnected"
      PROVE  /\ m.name = name'[m.channel]
             /\ Gone(m.channel)' \/ state'[m.channel] = "ModuleConnected"
  <2>1. m.channel \in Channels
    BY MessageFacts
  <2>2. name' = name
    BY <1>4 DEF Collected,
        Next, worker_update_clients, worker_dock_scan, websocket_handlers, init_client,
        TickStart, ReadDisconnect, ReadConnect, WriteName, SetConnected, QueueLineEvent,
        EndLines, GetPendingEvents, GetPendingCommands, BeginMessage, CopyClient, Send,
        EndMessage, MessagesDone, ScanConnect, ScanDisconnect, ScanModule, ScanKind,
        ScanName, websocket_on_open, websocket_on_close, Pause, Subscribe, InitClient,
        InitDock, InitCheck, InitKind, InitName, InitSend
  <2>3. /\ Gone(m.channel) => Gone(m.channel)'
        /\ Gone(m.channel)' \/ module_event(m.channel)' = module_event(m.channel)
    BY <1>4, <2>1, CollectedKept
  <2>4. module_event(m.channel)' = module_event(m.channel)
          => (state[m.channel] = "ModuleConnected" => state'[m.channel] = "ModuleConnected")
    BY DEF module_event
  <2> QED
    BY <1>4, <2>2, <2>3, <2>4
<1>5. CASE Collected /\ Collected' /\ UNCHANGED batch /\ ~GetPendingEvents
  <2> SUFFICES ASSUME NEW i \in 1 .. Len(batch), batch[i].kind = "u"
               PROVE  /\ batch[i].name = name'[batch[i].channel]
                      /\ Gone(batch[i].channel)' \/ state'[batch[i].channel] = "ModuleConnected"
    BY <1>5 DEF UpdatesNamed
  <2>1. batch[i] \in Message
    BY DEF TypeOK, WorkerTypeOK
  <2> QED
    BY <1>4, <1>5, <2>1 DEF UpdatesNamed
<1>6. CASE EndMessage
  <2>1. Collected /\ Collected' /\ ~GetPendingEvents /\ batch' = Tail(batch)
    BY <1>6 DEF EndMessage, GetPendingEvents, Collected
  <2>2. batch \in Seq(Message) /\ Len(batch) > 0
    BY <1>6 DEF EndMessage, MessageInHand, TypeOK, WorkerTypeOK
  <2>3. ASSUME NEW j \in 1 .. Len(batch'), NEW m, m = batch'[j], m.kind = "u"
        PROVE  /\ m.name = name'[m.channel]
               /\ Gone(m.channel)' \/ state'[m.channel] = "ModuleConnected"
    <3>1. PICK i \in 1 .. Len(batch) : m = batch[i]
      BY <2>1, <2>2, <2>3, TailElements
    <3>2. m \in Message
      BY <2>2, <3>1
    <3> QED
      BY <1>4, <2>1, <2>3, <3>1, <3>2 DEF UpdatesNamed
  <2> QED
    BY <2>3 DEF UpdatesNamed, Gone, QueueOwes, ScanOwesGone, Collected
<1> QED
  BY <1>1, <1>2, <1>3, <1>5, <1>6, CollectedStep
-----------------------------------------------------------------------------
(* The step at which c gets the event about h, or is passed over.          *)
Given(c, h) ==
  /\ About(Head(batch), h)
  /\ c \in todo /\ c \notin todo'
  /\ CopyClient(c) \/ (Send /\ target = c)

(* An event that is collected stays on its way until c is given it.        *)
LEMMA BatchToStep ==
  ASSUME TypeOK, MessageInHand, NothingCollected, Next,
         NEW c \in clients, NEW h \in Channels, BatchTo(c, h)
  PROVE  BatchTo(c, h)' \/ Given(c, h)
<1>0. batch # <<>> /\ upc \in {"announce", "report", "clients", "send"}
  <2>1. CASE upc \in {"clients", "send"}
    BY <2>1, EmptySeq DEF MessageInHand
  <2>2. CASE upc \notin {"clients", "send"}
    <3>1. Has(batch, h)
      BY <2>2 DEF BatchTo
    <3>2. batch # <<>>
      BY <3>1, EmptySeq DEF Has
    <3> QED
      BY <3>2 DEF NothingCollected
  <2> QED
    BY <2>1, <2>2
<1>1. upc \in {"clients", "send"} =>
        /\ batch \in Seq(Message) /\ Len(batch) > 0
        /\ Has(batch, h) <=> Has(Tail(batch), h) \/ About(Head(batch), h)
  <2>1. upc \in {"clients", "send"} => batch \in Seq(Message) /\ Len(batch) > 0
    BY DEF TypeOK, WorkerTypeOK, MessageInHand
  <2> QED
    BY <2>1, TailHas
<1>2. ASSUME NEW d \in Clients, CopyClient(d)
      PROVE  BatchTo(c, h)' \/ Given(c, h)
  <2>1. upc = "clients" /\ batch' = batch /\ upc' \in {"clients", "send"} /\ d \in todo
        /\ (todo' = todo \/ todo' = todo \ {d})
    BY <1>2 DEF CopyClient
  <2>2. CASE c \in todo /\ c \notin todo'
    <3>1. c = d
      BY <2>1, <2>2
    <3> QED
      BY <1>1, <1>2, <2>1, <2>2, <3>1 DEF BatchTo, Given
  <2>3. CASE c \notin todo \/ c \in todo'
    BY <2>1, <2>3 DEF BatchTo
  <2> QED
    BY <2>2, <2>3
<1>3. ASSUME Send
      PROVE  BatchTo(c, h)' \/ Given(c, h)
  <2>1. upc = "send" /\ batch' = batch /\ upc' = "clients" /\ todo' = todo \ {target}
    BY <1>3 DEF Send
  <2>2. CASE c \in todo /\ c = target
    BY <1>1, <1>3, <2>1, <2>2 DEF BatchTo, Given
  <2>3. CASE c \notin todo \/ c # target
    BY <2>1, <2>3 DEF BatchTo
  <2> QED
    BY <2>2, <2>3
<1>4. ASSUME EndMessage
      PROVE  BatchTo(c, h)'
  BY <1>4 DEF EndMessage, BatchTo
<1>5. ASSUME BeginMessage
      PROVE  BatchTo(c, h)'
  BY <1>5 DEF BeginMessage, BatchTo
<1>6. ASSUME \/ TickStart \/ WriteName \/ SetConnected \/ QueueLineEvent \/ EndLines
             \/ (\E ch \in Channels : ReadDisconnect(ch) \/ \E n \in Names : ReadConnect(ch, n))
             \/ GetPendingEvents \/ GetPendingCommands
             \/ MessagesDone
      PROVE  FALSE
  BY <1>0, <1>6 DEF TickStart, ReadDisconnect, ReadConnect, WriteName, SetConnected,
        QueueLineEvent, EndLines, GetPendingEvents, GetPendingCommands, MessagesDone
<1>7. ASSUME worker_dock_scan \/ websocket_handlers
      PROVE  BatchTo(c, h)'
  BY <1>7 DEF BatchTo, worker_dock_scan, websocket_handlers, init_client,
        ScanConnect, ScanDisconnect, ScanModule, ScanKind,
        ScanName, websocket_on_open, websocket_on_close, Pause, Subscribe, InitClient,
        InitDock, InitCheck, InitKind, InitName, InitSend
<1> QED
  BY <1>2, <1>3, <1>4, <1>5, <1>6, <1>7 DEF Next, worker_update_clients

(* What is owed to a client stays owed until it is given, and what is said *)
(* of a channel changes only if something is owed.                         *)
LEMMA OwedStep ==
  ASSUME TypeOK, LineNamesChannel, MessageInHand, ComposedKindCurrent, EventKinds,
         NothingCollected, Next, NEW c \in clients, NEW h \in Channels
  PROVE  /\ Owed(c, h) => Owed(c, h)' \/ Given(c, h)
         /\ Owed(c, h)' \/ module_event(h)' = module_event(h)
<1>1. /\ WorkerOwes(h) \/ Gone(h) =>
           WorkerOwes(h)' \/ Gone(h)' \/ (GetPendingEvents /\ ~WorkerOwes(h))
      /\ module_event(h)' = module_event(h) \/ WorkerOwes(h)' \/ Gone(h)'
  BY OwesStep
<1>2. BatchTo(c, h) => BatchTo(c, h)' \/ Given(c, h)
  BY BatchToStep
<1>3. ASSUME GetPendingEvents, Gone(h)
      PROVE  Gone(h)' \/ BatchTo(c, h)'
  <2>1. CASE ScanOwesGone(h)
    BY <1>3, <2>1 DEF GetPendingEvents, Gone, ScanOwesGone
  <2>2. CASE QueueOwes(h)
    BY <1>3, <2>2 DEF GetPendingEvents, QueueOwes, Collected, BatchTo
  <2> QED
    BY <1>3, <2>1, <2>2 DEF Gone
<1> QED
  BY <1>1, <1>2, <1>3 DEF Owed

LEMMA ViewStep ==
  ASSUME TypeOK, LineNamesChannel, MessageInHand, ComposedKindCurrent, EventKinds,
         NothingCollected, ServedIsOpen, LastCollected, ViewOwed, SnapshotOwed, Next
  PROVE  ViewOwed'
<1> SUFFICES ASSUME NEW c \in Clients, NEW h \in Channels, view'[c][h] # Unknown
             PROVE  Owed(c, h)' \/ view'[c][h] = module_event(h)'
  BY DEF ViewOwed
<1> USE DEF TypeOK, HistoryTypeOK
<1>1. ASSUME view'[c][h] = view[c][h], ~Given(c, h)
      PROVE  Owed(c, h)' \/ view'[c][h] = module_event(h)'
  <2>1. c \in clients
    BY <1>1 DEF ServedIsOpen
  <2> QED
    BY <1>1, <2>1, OwedStep DEF ViewOwed
<1>2. ASSUME NEW d \in Clients, CopyClient(d)
      PROVE  view'[c][h] = view[c][h] /\ ~Given(c, h)
  <2>1. Head(batch) \in Message
    BY <1>2, HeadAndTail DEF CopyClient, MessageInHand, WorkerTypeOK
  <2>2. todo' = todo \/ (todo' = todo \ {d} /\ Sees(d, Head(batch), Unknown))
    BY <1>2 DEF CopyClient
  <2>3. view' = view \/ view' = [view EXCEPT ![d][Head(batch).channel] = Unknown]
    BY <1>2 DEF CopyClient, Sees
  <2>4. ASSUME Given(c, h)
        PROVE  FALSE
    <3>1. c = d /\ Head(batch).kind # "u" /\ Head(batch).channel = h
          /\ Sees(d, Head(batch), Unknown)
      BY <2>2, <2>4 DEF Given, About
    <3>2. view' = [view EXCEPT ![c][h] = Unknown]
      BY <3>1 DEF Sees
    <3> QED
      BY <3>2
  <2> QED
    BY <2>1, <2>3, <2>4
<1>3. ASSUME Send
      PROVE  Owed(c, h)' \/ view'[c][h] = module_event(h)'
  <2> DEFINE m == Head(batch)
  <2>1. /\ batch \in Seq(Message) /\ Len(batch) > 0 /\ m \in Message
        /\ upc = "send" /\ upc' = "clients" /\ todo' = todo \ {target}
        /\ UNCHANGED <<dock, batch, scan>>
    BY <1>3, HeadAndTail DEF Send, MessageInHand, WorkerTypeOK
  <2>2. CASE About(m, h) /\ c = target
    <3>1. view' = [view EXCEPT ![c][h] = m]
      BY <1>3, <2>2 DEF Send, Sees, About
    <3>2. view'[c][h] = m
      BY <3>1
    <3>3. CASE Has(Tail(batch), h)
      BY <2>1, <2>2, <3>3 DEF Owed, BatchTo
    <3>4. CASE Gone(h)
      BY <2>1, <3>4 DEF Owed, Gone, QueueOwes, ScanOwesGone, Collected
    <3>5. CASE ~Has(Tail(batch), h) /\ LastIs(batch, h, module_event(h))
      <4>1. m = module_event(h)
        BY <2>1, <2>2, <3>5, TailLastIs
      <4> QED
        BY <2>1, <3>2, <4>1 DEF module_event
    <3> QED
      BY <2>1, <3>3, <3>4, <3>5 DEF LastCollected, Collected
  <2>3. CASE ~(About(m, h) /\ c = target)
    <3>1. ~Given(c, h)
      BY <2>1, <2>3 DEF Given, CopyClient
    <3>2. view'[c][h] = view[c][h]
      <4>1. CASE m.kind = "u"
        BY <1>3, <4>1 DEF Send, Sees
      <4>2. CASE m.kind # "u"
        <5>1. view' = [view EXCEPT ![target][m.channel] = m]
          BY <1>3, <4>2 DEF Send, Sees
        <5> QED
          BY <2>3, <4>2, <5>1 DEF About
      <4> QED
        BY <4>1, <4>2
    <3> QED
      BY <1>1, <3>1, <3>2
  <2> QED
    BY <2>2, <2>3
<1>4. ASSUME InitSend
      PROVE  Owed(c, h)' \/ view'[c][h] = module_event(h)'
  <2>1. view' = [view EXCEPT ![icl][ich] = IF overtaken THEN Unknown ELSE imsg]
        /\ apc = "send" /\ UNCHANGED <<dock, worker, scan, registry>>
    BY <1>4 DEF InitSend
  <2>2. ~Given(c, h)
    BY <2>1 DEF Given
  <2>3. CASE c = icl /\ h = ich
    <3>1. view'[c][h] = imsg /\ ~overtaken
      BY <2>1, <2>3
    <3>2. imsg.channel = h /\ imsg \in Message
          /\ (Owed(c, h) \/ (imsg.kind = module_event(h).kind /\ imsg.name = name[h]))
      BY <2>1, <2>3, <3>1 DEF SnapshotOwed, AsioTypeOK
    <3>3. Owed(c, h) \/ imsg = module_event(h)
      BY <3>2 DEF Message, module_event
    <3>4. c \in clients
      BY <2>1, <2>3 DEF ServedIsOpen
    <3> QED
      BY <2>2, <3>1, <3>3, <3>4, OwedStep
  <2>4. CASE ~(c = icl /\ h = ich)
    <3>1. view'[c][h] = view[c][h]
      BY <2>1, <2>4
    <3> QED
      BY <1>1, <2>2, <3>1
  <2> QED
    BY <2>3, <2>4
<1>5. ASSUME NEW d \in Clients, websocket_on_close(d)
      PROVE  view'[c][h] = view[c][h] /\ ~Given(c, h)
  BY <1>5 DEF websocket_on_close, Given
<1>6. ASSUME \/ TickStart \/ WriteName \/ SetConnected \/ QueueLineEvent \/ EndLines
             \/ (\E ch \in Channels : ReadDisconnect(ch) \/ \E n \in Names : ReadConnect(ch, n))
             \/ GetPendingEvents \/ GetPendingCommands \/ BeginMessage \/ EndMessage
             \/ MessagesDone \/ worker_dock_scan
             \/ (\E d \in Clients : websocket_on_open(d) \/ Pause(d))
             \/ (\E d \in Clients, on \in BOOLEAN : Subscribe(d, on))
             \/ (\E d \in Clients, is_ready \in BOOLEAN : InitClient(d, is_ready))
             \/ InitDock \/ InitCheck \/ InitKind \/ InitName
      PROVE  view' = view /\ ~Given(c, h)
  <2>1. view' = view
    BY <1>6 DEF worker_dock_scan,
        TickStart, ReadDisconnect, ReadConnect, WriteName, SetConnected, QueueLineEvent,
        EndLines, GetPendingEvents, GetPendingCommands, BeginMessage, EndMessage,
        MessagesDone, ScanConnect, ScanDisconnect, ScanModule, ScanKind, ScanName,
        websocket_on_open, Pause, Subscribe, InitClient, InitDock, InitCheck, InitKind, InitName
  <2>2. todo' = todo \/ upc \notin {"clients", "send"}
    BY <1>6 DEF worker_dock_scan,
        TickStart, ReadDisconnect, ReadConnect, WriteName, SetConnected, QueueLineEvent,
        EndLines, GetPendingEvents, GetPendingCommands, BeginMessage, EndMessage,
        MessagesDone, ScanConnect, ScanDisconnect, ScanModule, ScanKind, ScanName,
        websocket_on_open, Pause, Subscribe, InitClient, InitDock, InitCheck, InitKind, InitName
  <2>3. ~Given(c, h)
    BY <2>2 DEF Given, CopyClient, Send
  <2> QED
    BY <2>1, <2>3
<1> QED
  BY <1>1, <1>2, <1>3, <1>4, <1>5, <1>6 DEF Next, worker_update_clients,
        websocket_handlers, init_client

LEMMA SnapshotStep ==
  ASSUME TypeOK, LineNamesChannel, MessageInHand, ComposedKindCurrent, EventKinds,
         NothingCollected, ServedIsOpen, SnapshotOwed, Next
  PROVE  SnapshotOwed'
<1> USE DEF TypeOK
<1> DEFINE Holds(c, h) ==
      /\ imsg.channel = h
      /\ \/ overtaken
         \/ Owed(c, h)
         \/ /\ imsg.kind = module_event(h).kind
            /\ apc = "send" => imsg.name = name[h]
<1>1. ASSUME apc' \in {"name", "send"}, UNCHANGED <<apc, icl, ich, imsg>>,
             overtaken => overtaken', overtaken' \/ ~Given(icl, ich)
      PROVE  SnapshotOwed'
  <2>1. ASSUME NEW c, NEW h, c = icl, h = ich
        PROVE  /\ imsg.channel = h
               /\ \/ overtaken'
                  \/ Owed(c, h)'
                  \/ /\ imsg.kind = module_event(h)'.kind
                     /\ apc = "send" => imsg.name = name'[h]
    <3>1. c \in clients /\ h \in Channels /\ Holds(c, h)
      BY <1>1, <2>1 DEF ServedIsOpen, AsioTypeOK, SnapshotOwed
    <3>2. /\ Owed(c, h) => Owed(c, h)' \/ Given(c, h)
          /\ Owed(c, h)' \/ module_event(h)' = module_event(h)
      BY <3>1, OwedStep
    <3>3. module_event(h)' = module_event(h) => name'[h] = name[h]
      BY DEF module_event
    <3>4. overtaken' \/ ~Given(c, h)
      BY <1>1, <2>1
    <3> QED
      BY <1>1, <3>1, <3>2, <3>3, <3>4
  <2> QED
    BY <1>1, <2>1 DEF SnapshotOwed, Owed, WorkerOwes, Gone, QueueOwes, ScanOwesGone,
          BatchTo, Collected, module_event
<1>2. ASSUME NEW d \in Clients, CopyClient(d)
      PROVE  SnapshotOwed'
  <2>1. UNCHANGED <<apc, icl, ich, imsg>> /\ (overtaken => overtaken')
    BY <1>2 DEF CopyClient, Sees
  <2>2. ASSUME apc \in {"name", "send"}, Given(icl, ich)
        PROVE  overtaken'
    <3>1. todo' = todo \/ (todo' = todo \ {d} /\ Sees(d, Head(batch), Unknown))
      BY <1>2 DEF CopyClient
    <3>2. icl = d /\ Sees(d, Head(batch), Unknown) /\ Head(batch).kind # "u"
          /\ Head(batch).channel = ich
      BY <2>2, <3>1 DEF Given, About
    <3> QED
      BY <2>2, <3>2 DEF Sees, Overtakes
  <2> QED
    BY <1>1, <2>1, <2>2 DEF SnapshotOwed
<1>3. ASSUME Send
      PROVE  SnapshotOwed'
  <2>1. UNCHANGED <<apc, icl, ich, imsg>> /\ (overtaken => overtaken')
        /\ Sees(target, Head(batch), Head(batch)) /\ todo' = todo \ {target}
    BY <1>3 DEF Send, Sees
  <2>2. ASSUME apc \in {"name", "send"}, Given(icl, ich)
        PROVE  overtaken'
    <3>1. icl = target /\ Head(batch).kind # "u" /\ Head(batch).channel = ich
      BY <2>1, <2>2 DEF Given, About
    <3> QED
      BY <2>1, <2>2, <3>1 DEF Sees, Overtakes
  <2> QED
    BY <1>1, <2>1, <2>2 DEF SnapshotOwed
<1>4. ASSUME InitKind
      PROVE  SnapshotOwed'
  BY <1>4 DEF InitKind, SnapshotOwed, module_event
<1>5. ASSUME InitName
      PROVE  SnapshotOwed'
  <2>1. imsg' = [kind |-> imsg.kind, channel |-> imsg.channel, name |-> name[ich]]
    BY <1>5, Renamed DEF InitName, AsioTypeOK
  <2>2. /\ apc = "name" /\ apc' = "send" /\ UNCHANGED <<icl, ich, overtaken>>
        /\ UNCHANGED <<dock, worker, scan>>
    BY <1>5 DEF InitName
  <2>3. imsg'.kind = imsg.kind /\ imsg'.channel = imsg.channel /\ imsg'.name = name[ich]
    BY <2>1
  <2>4. Holds(icl, ich)
    BY <2>2 DEF SnapshotOwed
  <2> QED
    BY <2>2, <2>3, <2>4 DEF SnapshotOwed, Owed, WorkerOwes, Gone, QueueOwes, ScanOwesGone,
          BatchTo, Collected, module_event
<1>6. ASSUME \/ InitDock \/ InitCheck \/ InitSend
             \/ (\E d \in Clients : websocket_on_open(d) \/ websocket_on_close(d) \/ Pause(d))
             \/ (\E d \in Clients, on \in BOOLEAN : Subscribe(d, on))
             \/ (\E d \in Clients, is_ready \in BOOLEAN : InitClient(d, is_ready))
      PROVE  SnapshotOwed'
  <2>1. apc' \notin {"name", "send"}
    BY <1>6 DEF InitDock, InitCheck, InitSend, NextInit, websocket_on_open,
          websocket_on_close, Pause, Subscribe, InitClient
  <2> QED
    BY <2>1 DEF SnapshotOwed
<1>7. ASSUME \/ TickStart \/ WriteName \/ SetConnected \/ QueueLineEvent \/ EndLines
             \/ (\E ch \in Channels : ReadDisconnect(ch) \/ \E n \in Names : ReadConnect(ch, n))
             \/ GetPendingEvents \/ GetPendingCommands \/ BeginMessage \/ EndMessage
             \/ MessagesDone \/ worker_dock_scan
      PROVE  SnapshotOwed'
  <2>1. UNCHANGED <<apc, icl, ich, imsg, overtaken>>
    BY <1>7 DEF worker_dock_scan,
        TickStart, ReadDisconnect, ReadConnect, WriteName, SetConnected, QueueLineEvent,
        EndLines, GetPendingEvents, GetPendingCommands, BeginMessage, EndMessage,
        MessagesDone, ScanConnect, ScanDisconnect, ScanModule, ScanKind, ScanName
  <2>2. todo' = todo \/ upc \notin {"clients", "send"}
    BY <1>7 DEF worker_dock_scan,
        TickStart, ReadDisconnect, ReadConnect, WriteName, SetConnected, QueueLineEvent,
        EndLines, GetPendingEvents, GetPendingCommands, BeginMessage, EndMessage,
        MessagesDone, ScanConnect, ScanDisconnect, ScanModule, ScanKind, ScanName
  <2>3. ~Given(icl, ich)
    BY <2>2 DEF Given, CopyClient, Send
  <2> QED
    BY <1>1, <2>1, <2>3 DEF SnapshotOwed
<1> QED
  BY <1>2, <1>3, <1>4, <1>5, <1>6, <1>7 DEF Next, worker_update_clients,
        websocket_handlers, init_client
-----------------------------------------------------------------------------
LEMMA InitView == Init => ViewIInv
<1> SUFFICES ASSUME Init PROVE ViewIInv
  OBVIOUS
<1>1. IInv /\ SendsToOpenClient
  BY InitIInv DEF Init, SendsToOpenClient
<1>2. LastQueued
  BY EmptyHas DEF Init, LastQueued
<1>3. EventKinds /\ NothingCollected /\ OneKind /\ UpdatesNamed
  BY EmptySeq DEF Init, EventKinds, NothingCollected, OneKind, UpdatesNamed, NoEvent
<1>4. LastCollected /\ ServedIsOpen /\ ViewOwed /\ SnapshotOwed
  BY DEF Init, LastCollected, Collected, ServedIsOpen, ViewOwed, SnapshotOwed
<1> QED
  BY <1>1, <1>2, <1>3, <1>4 DEF ViewIInv

LEMMA StepView == ViewIInv /\ [Next]_vars => ViewIInv'
<1>1. ASSUME ViewIInv, Next
      PROVE  ViewIInv'
  <2>1. IInv' /\ SendsToOpenClient'
    BY <1>1, StepIInv, ClientsStep DEF ViewIInv
  <2> QED
    BY <1>1, <2>1, LastQueuedStep, LastCollectedStep, KindsStep, NothingStep, OneKindStep,
       ServedStep, ViewStep, SnapshotStep, UpdatesStep DEF ViewIInv, IInv
<1>2. ASSUME ViewIInv, UNCHANGED vars
      PROVE  ViewIInv'
  <2>1. IInv'
    BY <1>2, StepIInv DEF ViewIInv
  <2> QED
    BY <1>2, <2>1 DEF ViewIInv, SendsToOpenClient, LastQueued, LastCollected, EventKinds,
       NothingCollected, OneKind, ServedIsOpen, ViewOwed, SnapshotOwed, UpdatesNamed, Owed,
       WorkerOwes, Gone, QueueOwes, ScanOwesGone, BatchTo, Collected, module_event, vars
<1> QED
  BY <1>1, <1>2

LEMMA ViewIInvAlways == Spec => []ViewIInv
<1> QED
  BY InitView, StepView, PTL DEF Spec

(* Whatever the three threads interleave, a client that has missed no      *)
(* event since it was told about a channel sees its state and name, or an  *)
(* event about it is still queued or on its way to the client: although    *)
(* init_client reads both without a lock, while they may be changing.      *)
THEOREM ViewsCurrent == Spec => []ViewCurrent
<1>1. ViewIInv => ViewCurrent
  <2> SUFFICES ASSUME ViewIInv, NEW c \in clients, NEW ch \in Channels,
                      view[c][ch] # Unknown, ~WorkerOwes(ch), ~ScanOwes(ch)
               PROVE  OnItsWay(ch) \/ view[c][ch] = module_event(ch)
    BY DEF ViewCurrent
  <2>1. c \in Clients /\ (upc \in {"clients", "send"} => batch \in Seq(Message) /\ Len(batch) > 0)
    BY DEF ViewIInv, IInv, TypeOK, RegistryTypeOK, WorkerTypeOK, MessageInHand
  <2>2. Owed(c, ch) \/ view[c][ch] = module_event(ch)
    BY <2>1 DEF ViewIInv, ViewOwed
  <2>3. Gone(ch) => OnItsWay(ch)
    BY GoneIsEvent DEF Gone, ScanOwesGone, ScanOwes, QueueOwes, Has, About, OnItsWay
  <2>4. BatchTo(c, ch) => Has(batch, ch)
    BY <2>1, TailHas DEF BatchTo
  <2>5. Has(batch, ch) => OnItsWay(ch)
    BY DEF Has, About, OnItsWay
  <2> QED
    BY <2>2, <2>3, <2>4, <2>5 DEF Owed
<1> QED
  BY <1>1, ViewIInvAlways, PTL

(* get_pending_commands runs only after the events have been sent, and so  *)
(* no client that follows a channel gets data of a module it has not been  *)
(* told about, for any number of channels, names, clients and events.      *)
THEOREM UpdatesComeAfter == Spec => []UpdatesAfterConnect
<1>1. ViewIInv => UpdatesAfterConnect
  <2> DEFINE m == Head(batch)
             ch == Head(batch).channel
  <2> SUFFICES ASSUME ViewIInv, upc = "send", m.kind = "u",
                      view[target][ch] # Unknown, ~Gone(ch)
               PROVE  view[target][ch] = [m EXCEPT !.kind = "c"]
    BY DEF UpdatesAfterConnect, Gone, ScanOwesGone, ScanOwes, QueueOwes, Collected, HasGone
  <2>1. batch \in Seq(Message) /\ Len(batch) > 0 /\ m \in Message /\ ch \in Channels
        /\ m = batch[1] /\ 1 \in 1 .. Len(batch)
    BY HeadAndTail, MessageFacts, TailElements
       DEF ViewIInv, IInv, TypeOK, WorkerTypeOK, MessageInHand
  <2>2. m.name = name[ch] /\ state[ch] = "ModuleConnected"
    BY <2>1 DEF ViewIInv, UpdatesNamed
  <2>3. target \in todo /\ target \in Clients
    BY DEF ViewIInv, ServedIsOpen, IInv, TypeOK, WorkerTypeOK
  <2>4. ~BatchTo(target, ch)
    BY <2>1, <2>3 DEF BatchTo, Has, About, ViewIInv, OneKind
  <2>5. view[target][ch] = module_event(ch)
    BY <2>1, <2>3, <2>4 DEF ViewIInv, ViewOwed, Owed, WorkerOwes
  <2>6. [m EXCEPT !.kind = "c"] = [kind |-> "c", channel |-> ch, name |-> m.name]
    BY <2>1 DEF Message
  <2> QED
    BY <2>2, <2>5, <2>6 DEF module_event
<1> QED
  BY <1>1, ViewIInvAlways, PTL
=============================================================================
