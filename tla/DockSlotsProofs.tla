--------------------------- MODULE DockSlotsProofs ---------------------------
(***************************************************************************)
(* Proofs about DockSlots, for any number of slots and any set of ports.   *)
(***************************************************************************)
EXTENDS DockSlots, TLAPS

USE DEF scan, worker, main, slots, history
-----------------------------------------------------------------------------
(* Slots and ports.                                                        *)

LEMMA SlotFacts ==
  /\ 1 \in Slots
  /\ \A x \in Slots : x < NumSlots => x + 1 \in Slots
  BY SlotAssumption DEF Slots

LEMMA PortFacts ==
  /\ NullPort \in Port
  /\ \A p \in Port, s \in {"open", "closed", "corrupt"} : [p EXCEPT !.status = s] \in Port
  /\ \A p \in Port :
       /\ p.status \in {"null", "copied", "open", "closed", "freed", "corrupt"}
       /\ p.name \in Names \cup {NoName}
  /\ \A m \in Names \cup {NoName}, s \in {"copied", "freed", "corrupt"} :
       [name |-> m, status |-> s] \in Port
  BY DEF NullPort, Port

(* What sp_open does to the port of one slot.                              *)
LEMMA Opened ==
  ASSUME NEW p \in [Slots -> Port], NEW x \in Slots
  PROVE  LET q == [p EXCEPT ![x].status = "open"]
         IN /\ q \in [Slots -> Port]
            /\ q[x].status = "open"
            /\ q[x].name = p[x].name
            /\ \A y \in Slots : y # x => q[y] = p[y]
  BY DEF Port
-----------------------------------------------------------------------------
(* Type correctness, a group of variables at a time.                       *)
LEMMA SlotsTypeStep ==
  ASSUME TypeOK, Next
  PROVE  SlotsTypeOK'
<1> USE DEF TypeOK, SlotsTypeOK, ScanTypeOK
<1>1. ASSUME ScanList
      PROVE  SlotsTypeOK'
  BY <1>1, PortFacts DEF ScanList
<1>2. ASSUME ScanEnd
      PROVE  SlotsTypeOK'
  BY <1>2, PortFacts DEF ScanEnd
<1>3. ASSUME ScanPresent
      PROVE  SlotsTypeOK'
  BY <1>3, PortFacts DEF ScanPresent, Absent, SetDisconnected, NextSlot
<1>4. ASSUME ScanClose
      PROVE  SlotsTypeOK'
  BY <1>4, PortFacts DEF ScanClose, Close
<1>5. ASSUME ScanFree
      PROVE  SlotsTypeOK'
  BY <1>5, PortFacts DEF ScanFree, Free, NextSlot
<1>6. ASSUME NEW n \in Names, ScanHost(n)
      PROVE  SlotsTypeOK'
  BY <1>6, PortFacts DEF ScanHost, HasPort, FirstFree
<1>7. ASSUME ScanDone
      PROVE  SlotsTypeOK'
  BY <1>7, PortFacts DEF ScanDone
<1>8. ASSUME CopyPort
      PROVE  SlotsTypeOK'
  BY <1>8, PortFacts DEF CopyPort, SetPortFails, NullPort
<1>9. ASSUME OpenPort
      PROVE  SlotsTypeOK'
  <2>1. CASE port' = [port EXCEPT ![sx].status = "open"] /\ spc' = "version"
              /\ UNCHANGED <<state, sx, found>>
    <3>1. /\ port' \in [Slots -> Port]
          /\ port'[sx].status = "open"
          /\ port'[sx].name = port[sx].name
          /\ \A y \in Slots : y # sx => port'[y] = port[y]
      BY <2>1, Opened
    <3> QED
      BY <1>9, <2>1, <3>1 DEF OpenPort
  <2>2. CASE SetPortFails /\ UNCHANGED port
    BY <1>9, <2>2, PortFacts DEF OpenPort, SetPortFails
  <2> QED
    BY <1>9, <2>1, <2>2 DEF OpenPort
<1>10. ASSUME GetVersionInfo
      PROVE  SlotsTypeOK'
  BY <1>10, PortFacts DEF GetVersionInfo, SetPortFails
<1>11. ASSUME Enumerate
      PROVE  SlotsTypeOK'
  BY <1>11, PortFacts DEF Enumerate
<1>12. ASSUME CleanupDock
      PROVE  SlotsTypeOK'
  BY <1>12, PortFacts DEF CleanupDock, NeedsDisconnect, SetDisconnected, NextCleanup
<1>13. ASSUME CleanupClose
      PROVE  SlotsTypeOK'
  BY <1>13, PortFacts DEF CleanupClose, Close
<1>14. ASSUME CleanupFree
      PROVE  SlotsTypeOK'
  BY <1>14, PortFacts DEF CleanupFree, Free, NextCleanup
<1>15. ASSUME Bus \/ worker_update_clients \/ Stop \/ Join
      PROVE  SlotsTypeOK'
  BY <1>15, PortFacts DEF Bus, worker_update_clients, TickStart, CallBegin, CallEnd,
        TickEnd, UpdateEnd, Stop, Join, Plug, Unplug, NextTick
<1> QED
  BY <1>1, <1>2, <1>3, <1>4, <1>5, <1>6, <1>7, <1>8, <1>9, <1>10, <1>11, <1>12,
        <1>13, <1>14, <1>15 DEF Next, worker_dock_scan, cleanup

LEMMA ScanTypeStep ==
  ASSUME TypeOK, Next
  PROVE  ScanTypeOK'
<1> USE DEF TypeOK, SlotsTypeOK, ScanTypeOK
<1>1. ASSUME ScanList
      PROVE  ScanTypeOK'
  BY <1>1, SlotFacts DEF ScanList
<1>2. ASSUME ScanEnd
      PROVE  ScanTypeOK'
  BY <1>2, SlotFacts DEF ScanEnd
<1>3. ASSUME ScanPresent
      PROVE  ScanTypeOK'
  BY <1>3, SlotFacts DEF ScanPresent, Absent, SetDisconnected, NextSlot
<1>4. ASSUME ScanClose
      PROVE  ScanTypeOK'
  BY <1>4, SlotFacts DEF ScanClose, Close
<1>5. ASSUME ScanFree
      PROVE  ScanTypeOK'
  BY <1>5, SlotFacts DEF ScanFree, Free, NextSlot
<1>6. ASSUME NEW n \in Names, ScanHost(n)
      PROVE  ScanTypeOK'
  BY <1>6, SlotFacts DEF ScanHost, HasPort, FirstFree
<1>7. ASSUME ScanDone
      PROVE  ScanTypeOK'
  BY <1>7, SlotFacts DEF ScanDone
<1>8. ASSUME CopyPort
      PROVE  ScanTypeOK'
  BY <1>8, SlotFacts DEF CopyPort, SetPortFails, NullPort
<1>9. ASSUME OpenPort
      PROVE  ScanTypeOK'
  BY <1>9, SlotFacts DEF OpenPort, SetPortFails
<1>10. ASSUME GetVersionInfo
      PROVE  ScanTypeOK'
  BY <1>10, SlotFacts DEF GetVersionInfo, SetPortFails
<1>11. ASSUME Enumerate
      PROVE  ScanTypeOK'
  BY <1>11, SlotFacts DEF Enumerate
<1>12. ASSUME CleanupDock
      PROVE  ScanTypeOK'
  BY <1>12, SlotFacts DEF CleanupDock, NeedsDisconnect, SetDisconnected, NextCleanup
<1>13. ASSUME CleanupClose
      PROVE  ScanTypeOK'
  BY <1>13, SlotFacts DEF CleanupClose, Close
<1>14. ASSUME CleanupFree
      PROVE  ScanTypeOK'
  BY <1>14, SlotFacts DEF CleanupFree, Free, NextCleanup
<1>15. ASSUME Bus \/ worker_update_clients \/ Stop \/ Join
      PROVE  ScanTypeOK'
  BY <1>15, SlotFacts DEF Bus, worker_update_clients, TickStart, CallBegin, CallEnd,
        TickEnd, UpdateEnd, Stop, Join, Plug, Unplug, NextTick
<1> QED
  BY <1>1, <1>2, <1>3, <1>4, <1>5, <1>6, <1>7, <1>8, <1>9, <1>10, <1>11, <1>12,
        <1>13, <1>14, <1>15 DEF Next, worker_dock_scan, cleanup

LEMMA ThreadsTypeStep ==
  ASSUME TypeOK, Next
  PROVE  ThreadsTypeOK'
<1> USE DEF TypeOK, SlotsTypeOK, ThreadsTypeOK
<1>1. ASSUME ScanList
      PROVE  ThreadsTypeOK'
  BY <1>1, SlotFacts DEF ScanList
<1>2. ASSUME ScanEnd
      PROVE  ThreadsTypeOK'
  BY <1>2, SlotFacts DEF ScanEnd
<1>3. ASSUME ScanPresent
      PROVE  ThreadsTypeOK'
  BY <1>3, SlotFacts DEF ScanPresent, Absent, SetDisconnected, NextSlot
<1>4. ASSUME ScanClose
      PROVE  ThreadsTypeOK'
  BY <1>4, SlotFacts DEF ScanClose, Close
<1>5. ASSUME ScanFree
      PROVE  ThreadsTypeOK'
  BY <1>5, SlotFacts DEF ScanFree, Free, NextSlot
<1>6. ASSUME NEW n \in Names, ScanHost(n)
      PROVE  ThreadsTypeOK'
  BY <1>6, SlotFacts DEF ScanHost, HasPort, FirstFree
<1>7. ASSUME ScanDone
      PROVE  ThreadsTypeOK'
  BY <1>7, SlotFacts DEF ScanDone
<1>8. ASSUME CopyPort
      PROVE  ThreadsTypeOK'
  BY <1>8, SlotFacts DEF CopyPort, SetPortFails, NullPort
<1>9. ASSUME OpenPort
      PROVE  ThreadsTypeOK'
  BY <1>9, SlotFacts DEF OpenPort, SetPortFails
<1>10. ASSUME GetVersionInfo
      PROVE  ThreadsTypeOK'
  BY <1>10, SlotFacts DEF GetVersionInfo, SetPortFails
<1>11. ASSUME Enumerate
      PROVE  ThreadsTypeOK'
  BY <1>11, SlotFacts DEF Enumerate
<1>12. ASSUME CleanupDock
      PROVE  ThreadsTypeOK'
  BY <1>12, SlotFacts DEF CleanupDock, NeedsDisconnect, SetDisconnected, NextCleanup
<1>13. ASSUME CleanupClose
      PROVE  ThreadsTypeOK'
  BY <1>13, SlotFacts DEF CleanupClose, Close
<1>14. ASSUME CleanupFree
      PROVE  ThreadsTypeOK'
  BY <1>14, SlotFacts DEF CleanupFree, Free, NextCleanup
<1>15. ASSUME Bus \/ worker_update_clients \/ Stop \/ Join
      PROVE  ThreadsTypeOK'
  BY <1>15, SlotFacts DEF Bus, worker_update_clients, TickStart, CallBegin, CallEnd,
        TickEnd, UpdateEnd, Stop, Join, Plug, Unplug, NextTick
<1> QED
  BY <1>1, <1>2, <1>3, <1>4, <1>5, <1>6, <1>7, <1>8, <1>9, <1>10, <1>11, <1>12,
        <1>13, <1>14, <1>15 DEF Next, worker_dock_scan, cleanup

LEMMA HistoryTypeStep ==
  ASSUME TypeOK, Next
  PROVE  HistoryTypeOK'
<1> USE DEF TypeOK, SlotsTypeOK, ScanTypeOK, HistoryTypeOK
<1>1. ASSUME ScanList
      PROVE  HistoryTypeOK'
  BY <1>1, PortFacts DEF ScanList
<1>2. ASSUME ScanEnd
      PROVE  HistoryTypeOK'
  BY <1>2, PortFacts DEF ScanEnd
<1>3. ASSUME ScanPresent
      PROVE  HistoryTypeOK'
  BY <1>3, PortFacts DEF ScanPresent, Absent, SetDisconnected, NextSlot
<1>4. ASSUME ScanClose
      PROVE  HistoryTypeOK'
  BY <1>4, PortFacts DEF ScanClose, Close
<1>5. ASSUME ScanFree
      PROVE  HistoryTypeOK'
  BY <1>5, PortFacts DEF ScanFree, Free, NextSlot
<1>6. ASSUME NEW n \in Names, ScanHost(n)
      PROVE  HistoryTypeOK'
  BY <1>6, PortFacts DEF ScanHost, HasPort, FirstFree
<1>7. ASSUME ScanDone
      PROVE  HistoryTypeOK'
  BY <1>7, PortFacts DEF ScanDone
<1>8. ASSUME CopyPort
      PROVE  HistoryTypeOK'
  BY <1>8, PortFacts DEF CopyPort, SetPortFails, NullPort
<1>9. ASSUME OpenPort
      PROVE  HistoryTypeOK'
  BY <1>9, PortFacts DEF OpenPort, SetPortFails
<1>10. ASSUME GetVersionInfo
      PROVE  HistoryTypeOK'
  BY <1>10, PortFacts DEF GetVersionInfo, SetPortFails
<1>11. ASSUME Enumerate
      PROVE  HistoryTypeOK'
  BY <1>11, PortFacts DEF Enumerate
<1>12. ASSUME CleanupDock
      PROVE  HistoryTypeOK'
  BY <1>12, PortFacts DEF CleanupDock, NeedsDisconnect, SetDisconnected, NextCleanup
<1>13. ASSUME CleanupClose
      PROVE  HistoryTypeOK'
  BY <1>13, PortFacts DEF CleanupClose, Close
<1>14. ASSUME CleanupFree
      PROVE  HistoryTypeOK'
  BY <1>14, PortFacts DEF CleanupFree, Free, NextCleanup
<1>15. ASSUME Bus \/ worker_update_clients \/ Stop \/ Join
      PROVE  HistoryTypeOK'
  BY <1>15, PortFacts DEF Bus, worker_update_clients, TickStart, CallBegin, CallEnd,
        TickEnd, UpdateEnd, Stop, Join, Plug, Unplug, NextTick
<1> QED
  BY <1>1, <1>2, <1>3, <1>4, <1>5, <1>6, <1>7, <1>8, <1>9, <1>10, <1>11, <1>12,
        <1>13, <1>14, <1>15 DEF Next, worker_dock_scan, cleanup

-----------------------------------------------------------------------------
(* A slot only becomes connected by the port Opening says no other has.    *)
LEMMA OneSlotPerPortStep ==
  ASSUME IInv, Next
  PROVE  OneSlotPerPort'
<1> USE DEF IInv, TypeOK, SlotsTypeOK, ScanTypeOK, ThreadsTypeOK, OneSlotPerPort,
            ConnectedOpen, ClosedOnce, Opening, Closing, CleaningUp
<1>1. ASSUME ScanList
      PROVE  OneSlotPerPort'
  BY <1>1, PortFacts DEF ScanList
<1>2. ASSUME ScanEnd
      PROVE  OneSlotPerPort'
  BY <1>2, PortFacts DEF ScanEnd
<1>3. ASSUME ScanPresent
      PROVE  OneSlotPerPort'
  BY <1>3, PortFacts DEF ScanPresent, Absent, SetDisconnected, NextSlot
<1>4. ASSUME ScanClose
      PROVE  OneSlotPerPort'
  BY <1>4, PortFacts DEF ScanClose, Close
<1>5. ASSUME ScanFree
      PROVE  OneSlotPerPort'
  BY <1>5, PortFacts DEF ScanFree, Free, NextSlot
<1>6. ASSUME NEW n \in Names, ScanHost(n)
      PROVE  OneSlotPerPort'
  BY <1>6, PortFacts DEF ScanHost, HasPort, FirstFree
<1>7. ASSUME ScanDone
      PROVE  OneSlotPerPort'
  BY <1>7, PortFacts DEF ScanDone
<1>8. ASSUME CopyPort
      PROVE  OneSlotPerPort'
  BY <1>8, PortFacts DEF CopyPort, SetPortFails, NullPort
<1>9. ASSUME OpenPort
      PROVE  OneSlotPerPort'
  BY <1>9, PortFacts DEF OpenPort, SetPortFails
<1>10. ASSUME GetVersionInfo
      PROVE  OneSlotPerPort'
  BY <1>10, PortFacts DEF GetVersionInfo, SetPortFails
<1>11. ASSUME Enumerate
      PROVE  OneSlotPerPort'
  BY <1>11, PortFacts DEF Enumerate
<1>12. ASSUME CleanupDock
      PROVE  OneSlotPerPort'
  BY <1>12, PortFacts DEF CleanupDock, NeedsDisconnect, SetDisconnected, NextCleanup
<1>13. ASSUME CleanupClose
      PROVE  OneSlotPerPort'
  BY <1>13, PortFacts DEF CleanupClose, Close
<1>14. ASSUME CleanupFree
      PROVE  OneSlotPerPort'
  BY <1>14, PortFacts DEF CleanupFree, Free, NextCleanup
<1>15. ASSUME Bus \/ worker_update_clients \/ Stop \/ Join
      PROVE  OneSlotPerPort'
  BY <1>15, PortFacts DEF Bus, worker_update_clients, TickStart, CallBegin, CallEnd,
        TickEnd, UpdateEnd, Stop, Join, Plug, Unplug, NextTick
<1> QED
  BY <1>1, <1>2, <1>3, <1>4, <1>5, <1>6, <1>7, <1>8, <1>9, <1>10, <1>11, <1>12,
        <1>13, <1>14, <1>15 DEF Next, worker_dock_scan, cleanup

LEMMA ConnectedOpenStep ==
  ASSUME IInv, Next
  PROVE  ConnectedOpen'
<1> USE DEF IInv, TypeOK, SlotsTypeOK, ScanTypeOK, ThreadsTypeOK, OneSlotPerPort,
            ConnectedOpen, ClosedOnce, Opening, Closing, CleaningUp
<1>1. ASSUME ScanList
      PROVE  ConnectedOpen'
  BY <1>1, PortFacts DEF ScanList
<1>2. ASSUME ScanEnd
      PROVE  ConnectedOpen'
  BY <1>2, PortFacts DEF ScanEnd
<1>3. ASSUME ScanPresent
      PROVE  ConnectedOpen'
  BY <1>3, PortFacts DEF ScanPresent, Absent, SetDisconnected, NextSlot
<1>4. ASSUME ScanClose
      PROVE  ConnectedOpen'
  BY <1>4, PortFacts DEF ScanClose, Close
<1>5. ASSUME ScanFree
      PROVE  ConnectedOpen'
  BY <1>5, PortFacts DEF ScanFree, Free, NextSlot
<1>6. ASSUME NEW n \in Names, ScanHost(n)
      PROVE  ConnectedOpen'
  BY <1>6, PortFacts DEF ScanHost, HasPort, FirstFree
<1>7. ASSUME ScanDone
      PROVE  ConnectedOpen'
  BY <1>7, PortFacts DEF ScanDone
<1>8. ASSUME CopyPort
      PROVE  ConnectedOpen'
  BY <1>8, PortFacts DEF CopyPort, SetPortFails, NullPort
<1>9. ASSUME OpenPort
      PROVE  ConnectedOpen'
  BY <1>9, PortFacts DEF OpenPort, SetPortFails
<1>10. ASSUME GetVersionInfo
      PROVE  ConnectedOpen'
  BY <1>10, PortFacts DEF GetVersionInfo, SetPortFails
<1>11. ASSUME Enumerate
      PROVE  ConnectedOpen'
  BY <1>11, PortFacts DEF Enumerate
<1>12. ASSUME CleanupDock
      PROVE  ConnectedOpen'
  BY <1>12, PortFacts DEF CleanupDock, NeedsDisconnect, SetDisconnected, NextCleanup
<1>13. ASSUME CleanupClose
      PROVE  ConnectedOpen'
  BY <1>13, PortFacts DEF CleanupClose, Close
<1>14. ASSUME CleanupFree
      PROVE  ConnectedOpen'
  BY <1>14, PortFacts DEF CleanupFree, Free, NextCleanup
<1>15. ASSUME Bus \/ worker_update_clients \/ Stop \/ Join
      PROVE  ConnectedOpen'
  BY <1>15, PortFacts DEF Bus, worker_update_clients, TickStart, CallBegin, CallEnd,
        TickEnd, UpdateEnd, Stop, Join, Plug, Unplug, NextTick
<1> QED
  BY <1>1, <1>2, <1>3, <1>4, <1>5, <1>6, <1>7, <1>8, <1>9, <1>10, <1>11, <1>12,
        <1>13, <1>14, <1>15 DEF Next, worker_dock_scan, cleanup

LEMMA ClosedOnceStep ==
  ASSUME IInv, Next
  PROVE  ClosedOnce'
<1> USE DEF IInv, TypeOK, SlotsTypeOK, ScanTypeOK, ThreadsTypeOK, OneSlotPerPort,
            ConnectedOpen, ClosedOnce, Opening, Closing, CleaningUp
<1>1. ASSUME ScanList
      PROVE  ClosedOnce'
  BY <1>1, PortFacts DEF ScanList
<1>2. ASSUME ScanEnd
      PROVE  ClosedOnce'
  BY <1>2, PortFacts DEF ScanEnd
<1>3. ASSUME ScanPresent
      PROVE  ClosedOnce'
  BY <1>3, PortFacts DEF ScanPresent, Absent, SetDisconnected, NextSlot
<1>4. ASSUME ScanClose
      PROVE  ClosedOnce'
  BY <1>4, PortFacts DEF ScanClose, Close
<1>5. ASSUME ScanFree
      PROVE  ClosedOnce'
  BY <1>5, PortFacts DEF ScanFree, Free, NextSlot
<1>6. ASSUME NEW n \in Names, ScanHost(n)
      PROVE  ClosedOnce'
  BY <1>6, PortFacts DEF ScanHost, HasPort, FirstFree
<1>7. ASSUME ScanDone
      PROVE  ClosedOnce'
  BY <1>7, PortFacts DEF ScanDone
<1>8. ASSUME CopyPort
      PROVE  ClosedOnce'
  BY <1>8, PortFacts DEF CopyPort, SetPortFails, NullPort
<1>9. ASSUME OpenPort
      PROVE  ClosedOnce'
  <2>1. CASE port' = [port EXCEPT ![sx].status = "open"] /\ spc' = "version"
              /\ UNCHANGED <<state, sx, found>>
    <3>1. /\ port' \in [Slots -> Port]
          /\ port'[sx].status = "open"
          /\ port'[sx].name = port[sx].name
          /\ \A y \in Slots : y # sx => port'[y] = port[y]
      BY <2>1, Opened
    <3> QED
      BY <1>9, <2>1, <3>1 DEF OpenPort
  <2>2. CASE SetPortFails /\ UNCHANGED port
    BY <1>9, <2>2, PortFacts DEF OpenPort, SetPortFails
  <2> QED
    BY <1>9, <2>1, <2>2 DEF OpenPort
<1>10. ASSUME GetVersionInfo
      PROVE  ClosedOnce'
  BY <1>10, PortFacts DEF GetVersionInfo, SetPortFails
<1>11. ASSUME Enumerate
      PROVE  ClosedOnce'
  BY <1>11, PortFacts DEF Enumerate
<1>12. ASSUME CleanupDock
      PROVE  ClosedOnce'
  BY <1>12, PortFacts DEF CleanupDock, NeedsDisconnect, SetDisconnected, NextCleanup
<1>13. ASSUME CleanupClose
      PROVE  ClosedOnce'
  BY <1>13, PortFacts DEF CleanupClose, Close
<1>14. ASSUME CleanupFree
      PROVE  ClosedOnce'
  BY <1>14, PortFacts DEF CleanupFree, Free, NextCleanup
<1>15. ASSUME Bus \/ worker_update_clients \/ Stop \/ Join
      PROVE  ClosedOnce'
  BY <1>15, PortFacts DEF Bus, worker_update_clients, TickStart, CallBegin, CallEnd,
        TickEnd, UpdateEnd, Stop, Join, Plug, Unplug, NextTick
<1> QED
  BY <1>1, <1>2, <1>3, <1>4, <1>5, <1>6, <1>7, <1>8, <1>9, <1>10, <1>11, <1>12,
        <1>13, <1>14, <1>15 DEF Next, worker_dock_scan, cleanup

(* scan_for_host gives away a port no slot has.                            *)
LEMMA OpeningStep ==
  ASSUME IInv, Next
  PROVE  Opening'
<1> USE DEF IInv, TypeOK, SlotsTypeOK, ScanTypeOK, ThreadsTypeOK, OneSlotPerPort,
            ConnectedOpen, ClosedOnce, Opening, Closing, CleaningUp
<1>1. ASSUME ScanList
      PROVE  Opening'
  BY <1>1, PortFacts DEF ScanList
<1>2. ASSUME ScanEnd
      PROVE  Opening'
  BY <1>2, PortFacts DEF ScanEnd
<1>3. ASSUME ScanPresent
      PROVE  Opening'
  BY <1>3, PortFacts DEF ScanPresent, Absent, SetDisconnected, NextSlot
<1>4. ASSUME ScanClose
      PROVE  Opening'
  BY <1>4, PortFacts DEF ScanClose, Close
<1>5. ASSUME ScanFree
      PROVE  Opening'
  BY <1>5, PortFacts DEF ScanFree, Free, NextSlot
<1>6. ASSUME NEW n \in Names, ScanHost(n)
      PROVE  Opening'
  BY <1>6, PortFacts DEF ScanHost, HasPort, FirstFree
<1>7. ASSUME ScanDone
      PROVE  Opening'
  BY <1>7, PortFacts DEF ScanDone
<1>8. ASSUME CopyPort
      PROVE  Opening'
  BY <1>8, PortFacts DEF CopyPort, SetPortFails, NullPort
<1>9. ASSUME OpenPort
      PROVE  Opening'
  <2>1. CASE port' = [port EXCEPT ![sx].status = "open"] /\ spc' = "version"
              /\ UNCHANGED <<state, sx, found>>
    <3>1. /\ port' \in [Slots -> Port]
          /\ port'[sx].status = "open"
          /\ port'[sx].name = port[sx].name
          /\ \A y \in Slots : y # sx => port'[y] = port[y]
      BY <2>1, Opened
    <3> QED
      BY <1>9, <2>1, <3>1 DEF OpenPort
  <2>2. CASE SetPortFails /\ UNCHANGED port
    BY <1>9, <2>2, PortFacts DEF OpenPort, SetPortFails
  <2> QED
    BY <1>9, <2>1, <2>2 DEF OpenPort
<1>10. ASSUME GetVersionInfo
      PROVE  Opening'
  BY <1>10, PortFacts DEF GetVersionInfo, SetPortFails
<1>11. ASSUME Enumerate
      PROVE  Opening'
  BY <1>11, PortFacts DEF Enumerate
<1>12. ASSUME CleanupDock
      PROVE  Opening'
  BY <1>12, PortFacts DEF CleanupDock, NeedsDisconnect, SetDisconnected, NextCleanup
<1>13. ASSUME CleanupClose
      PROVE  Opening'
  BY <1>13, PortFacts DEF CleanupClose, Close
<1>14. ASSUME CleanupFree
      PROVE  Opening'
  BY <1>14, PortFacts DEF CleanupFree, Free, NextCleanup
<1>15. ASSUME Bus \/ worker_update_clients \/ Stop \/ Join
      PROVE  Opening'
  BY <1>15, PortFacts DEF Bus, worker_update_clients, TickStart, CallBegin, CallEnd,
        TickEnd, UpdateEnd, Stop, Join, Plug, Unplug, NextTick
<1> QED
  BY <1>1, <1>2, <1>3, <1>4, <1>5, <1>6, <1>7, <1>8, <1>9, <1>10, <1>11, <1>12,
        <1>13, <1>14, <1>15 DEF Next, worker_dock_scan, cleanup

(* No slot is Connecting while the scan disconnects: it was open.          *)
LEMMA ClosingStep ==
  ASSUME IInv, Next
  PROVE  Closing'
<1> USE DEF IInv, TypeOK, SlotsTypeOK, ScanTypeOK, ThreadsTypeOK, OneSlotPerPort,
            ConnectedOpen, ClosedOnce, Opening, Closing, CleaningUp
<1>1. ASSUME ScanList
      PROVE  Closing'
  BY <1>1, PortFacts DEF ScanList
<1>2. ASSUME ScanEnd
      PROVE  Closing'
  BY <1>2, PortFacts DEF ScanEnd
<1>3. ASSUME ScanPresent
      PROVE  Closing'
  BY <1>3, PortFacts DEF ScanPresent, Absent, SetDisconnected, NextSlot
<1>4. ASSUME ScanClose
      PROVE  Closing'
  BY <1>4, PortFacts DEF ScanClose, Close
<1>5. ASSUME ScanFree
      PROVE  Closing'
  BY <1>5, PortFacts DEF ScanFree, Free, NextSlot
<1>6. ASSUME NEW n \in Names, ScanHost(n)
      PROVE  Closing'
  BY <1>6, PortFacts DEF ScanHost, HasPort, FirstFree
<1>7. ASSUME ScanDone
      PROVE  Closing'
  BY <1>7, PortFacts DEF ScanDone
<1>8. ASSUME CopyPort
      PROVE  Closing'
  BY <1>8, PortFacts DEF CopyPort, SetPortFails, NullPort
<1>9. ASSUME OpenPort
      PROVE  Closing'
  BY <1>9, PortFacts DEF OpenPort, SetPortFails
<1>10. ASSUME GetVersionInfo
      PROVE  Closing'
  BY <1>10, PortFacts DEF GetVersionInfo, SetPortFails
<1>11. ASSUME Enumerate
      PROVE  Closing'
  BY <1>11, PortFacts DEF Enumerate
<1>12. ASSUME CleanupDock
      PROVE  Closing'
  BY <1>12, PortFacts DEF CleanupDock, NeedsDisconnect, SetDisconnected, NextCleanup
<1>13. ASSUME CleanupClose
      PROVE  Closing'
  BY <1>13, PortFacts DEF CleanupClose, Close
<1>14. ASSUME CleanupFree
      PROVE  Closing'
  BY <1>14, PortFacts DEF CleanupFree, Free, NextCleanup
<1>15. ASSUME Bus \/ worker_update_clients \/ Stop \/ Join
      PROVE  Closing'
  BY <1>15, PortFacts DEF Bus, worker_update_clients, TickStart, CallBegin, CallEnd,
        TickEnd, UpdateEnd, Stop, Join, Plug, Unplug, NextTick
<1> QED
  BY <1>1, <1>2, <1>3, <1>4, <1>5, <1>6, <1>7, <1>8, <1>9, <1>10, <1>11, <1>12,
        <1>13, <1>14, <1>15 DEF Next, worker_dock_scan, cleanup

(* cleanup() runs when worker_dock_scan has ended, between two of its scans.*)
LEMMA CleaningUpStep ==
  ASSUME IInv, Next
  PROVE  CleaningUp'
<1> USE DEF IInv, TypeOK, SlotsTypeOK, ScanTypeOK, ThreadsTypeOK, OneSlotPerPort,
            ConnectedOpen, ClosedOnce, Opening, Closing, CleaningUp
<1>1. ASSUME ScanList
      PROVE  CleaningUp'
  BY <1>1, PortFacts DEF ScanList
<1>2. ASSUME ScanEnd
      PROVE  CleaningUp'
  BY <1>2, PortFacts DEF ScanEnd
<1>3. ASSUME ScanPresent
      PROVE  CleaningUp'
  BY <1>3, PortFacts DEF ScanPresent, Absent, SetDisconnected, NextSlot
<1>4. ASSUME ScanClose
      PROVE  CleaningUp'
  BY <1>4, PortFacts DEF ScanClose, Close
<1>5. ASSUME ScanFree
      PROVE  CleaningUp'
  BY <1>5, PortFacts DEF ScanFree, Free, NextSlot
<1>6. ASSUME NEW n \in Names, ScanHost(n)
      PROVE  CleaningUp'
  BY <1>6, PortFacts DEF ScanHost, HasPort, FirstFree
<1>7. ASSUME ScanDone
      PROVE  CleaningUp'
  BY <1>7, PortFacts DEF ScanDone
<1>8. ASSUME CopyPort
      PROVE  CleaningUp'
  BY <1>8, PortFacts DEF CopyPort, SetPortFails, NullPort
<1>9. ASSUME OpenPort
      PROVE  CleaningUp'
  BY <1>9, PortFacts DEF OpenPort, SetPortFails
<1>10. ASSUME GetVersionInfo
      PROVE  CleaningUp'
  BY <1>10, PortFacts DEF GetVersionInfo, SetPortFails
<1>11. ASSUME Enumerate
      PROVE  CleaningUp'
  BY <1>11, PortFacts DEF Enumerate
<1>12. ASSUME CleanupDock
      PROVE  CleaningUp'
  BY <1>12, PortFacts DEF CleanupDock, NeedsDisconnect, SetDisconnected, NextCleanup
<1>13. ASSUME CleanupClose
      PROVE  CleaningUp'
  BY <1>13, PortFacts DEF CleanupClose, Close
<1>14. ASSUME CleanupFree
      PROVE  CleaningUp'
  BY <1>14, PortFacts DEF CleanupFree, Free, NextCleanup
<1>15. ASSUME Bus \/ worker_update_clients \/ Stop \/ Join
      PROVE  CleaningUp'
  BY <1>15, PortFacts DEF Bus, worker_update_clients, TickStart, CallBegin, CallEnd,
        TickEnd, UpdateEnd, Stop, Join, Plug, Unplug, NextTick
<1> QED
  BY <1>1, <1>2, <1>3, <1>4, <1>5, <1>6, <1>7, <1>8, <1>9, <1>10, <1>11, <1>12,
        <1>13, <1>14, <1>15 DEF Next, worker_dock_scan, cleanup

-----------------------------------------------------------------------------
LEMMA InitIInv == Init => IInv
<1> SUFFICES ASSUME Init PROVE IInv
  OBVIOUS
<1>1. TypeOK
  BY SlotFacts, PortFacts DEF Init, TypeOK, SlotsTypeOK, ScanTypeOK, ThreadsTypeOK,
        HistoryTypeOK
<1>2. OneSlotPerPort /\ ConnectedOpen /\ ClosedOnce
  BY DEF Init, OneSlotPerPort, ConnectedOpen, ClosedOnce, NullPort
<1>3. Opening /\ Closing /\ CleaningUp
  BY DEF Init, Opening, Closing, CleaningUp
<1> QED
  BY <1>1, <1>2, <1>3 DEF IInv

LEMMA StepIInv == IInv /\ [Next]_vars => IInv'
<1>1. ASSUME IInv, Next
      PROVE  IInv'
  BY <1>1, SlotsTypeStep, ScanTypeStep, ThreadsTypeStep, HistoryTypeStep,
     OneSlotPerPortStep, ConnectedOpenStep, ClosedOnceStep, OpeningStep, ClosingStep,
     CleaningUpStep DEF IInv, TypeOK
<1>2. ASSUME IInv, UNCHANGED vars
      PROVE  IInv'
  BY <1>2 DEF vars, IInv, TypeOK, SlotsTypeOK, ScanTypeOK, ThreadsTypeOK, HistoryTypeOK,
        OneSlotPerPort, ConnectedOpen, ClosedOnce, Opening, Closing, CleaningUp
<1> QED
  BY <1>1, <1>2

LEMMA IInvAlways == Spec => []IInv
  BY InitIInv, StepIInv, PTL DEF Spec

(* Every index into the array of docks stays below MAX_DOCKS, and a port   *)
(* is always in one of the states the code puts it in.                     *)
THEOREM TypeCorrect == Spec => []TypeOK
<1>1. IInv => TypeOK
  BY DEF IInv
<1> QED
  BY <1>1, IInvAlways, PTL

(* No two slots are connected to the same port, for any number of slots    *)
(* and ports and whatever is plugged in or out at any time: one thread     *)
(* gives ports to slots, and it looks at all slots before it gives one.    *)
THEOREM PortsNotShared == Spec => []OneSlotPerPort
<1>1. IInv => OneSlotPerPort
  BY DEF IInv
<1> QED
  BY <1>1, IInvAlways, PTL

(* Whoever reads that a slot is Connected finds its port open at that      *)
(* moment: set_port opens the port first, disconnect closes it last.       *)
THEOREM ConnectedMeansOpen == Spec => []ConnectedOpen
<1>1. IInv => ConnectedOpen
  BY DEF IInv
<1> QED
  BY <1>1, IInvAlways, PTL

(* No port is closed or freed twice, although two threads call disconnect: *)
(* cleanup() joins the other first, and disconnect returns early if the    *)
(* slot is already Disconnected.                                           *)
THEOREM FreedOnce == Spec => []ClosedOnce
<1>1. IInv => ClosedOnce
  BY DEF IInv
<1> QED
  BY <1>1, IInvAlways, PTL
=============================================================================
