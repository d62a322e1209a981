------------------------------ MODULE DockSlots ------------------------------
(***************************************************************************)
(* How the daemon's slots for docks get and lose their serial ports, from  *)
(* main() to cleanup().  The threads are                                   *)
(*                                                                         *)
(*   spc    worker_dock_scan: update_connected_docks and scan_for_host,    *)
(*          with FlotillaDock::disconnect and set_port;                    *)
(*   upc    worker_update_clients: update_docks and FlotillaDock::tick;    *)
(*   mpc    the thread that runs main() and, in the end, cleanup().        *)
(*                                                                         *)
(* A slot's state and port are not locked.  A port is what sp_copy_port    *)
(* returned: it goes from "copied" to "open", "closed" and "freed", and is *)
(* "corrupt" if it is closed or freed out of turn.  Only the USB devices   *)
(* that have the Flotilla's VID and PID are in `plugged'.                  *)
(***************************************************************************)
EXTENDS Integers, FiniteSets

CONSTANTS
  NumSlots,  (* MAX_DOCKS                                                  *)
  Names,     (* names of serial ports                                      *)
  NoName,    (* no name                                                    *)
  Good       (* the names of ports whose dock answers when it is asked and *)
             (* of which libserialport reports no error while it is there  *)

ASSUME SlotAssumption == NumSlots \in Nat \ {0}

ASSUME NameAssumption == NoName \notin Names /\ Good \subseteq Names

VARIABLES
  plugged,   (* the ports there are now                                    *)
  state,     (* the DockState of each slot                                 *)
  port,      (* its port                                                   *)
  has_serial,(* whether its serial has 22 characters                       *)
  spc,       (* where worker_dock_scan is ...                              *)
  sx,        (* ... the slot it has come to                                *)
  listed,    (* ... the ports sp_list_ports returned (in the second loop,  *)
             (* those it has yet to come to)                               *)
  found,     (* ... and the one it is giving to a slot                     *)
  upc,       (* where worker_update_clients is ...                         *)
  ux,        (* ... and the slot it has come to                            *)
  mpc,       (* where main() is ...                                        *)
  mx,        (* ... and the slot cleanup() has come to                     *)
  running,   (* the flag both workers look at                              *)
  leaked,    (* history: names of the copies that were never freed         *)
  stolen     (* history: tick() has read from a port set_port is opening   *)

scan == <<spc, sx, listed, found>>
worker == <<upc, ux>>
main == <<mpc, mx, running>>
slots == <<state, port, has_serial>>
history == <<leaked, stolen>>
vars == <<plugged, slots, scan, worker, main, history>>

Slots == 1 .. NumSlots

NullPort == [name |-> NoName, status |-> "null"]

Port == [name : Names \cup {NoName},
         status : {"null", "copied", "open", "closed", "freed", "corrupt"}]

Unfreed == {"copied", "open", "closed"}

Init ==
  /\ plugged = {}
  /\ state = [x \in Slots |-> "Disconnected"]
  /\ port = [x \in Slots |-> NullPort]
  /\ has_serial = [x \in Slots |-> FALSE]
  /\ spc = "idle" /\ sx = 1
  /\ listed = {} /\ found = NoName
  /\ upc = "loop" /\ ux = 1
  /\ mpc = "serving" /\ mx = 1 /\ running = TRUE
  /\ leaked = {} /\ stolen = FALSE
-----------------------------------------------------------------------------
(* The USB bus.                                                            *)
Plug(n) ==
  /\ n \notin plugged
  /\ plugged' = plugged \cup {n}
  /\ UNCHANGED <<slots, scan, worker, main, history>>

Unplug(n) ==
  /\ n \in plugged
  /\ plugged' = plugged \ {n}
  /\ UNCHANGED <<slots, scan, worker, main, history>>
-----------------------------------------------------------------------------
(* FlotillaDock::disconnect, called with the slot's state not Disconnected:*)
(* the state first, then (after the modules) sp_close and sp_free_port.    *)
SetDisconnected_Missing(x) == UNCHANGED slots

SetDisconnected(x) ==
  /\ state' = [state EXCEPT ![x] = "Disconnected"]
  /\ UNCHANGED <<port, has_serial>>

Close(x) ==
  /\ port' = [port EXCEPT ![x].status = IF @ = "open" THEN "closed" ELSE "corrupt"]
  /\ UNCHANGED <<state, has_serial>>

Free(x) ==
  /\ port' = [port EXCEPT ![x] = [name |-> NoName,
                                  status |-> IF @.status = "closed" THEN "freed"
                                                                    ELSE "corrupt"]]
  /\ UNCHANGED <<state, has_serial>>

(* The early return of disconnect.                                         *)
NeedsDisconnect_Always(x) == TRUE

NeedsDisconnect(x) == state[x] # "Disconnected"
-----------------------------------------------------------------------------
(* worker_dock_scan.                                                       *)

(* sp_list_ports.  (When it fails there is nothing to do for a second.)    *)
ScanList ==
  /\ spc = "idle"
  /\ running
  /\ listed' = plugged
  /\ spc' = "present"
  /\ UNCHANGED <<plugged, slots, sx, found, worker, main, history>>

ScanEnd ==
  /\ spc = "idle"
  /\ ~running
  /\ spc' = "ended"
  /\ UNCHANGED <<plugged, slots, sx, listed, found, worker, main, history>>

(* The loop of update_connected_docks over the slots.                      *)
NextSlot_SkipLast ==
  IF sx + 1 < NumSlots THEN spc' = "present" /\ sx' = sx + 1
                       ELSE spc' = "host" /\ sx' = 1

NextSlot ==
  IF sx < NumSlots THEN spc' = "present" /\ sx' = sx + 1
                   ELSE spc' = "host" /\ sx' = 1

Absent(x) ==
  /\ port[x].status # "null"
  /\ state[x] # "Disconnected"
  /\ port[x].name \notin listed

ScanPresent ==
  /\ spc = "present"
  /\ IF Absent(sx) THEN SetDisconnected(sx) /\ spc' = "close" /\ UNCHANGED sx
                   ELSE NextSlot /\ UNCHANGED slots
  /\ UNCHANGED <<plugged, listed, found, worker, main, history>>

ScanClose ==
  /\ spc = "close"
  /\ Close(sx)
  /\ spc' = "free"
  /\ UNCHANGED <<plugged, sx, listed, found, worker, main, history>>

ScanFree ==
  /\ spc = "free"
  /\ Free(sx)
  /\ NextSlot
  /\ UNCHANGED <<plugged, listed, found, worker, main, history>>

(* scan_for_host, for each of the ports listed: nothing if some slot has   *)
(* it, else set_port of the first slot that is Disconnected.               *)
HasPort_Never(n) == FALSE

HasPort(n) == \E x \in Slots : state[x] # "Disconnected" /\ port[x].name = n

FirstFree(x) ==
  /\ state[x] = "Disconnected"
  /\ \A y \in Slots : y < x => state[y] # "Disconnected"

ScanHost(n) ==
  /\ spc = "host"
  /\ n \in listed
  /\ listed' = listed \ {n}
  /\ IF HasPort(n) \/ \A x \in Slots : state[x] # "Disconnected"
     THEN UNCHANGED <<state, spc, sx, found>>
     ELSE \E x \in Slots :
            /\ FirstFree(x)
            /\ sx' = x
            /\ state' = [state EXCEPT ![x] = "Connecting"]
            /\ found' = n
            /\ spc' = "copy"
  /\ UNCHANGED <<plugged, port, has_serial, worker, main, history>>

(* sp_free_port_list and the second's sleep.                               *)
ScanDone ==
  /\ spc = "host"
  /\ listed = {}
  /\ spc' = "idle"
  /\ UNCHANGED <<plugged, slots, sx, listed, found, worker, main, history>>
-----------------------------------------------------------------------------
(* set_port.                                                               *)
SetPortFails_StaysConnecting ==
  /\ spc' = "host"
  /\ sx' = 1
  /\ found' = NoName
  /\ UNCHANGED state

SetPortFails ==
  /\ state' = [state EXCEPT ![sx] = "Disconnected"]
  /\ spc' = "host"
  /\ sx' = 1
  /\ found' = NoName

(* sp_copy_port overwrites the slot's port, with NULL if it fails.         *)
CopyPort ==
  /\ spc = "copy"
  /\ leaked' = IF port[sx].status \in Unfreed THEN leaked \cup {port[sx].name} ELSE leaked
  /\ \/ /\ port' = [port EXCEPT ![sx] = [name |-> found, status |-> "copied"]]
        /\ spc' = "open"
        /\ UNCHANGED <<state, sx, found>>
     \/ /\ found \notin Good
        /\ port' = [port EXCEPT ![sx] = NullPort]
        /\ SetPortFails
  /\ UNCHANGED <<plugged, has_serial, listed, worker, main, stolen>>

OpenPort ==
  /\ spc = "open"
  /\ \/ /\ port' = [port EXCEPT ![sx].status = "open"]
        /\ spc' = "version"
        /\ UNCHANGED <<state, sx, found>>
     \/ /\ found \in Good => found \notin plugged \/ found \in leaked
        /\ SetPortFails
        /\ UNCHANGED port
  /\ UNCHANGED <<plugged, has_serial, listed, worker, main, history>>

(* get_version_info needs the line "ready to set sail", a version and a    *)
(* serial; the serial may be that of the dock that had the slot before.    *)
GetVersionInfo ==
  /\ spc = "version"
  /\ \E ready, version, serial \in BOOLEAN :
       /\ (found \in Good \cap plugged /\ ~stolen) => ready /\ version /\ serial
       /\ has_serial' = [has_serial EXCEPT ![sx] = @ \/ (ready /\ serial)]
       /\ IF ready /\ version /\ has_serial'[sx]
          THEN /\ state' = [state EXCEPT ![sx] = "Connected"]
               /\ spc' = "enumerate"
               /\ UNCHANGED <<sx, found>>
          ELSE SetPortFails
  /\ stolen' = FALSE
  /\ UNCHANGED <<plugged, port, listed, worker, main, leaked>>

(* cmd_enumerate writes "e" to the port.                                   *)
Enumerate ==
  /\ spc = "enumerate"
  /\ spc' = "host"
  /\ sx' = 1
  /\ found' = NoName
  /\ UNCHANGED <<plugged, slots, listed, worker, main, history>>
-----------------------------------------------------------------------------
(* worker_update_clients.                                                  *)
NextTick == IF ux < NumSlots THEN ux' = ux + 1 ELSE ux' = 1

(* The loop looks at `running' before the first slot, update_docks and     *)
(* tick at the state of each.                                              *)
TickStart ==
  /\ upc = "loop"
  /\ ux = 1 => running
  /\ IF state[ux] = "Connected" THEN upc' = "tick" /\ UNCHANGED ux
                                ELSE NextTick /\ UNCHANGED upc
  /\ UNCHANGED <<plugged, slots, scan, main, history>>

(* A call of libserialport with the port the slot has by now.              *)
CallBegin ==
  /\ upc = "tick"
  /\ upc' = "call"
  /\ stolen' = (stolen \/ (spc = "version" /\ sx = ux))
  /\ UNCHANGED <<plugged, slots, scan, ux, main, leaked>>

CallEnd ==
  /\ upc = "call"
  /\ upc' = "tick"
  /\ UNCHANGED <<plugged, slots, scan, ux, main, history>>

TickEnd ==
  /\ upc = "tick"
  /\ upc' = "loop"
  /\ NextTick
  /\ UNCHANGED <<plugged, slots, scan, main, history>>

UpdateEnd ==
  /\ upc = "loop"
  /\ ux = 1
  /\ ~running
  /\ upc' = "ended"
  /\ UNCHANGED <<plugged, slots, scan, ux, main, history>>
-----------------------------------------------------------------------------
(* main() after start_server has returned: cleanup() stops and joins the   *)
(* workers, then disconnects every slot.                                   *)
Stop_WithoutFlag ==
  /\ mpc = "serving"
  /\ mpc' = "join"
  /\ UNCHANGED <<plugged, slots, scan, worker, mx, running, history>>

Stop ==
  /\ mpc = "serving"
  /\ running' = FALSE
  /\ mpc' = "join"
  /\ UNCHANGED <<plugged, slots, scan, worker, mx, history>>

Join ==
  /\ mpc = "join"
  /\ spc = "ended"
  /\ upc = "ended"
  /\ mpc' = "cleanup"
  /\ UNCHANGED <<plugged, slots, scan, worker, mx, running, history>>

NextCleanup == IF mx < NumSlots THEN mpc' = "cleanup" /\ mx' = mx + 1
                                ELSE mpc' = "done" /\ mx' = 1

CleanupDock ==
  /\ mpc = "cleanup"
  /\ IF NeedsDisconnect(mx)
     THEN SetDisconnected(mx) /\ mpc' = "close" /\ UNCHANGED mx
     ELSE NextCleanup /\ UNCHANGED slots
  /\ UNCHANGED <<plugged, scan, worker, running, history>>

CleanupClose ==
  /\ mpc = "close"
  /\ Close(mx)
  /\ mpc' = "free"
  /\ UNCHANGED <<plugged, scan, worker, mx, running, history>>

CleanupFree ==
  /\ mpc = "free"
  /\ Free(mx)
  /\ NextCleanup
  /\ UNCHANGED <<plugged, scan, worker, running, history>>
-----------------------------------------------------------------------------
worker_dock_scan ==
  \/ ScanList \/ ScanEnd \/ ScanPresent \/ ScanClose \/ ScanFree
  \/ (\E n \in Names : ScanHost(n)) \/ ScanDone
  \/ CopyPort \/ OpenPort \/ GetVersionInfo \/ Enumerate

worker_update_clients == TickStart \/ CallBegin \/ CallEnd \/ TickEnd \/ UpdateEnd

cleanup == Join \/ CleanupDock \/ CleanupClose \/ CleanupFree

Bus == \E n \in Names : Plug(n) \/ Unplug(n)

Next == Bus \/ worker_dock_scan \/ worker_update_clients \/ Stop \/ cleanup

Spec == Init /\ [][Next]_vars

(* The scheduler runs every thread; a dock does not send faster than tick  *)
(* can read for ever, nor does a call of libserialport block for ever.     *)
FairSpec ==
  /\ Spec
  /\ WF_vars(worker_dock_scan)
  /\ WF_vars(TickStart \/ CallEnd \/ UpdateEnd) /\ SF_vars(TickEnd)
  /\ WF_vars(cleanup)
-----------------------------------------------------------------------------
SlotsTypeOK ==
  /\ plugged \subseteq Names
  /\ state \in [Slots -> {"Disconnected", "Connecting", "Connected"}]
  /\ port \in [Slots -> Port]
  /\ has_serial \in [Slots -> BOOLEAN]

ScanTypeOK ==
  /\ spc \in {"idle", "present", "close", "free", "host", "copy", "open", "version",
              "enumerate", "ended"}
  /\ sx \in Slots
  /\ listed \subseteq Names
  /\ found \in Names \cup {NoName}

ThreadsTypeOK ==
  /\ upc \in {"loop", "tick", "call", "ended"}
  /\ ux \in Slots
  /\ mpc \in {"serving", "join", "cleanup", "close", "free", "done"}
  /\ mx \in Slots
  /\ running \in BOOLEAN

HistoryTypeOK == leaked \subseteq Names \cup {NoName} /\ stolen \in BOOLEAN

(* Slot numbers stay within the array of docks, and nothing else changes   *)
(* its kind of value.                                                      *)
TypeOK == SlotsTypeOK /\ ScanTypeOK /\ ThreadsTypeOK /\ HistoryTypeOK

Holds(x, n) == state[x] = "Connected" /\ port[x].name = n

(* No two slots are connected to one port: the lines of a dock go to one   *)
(* slot, whatever is plugged in and out during a scan.                     *)
OneSlotPerPort ==
  \A x, y \in Slots : state[x] = "Connected" /\ state[y] = "Connected"
                        => x = y \/ port[x].name # port[y].name

(* A slot that says it is connected has an open port, in every state the   *)
(* other thread can look at it.                                            *)
ConnectedOpen == \A x \in Slots : state[x] = "Connected" => port[x].status = "open"

(* No port is closed or freed twice, be it by the scan or by cleanup().    *)
ClosedOnce == \A x \in Slots : port[x].status # "corrupt"

(* What makes the three inductive: what set_port, disconnect and cleanup() *)
(* have done so far to the slot they are at.                               *)
Opening ==
  /\ \A x \in Slots : state[x] = "Connecting"
                       => spc \in {"copy", "open", "version"} /\ sx = x
  /\ spc \in {"copy", "open", "version"} =>
       /\ state[sx] = "Connecting"
       /\ \A y \in Slots : state[y] = "Connected" => port[y].name # found
  /\ spc \in {"open", "version"} => port[sx].name = found
  /\ spc = "version" => port[sx].status = "open"
  /\ spc = "open" => port[sx].status = "copied"

Closing ==
  /\ spc \in {"close", "free"} => state[sx] = "Disconnected"
  /\ spc = "close" => port[sx].status = "open"
  /\ spc = "free" => port[sx].status = "closed"

CleaningUp ==
  /\ mpc \in {"cleanup", "close", "free", "done"} => spc = "ended"
  /\ mpc \in {"close", "free"} => state[mx] = "Disconnected"
  /\ mpc = "close" => port[mx].status = "open"
  /\ mpc = "free" => port[mx].status = "closed"

IInv ==
  /\ TypeOK
  /\ OneSlotPerPort
  /\ ConnectedOpen
  /\ ClosedOnce
  /\ Opening
  /\ Closing
  /\ CleaningUp

(* A dock that stays plugged in and answers gets a slot, although docks    *)
(* that do not answer are tried in the same slot again and again, unless   *)
(* all slots are taken, the daemon stops, or a handle on the same port has *)
(* been lost.                                                              *)
DockConnects ==
  \A n \in Good :
    <>[](n \in plugged) =>
      []<>(\/ \E x \in Slots : Holds(x, n)
           \/ \A x \in Slots : state[x] = "Connected"
           \/ n \in leaked
           \/ mpc # "serving")

(* A dock that stays unplugged loses its slot.                             *)
DockDropped ==
  \A n \in Names :
    <>[](n \notin plugged) => <>[](\A x \in Slots : ~Holds(x, n))

(* Once asked to, the daemon stops, all slots disconnected.                *)
Stops == mpc = "join" ~> mpc = "done" /\ \A x \in Slots : state[x] = "Disconnected"

(* libserialport.h:507: a copy should be freed after use.                  *)
EveryCopyFreed == leaked = {}

(* libserialport.h:104: structures are freed after use, so that no call is *)
(* made, or still being made, with a port that has been.                   *)
NoUseAfterFree == upc = "call" => port[ux].status # "freed"
=============================================================================
