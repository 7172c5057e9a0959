-------------------------------- MODULE DeviceHub --------------------------------
(***************************************************************************)
(* The websocket hub of trigger/ws/hub.go.  A connection is handled by one *)
(* goroutine: it registers a device or a console, then reads: what a       *)
(* device sends goes to every console, a command of a console goes to the  *)
(* device it names.  The maps are guarded by a sync.RWMutex: its readers   *)
(* wait while a writer waits, and a broadcast holds it for reading while   *)
(* it writes to one console after the other.                               *)
(*                                                                         *)
(* Two goroutines that write to one connection at a time are a misuse of   *)
(* the websocket library, which finds it with an unguarded flag: one may   *)
(* panic, or both go on.  net/http recovers the panic; deferred calls run. *)
(***************************************************************************)
EXTENDS FiniteSets

CONSTANTS
  Devices,   \* ids of devices
  Conns,     \* connections
  None

ASSUME HubAssumption == None \notin Devices \cup Conns

VARIABLES
  devices,   \* devices: the connection of each device, or None
  clients,   \* clients: the connections of consoles
  conn,      \* the goroutine of each connection
  crossed    \* history: connections that met another one of their device

hubVars == <<devices, clients, conn, crossed>>

Idle == [at |-> "none", id |-> None, greeted |-> FALSE, holds |-> FALSE,
         left |-> {}, to |-> None]

HubInit ==
  /\ devices = [d \in Devices |-> None]
  /\ clients = {}
  /\ conn = [c \in Conns |-> Idle]
  /\ crossed = {}

Becomes(c, local) == conn' = [conn EXCEPT ![c] = local]

At(c, where) == conn[c].at = where
IsDevice(c) == conn[c].id # None
Registered(c) == conn[c].at \notin {"none", "registering", "gone"}

--------------------------------------------------------------------------------
(* The lock *)

Waiting == {c \in Conns : conn[c].at \in {"registering", "leaving"}}
CanLock == \A c \in Conns : ~conn[c].holds
CanRLock == Waiting = {}

--------------------------------------------------------------------------------
(* A connection comes and goes *)

(* A device without an id gets one of the time of day, so ids may collide. *)
Connect(c, id) ==
  /\ At(c, "none")
  /\ Becomes(c, [conn[c] EXCEPT !.at = "registering", !.id = id])
  /\ UNCHANGED <<devices, clients, crossed>>

(* A device replaces the connection of its id, which is not closed.        *)
Register(c) ==
  LET same == {o \in Conns : Registered(o) /\ conn[o].id = conn[c].id}
  IN /\ At(c, "registering") /\ CanLock
     /\ IF IsDevice(c)
        THEN /\ devices' = [devices EXCEPT ![conn[c].id] = c]
             /\ Becomes(c, [conn[c] EXCEPT !.at = "greeting"])
             /\ crossed' = IF same = {} THEN crossed ELSE crossed \cup same \cup {c}
             /\ UNCHANGED clients
        ELSE /\ clients' = clients \cup {c}
             /\ Becomes(c, [conn[c] EXCEPT !.at = "reading", !.greeted = TRUE])
             /\ UNCHANGED <<devices, crossed>>

(* The client closes, or sends what is not a message.                      *)
ReadFails(c) ==
  /\ At(c, "reading")
  /\ Becomes(c, [conn[c] EXCEPT !.at = "leaving"])
  /\ UNCHANGED <<devices, clients, crossed>>

Leave_Closes(c) ==
  /\ At(c, "leaving") /\ CanLock
  /\ Becomes(c, [conn[c] EXCEPT !.at = "gone"])
  /\ UNCHANGED <<devices, clients, crossed>>

(* The deferred call: the entry of the device goes, whoever holds it.      *)
Leave(c) ==
  /\ At(c, "leaving") /\ CanLock
  /\ IF IsDevice(c)
     THEN devices' = [devices EXCEPT ![conn[c].id] = None] /\ UNCHANGED clients
     ELSE clients' = clients \ {c} /\ UNCHANGED devices
  /\ Becomes(c, [conn[c] EXCEPT !.at = "gone"])
  /\ UNCHANGED crossed

--------------------------------------------------------------------------------
(* Writing *)

Writes(c, to) == Becomes(c, [conn[c] EXCEPT !.at = "writing", !.to = to])

(* A device is told that it is registered, before it is read.              *)
Greet(c) ==
  /\ At(c, "greeting")
  /\ Writes(c, c)
  /\ UNCHANGED <<devices, clients, crossed>>

(* broadcastConsole, for a message of a device.                            *)
Broadcast(c) ==
  /\ At(c, "reading") /\ IsDevice(c) /\ CanRLock
  /\ Becomes(c, [conn[c] EXCEPT !.at = "broadcasting", !.holds = TRUE, !.left = clients])
  /\ UNCHANGED <<devices, clients, crossed>>

WriteNext(c, console) ==
  /\ At(c, "broadcasting") /\ console \in conn[c].left
  /\ Becomes(c, [conn[c] EXCEPT !.at = "writing", !.to = console, !.left = @ \ {console}])
  /\ UNCHANGED <<devices, clients, crossed>>

EndBroadcast(c) ==
  /\ At(c, "broadcasting") /\ conn[c].left = {}
  /\ Becomes(c, [conn[c] EXCEPT !.at = "reading", !.holds = FALSE])
  /\ UNCHANGED <<devices, clients, crossed>>

SendToDevice_Unlists(c, d) ==
  /\ At(c, "reading") /\ ~IsDevice(c) /\ CanRLock /\ devices[d] # None
  /\ Writes(c, devices[d])
  /\ devices' = IF At(devices[d], "writing") THEN [devices EXCEPT ![d] = None] ELSE devices
  /\ UNCHANGED <<clients, crossed>>

(* SendToDevice, for a command of a console; a device offline is skipped.  *)
SendToDevice(c, d) ==
  /\ At(c, "reading") /\ ~IsDevice(c) /\ CanRLock /\ devices[d] # None
  /\ Writes(c, devices[d])
  /\ UNCHANGED <<devices, clients, crossed>>

(* A write ends when the peer took it or the connection broke; nobody      *)
(* looks at the error.                                                     *)
EndWrite(c) ==
  /\ At(c, "writing")
  /\ Becomes(c, [conn[c] EXCEPT !.at = IF conn[c].holds THEN "broadcasting" ELSE "reading",
                              !.greeted = TRUE, !.to = None])
  /\ UNCHANGED <<devices, clients, crossed>>

Collides(c) == \E o \in Conns \ {c} : At(o, "writing") /\ conn[o].to = conn[c].to

Panic_KeepsLock(c) ==
  /\ At(c, "writing") /\ Collides(c)
  /\ Becomes(c, [conn[c] EXCEPT !.at = IF conn[c].greeted THEN "leaving" ELSE "lost",
                              !.left = {}, !.to = None])
  /\ UNCHANGED <<devices, clients, crossed>>

(* The lock is given back and the connection leaves; but in the greeting   *)
(* nothing is deferred yet, and the entry stays without its goroutine.     *)
Panic(c) ==
  /\ At(c, "writing") /\ Collides(c)
  /\ Becomes(c, [conn[c] EXCEPT !.at = IF conn[c].greeted THEN "leaving" ELSE "lost",
                              !.holds = FALSE, !.left = {}, !.to = None])
  /\ UNCHANGED <<devices, clients, crossed>>

Works(c) ==
  \/ Register(c) \/ Leave(c) \/ Greet(c) \/ EndWrite(c) \/ EndBroadcast(c)
  \/ \E o \in Conns : WriteNext(c, o)

HubNext ==
  \E c \in Conns :
    \/ \E id \in Devices \cup {None} : Connect(c, id)
    \/ Works(c) \/ ReadFails(c) \/ Broadcast(c) \/ Panic(c)
    \/ \E d \in Devices : SendToDevice(c, d)

(* A goroutine that can go on does; a write ends at last: its peer takes   *)
(* it or breaks.  (There is no deadline on a write: of a peer that does    *)
(* neither, the hub waits.)                                                *)
HubSpec == HubInit /\ [][HubNext]_hubVars /\ \A c \in Conns : WF_hubVars(Works(c))

--------------------------------------------------------------------------------
(* Properties *)

Places == {"none", "registering", "greeting", "reading", "broadcasting", "writing",
           "leaving", "lost", "gone"}

Goroutines ==
  [at : Places, id : Devices \cup {None}, greeted : BOOLEAN, holds : BOOLEAN,
   left : SUBSET Conns, to : Conns \cup {None}]

HubTypeOK ==
  /\ devices \in [Devices -> Conns \cup {None}]
  /\ clients \subseteq Conns /\ crossed \subseteq Conns
  /\ conn \in [Conns -> Goroutines]
  /\ \A c \in Conns : conn[c].left \subseteq clients

(* Who is listed is served: a listed connection has its goroutine, which   *)
(* takes it off when it ends, whatever panics; only one whose greeting     *)
(* panicked is listed for ever.  Consoles a broadcast still has to write   *)
(* to do not go meanwhile.                                                 *)
ListedAreServed ==
  /\ HubTypeOK
  /\ \A c \in clients : Registered(c) /\ ~IsDevice(c)
  /\ \A d \in Devices : devices[d] # None =>
       Registered(devices[d]) /\ conn[devices[d]].id = d

(* A device that is connected is listed, and gets its commands, unless it  *)
(* met another connection of its id: that one replaced it, or its end took *)
(* the entry of the other away.                                            *)
ConnectedAreListed ==
  \A c \in Conns : Registered(c) /\ c \notin crossed =>
    IF IsDevice(c) THEN devices[conn[c].id] = c ELSE c \in clients

(* Who arrives is registered: neither broadcasts that follow each other    *)
(* nor a panic in one keep the lock from it.                               *)
ArrivalsAreServed ==
  \A c \in Conns : At(c, "registering") ~> Registered(c)
================================================================================
