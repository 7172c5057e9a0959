----------------------------- MODULE ManagerProofs -----------------------------
(* Proofs about the MCP manager: however requests race, the clients it     *)
(* maps are open and of their server, and only races leak one; and between *)
(* requests that follow one another calls reach their server, stored       *)
(* servers are kept and the registry is in step; for any servers, tools,   *)
(* requests and number of clients and restarts.                            *)
EXTENDS MCPManager, TLAPS

Places == {"idle", "next", "close", "init", "store", "snap", "list", "publish", "unregister",
           "forget", "register", "route", "send", "done"}

Locals == [at : Places, kind : {None, "boot", "install", "call"}, removes : SUBSET Servers,
           adds : SUBSET Servers, cfgs : [Servers -> ServerConfigs \cup {None}],
           refresh : BOOLEAN, server : Servers \cup {None}, client : ClientIds \cup {None},
           snap : SUBSET ClientIds, defs : SUBSET Defs, todo : SUBSET Defs,
           def : Defs \cup {None}, answered : Servers \cup {None}]

(* The manager's variables hold values of their types. *)
MapsTyped ==
  /\ repo \in [Servers -> ServerConfigs \cup {None}]
  /\ configs \in [Servers -> ServerConfigs \cup {None}]
  /\ clients \in [Servers -> ClientIds \cup {None}]
  /\ client \in [ClientIds -> Clients \cup {None}]
  /\ boots \in 0 .. MaxBoots

ToolsTyped ==
  /\ tools \subseteq Defs /\ registry \subseteq Defs \cup OwnTools
  /\ mcpNames \subseteq {d.name : d \in Defs}

(* A goroutine knows the configuration of each server it is to start, and  *)
(* has a client in its hand only between making and storing it.            *)
IsConsistent(l) ==
  /\ \A s \in l.adds : l.cfgs[s] # None
  /\ l.at \in {"close", "init", "store"} => l.server \in Servers /\ l.cfgs[l.server] # None
  /\ l.client # None <=> l.at = "store"

LocalsConsistent ==
  /\ op \in [Goroutines -> Locals]
  /\ \A o \in Goroutines : IsConsistent(op[o]) /\ \A c \in op[o].snap : client[c] # None

(* Clients in the map are made, open, and of their server. *)
MapsServe ==
  \A s \in Servers : clients[s] # None =>
    /\ client[clients[s]] # None /\ client[clients[s]].open
    /\ client[clients[s]].server = s /\ configs[s] # None

(* A client in a goroutine's hand is open, of the server at hand, and      *)
(* nobody else knows it.                                                   *)
HandsServe ==
  \A o \in Goroutines : At(o, "store") =>
    /\ client[op[o].client] # None /\ client[op[o].client].open
    /\ client[op[o].client].server = op[o].server
    /\ \A s \in Servers : clients[s] # op[o].client
    /\ \A p \in Goroutines : p # o => op[p].client # op[o].client

InStart(o) == op[o].at \in {"init", "store"}

(* Who starts a server nobody else is starting finds its place empty. *)
StartsAlone ==
  \A o \in Goroutines : InStart(o) /\ op[o].server \notin raced =>
    /\ clients[op[o].server] = None
    /\ \A p \in Goroutines : p # o /\ InStart(p) => op[p].server # op[o].server

(* Before the process starts there are no clients and no requests. *)
NothingBeforeBoot ==
  At(Main, "idle") =>
    /\ \A s \in Servers : clients[s] = None
    /\ \A o \in Goroutines : op[o].at \in {"idle", "done"}

ManagerInv ==
  /\ MapsTyped /\ ToolsTyped /\ LocalsConsistent
  /\ MapsServe /\ HandsServe /\ StartsAlone /\ NothingBeforeBoot
  /\ ClientsLeakByRacesOnly

--------------------------------------------------------------------------------
(* What a step does to the locals *)

USE DEF At

(* The first state of the specification satisfies the invariant. *)
LEMMA IdleTyped == Idle \in Locals /\ IsConsistent(Idle) /\ Idle.at = "idle" /\ Idle.snap = {}
BY ManagerAssumption DEF Idle, Locals, Places, Nothing, IsConsistent

LEMMA MainIsNoRequest == Main \in Goroutines /\ \A o \in Ops : o \in Goroutines /\ o # Main
BY ManagerAssumption DEF Goroutines

LEMMA ManagerInitially == Init => ManagerInv
<1> SUFFICES ASSUME Init PROVE ManagerInv
  OBVIOUS
<1>1. MapsTyped
  BY ManagerAssumption DEF Init, MapsTyped, Nothing
<1>2. ToolsTyped
  BY DEF Init, ToolsTyped
<1>3. \A o \in Goroutines : op[o] = Idle
  BY DEF Init
<1>4. LocalsConsistent
  BY <1>3, IdleTyped DEF Init, LocalsConsistent
<1>5. MapsServe /\ NothingBeforeBoot
  BY <1>3, IdleTyped DEF Init, MapsServe, NothingBeforeBoot, Nothing
<1>6. HandsServe /\ StartsAlone
  BY <1>3, IdleTyped DEF HandsServe, StartsAlone, InStart
<1>7. ClientsLeakByRacesOnly
  BY DEF Init, ClientsLeakByRacesOnly
<1>8. QED
  BY <1>1, <1>2, <1>4, <1>5, <1>6, <1>7 DEF ManagerInv

(* A step of o gives it a new local state and leaves the others alone. *)
LEMMA ManagerBecomes ==
  ASSUME op \in [Goroutines -> Locals], NEW o \in Goroutines, NEW local \in Locals,
         Becomes(o, local)
  PROVE  /\ op' \in [Goroutines -> Locals] /\ op'[o] = local
         /\ \A p \in Goroutines : p # o => op'[p] = op[p]
BY DEF Becomes

(* The clients are those there were, as open as they were. *)
SameClients ==
  \A c \in ClientIds :
    /\ client'[c] = None <=> client[c] = None
    /\ client[c] # None => client'[c].open = client[c].open /\ client'[c].server = client[c].server

(* A step that neither maps nor closes a client, nor takes one in hand,    *)
(* keeps the invariant.                                                    *)
LEMMA ManagerMoves ==
  ASSUME ManagerInv, NEW o \in Goroutines, NEW local \in Locals, Becomes(o, local),
         IsConsistent(local), \A c \in local.snap : client[c] # None,
         MapsTyped', ToolsTyped', SameClients, UNCHANGED <<clients, raced>>,
         \A s \in Servers : configs[s] # None => configs'[s] # None,
         ~At(Main, "idle"), op[o].at # "store", local.at \notin {"idle", "init", "store"}
  PROVE  ManagerInv'
<1>1. /\ op \in [Goroutines -> Locals] /\ op' \in [Goroutines -> Locals] /\ op'[o] = local
      /\ \A p \in Goroutines : p # o => op'[p] = op[p]
  BY ManagerBecomes DEF ManagerInv, LocalsConsistent
<1>2. \A p \in Goroutines : /\ op[p].client \in ClientIds \cup {None}
                            /\ op[p].snap \subseteq ClientIds
                            /\ local.snap \subseteq ClientIds
  BY <1>1 DEF Locals
<1>3. op[o].client = None /\ local.client = None
  BY <1>1 DEF ManagerInv, LocalsConsistent, IsConsistent
<1>4. clients \in [Servers -> ClientIds \cup {None}]
  BY DEF ManagerInv, MapsTyped
<1>5. LocalsConsistent'
  <2>1. \A p \in Goroutines : IsConsistent(op'[p])
    BY <1>1 DEF ManagerInv, LocalsConsistent
  <2>2. \A p \in Goroutines : \A c \in op'[p].snap : client'[c] # None
    BY <1>1, <1>2 DEF ManagerInv, LocalsConsistent, SameClients
  <2>3. QED
    BY <1>1, <2>1, <2>2 DEF LocalsConsistent
<1>6. MapsServe'
  BY <1>4 DEF ManagerInv, MapsServe, SameClients
<1>7. HandsServe'
  <2> SUFFICES ASSUME NEW p \in Goroutines, op'[p].at = "store"
               PROVE  /\ client'[op'[p].client] # None /\ client'[op'[p].client].open
                      /\ client'[op'[p].client].server = op'[p].server
                      /\ \A s \in Servers : clients'[s] # op'[p].client
                      /\ \A q \in Goroutines : q # p => op'[q].client # op'[p].client
    BY DEF HandsServe
  <2>1. p # o /\ op'[p] = op[p] /\ op[p].client \in ClientIds
    BY <1>1, <1>2 DEF ManagerInv, LocalsConsistent, IsConsistent
  <2>2. \A q \in Goroutines : op'[q].client = op[q].client
    BY <1>1, <1>3
  <2>3. QED
    BY <2>1, <2>2 DEF ManagerInv, HandsServe, SameClients
<1>8. StartsAlone'
  BY <1>1 DEF ManagerInv, StartsAlone, InStart
<1>9. NothingBeforeBoot'
  BY <1>1, MainIsNoRequest DEF NothingBeforeBoot
<1>10. ClientsLeakByRacesOnly'
  <2>1. InHand' = InHand /\ OnlineClients' = OnlineClients
    BY <1>1, <1>3 DEF InHand, OnlineClients
  <2>2. QED
    BY <2>1 DEF ManagerInv, ClientsLeakByRacesOnly, SameClients
<1>11. QED
  BY <1>5, <1>6, <1>7, <1>8, <1>9, <1>10 DEF ManagerInv

(* Nor does one that closes and drops a server's client, though it may go  *)
(* on to start another one.                                                *)
LEMMA ManagerDrops ==
  ASSUME ManagerInv, NEW o \in Goroutines, NEW local \in Locals, Becomes(o, local),
         NEW s \in Servers, Drop(s),
         IsConsistent(local), local.snap = op[o].snap,
         MapsTyped', ToolsTyped', raced \subseteq raced',
         \A t \in Servers : t # s /\ configs[t] # None => configs'[t] # None,
         ~At(Main, "idle"), ~InStart(o), local.at \notin {"idle", "store"},
         local.at = "init" /\ s \notin raced' => \A p \in Goroutines : InStart(p) => op[p].server # s,
         local.at = "init" => local.server = s
  PROVE  ManagerInv'
<1>1. /\ op \in [Goroutines -> Locals] /\ op' \in [Goroutines -> Locals] /\ op'[o] = local
      /\ \A p \in Goroutines : p # o => op'[p] = op[p]
  BY ManagerBecomes DEF ManagerInv, LocalsConsistent
<1>2. \A p \in Goroutines : op[p].client \in ClientIds \cup {None} /\ op[p].snap \subseteq ClientIds
  BY <1>1 DEF Locals
<1>3. op[o].client = None /\ local.client = None
  BY <1>1 DEF ManagerInv, LocalsConsistent, IsConsistent, InStart
<1>4. /\ clients \in [Servers -> ClientIds \cup {None}]
      /\ client \in [ClientIds -> Clients \cup {None}] /\ None \notin Clients \cup ClientIds
  BY ManagerAssumption DEF ManagerInv, MapsTyped
<1>5. clients'[s] = None /\ \A t \in Servers : t # s => clients'[t] = clients[t]
  BY <1>4 DEF Drop
<1>6. \A c \in ClientIds : /\ c # clients[s] => client'[c] = client[c]
                           /\ c = clients[s] => ~client'[c].open
                           /\ client'[c] = None <=> client[c] = None
                           /\ client[c] # None => client'[c].server = client[c].server
  <2>1. CASE clients[s] = None
    BY <1>4, <2>1 DEF Drop, Closed
  <2>2. CASE clients[s] # None
    <3>1. clients[s] \in ClientIds /\ client[clients[s]] \in Clients
      BY <1>4, <2>2 DEF ManagerInv, MapsServe
    <3>2. client' = [client EXCEPT ![clients[s]] = [client[clients[s]] EXCEPT !.open = FALSE]]
      BY <2>2 DEF Drop, Closed
    <3> DEFINE closed == [client[clients[s]] EXCEPT !.open = FALSE]
    <3>3. closed \in Clients /\ ~closed.open /\ closed.server = client[clients[s]].server
      BY <3>1 DEF Clients
    <3>4. client' = [client EXCEPT ![clients[s]] = closed]
      BY <3>2
    <3> HIDE DEF closed
    <3>5. client'[clients[s]] = closed /\ closed # None /\ client[clients[s]] # None
          /\ \A c \in ClientIds : c # clients[s] => client'[c] = client[c]
      BY <1>4, <3>1, <3>3, <3>4
    <3>6. QED
      BY <3>3, <3>5
  <2>3. QED
    BY <2>1, <2>2
<1>7. \A t \in Servers : t # s /\ clients[t] # None => clients[t] # clients[s]
  BY DEF ManagerInv, MapsServe
<1>8. LocalsConsistent'
  <2>1. \A p \in Goroutines : IsConsistent(op'[p])
    BY <1>1 DEF ManagerInv, LocalsConsistent
  <2>2. \A p \in Goroutines : \A c \in op'[p].snap : client'[c] # None
    BY <1>1, <1>2, <1>6 DEF ManagerInv, LocalsConsistent
  <2>3. QED
    BY <1>1, <2>1, <2>2 DEF LocalsConsistent
<1>9. MapsServe'
  BY <1>4, <1>5, <1>6, <1>7 DEF ManagerInv, MapsServe
<1>10. HandsServe'
  <2> SUFFICES ASSUME NEW p \in Goroutines, op'[p].at = "store"
               PROVE  /\ client'[op'[p].client] # None /\ client'[op'[p].client].open
                      /\ client'[op'[p].client].server = op'[p].server
                      /\ \A t \in Servers : clients'[t] # op'[p].client
                      /\ \A q \in Goroutines : q # p => op'[q].client # op'[p].client
    BY DEF HandsServe
  <2>1. p # o /\ op'[p] = op[p] /\ op[p].client \in ClientIds
    BY <1>1, <1>2 DEF ManagerInv, LocalsConsistent, IsConsistent
  <2>2. \A q \in Goroutines : op'[q].client = op[q].client
    BY <1>1, <1>3
  <2>3. /\ client[op[p].client] # None /\ client[op[p].client].open
        /\ client[op[p].client].server = op[p].server
        /\ \A t \in Servers : clients[t] # op[p].client
        /\ \A q \in Goroutines : q # p => op[q].client # op[p].client
    BY <2>1 DEF ManagerInv, HandsServe
  <2>4. client'[op[p].client] = client[op[p].client]
    BY <1>6, <2>1, <2>3
  <2>5. \A t \in Servers : clients'[t] # op[p].client
    BY <1>4, <1>5, <2>1, <2>3
  <2>6. QED
    BY <2>1, <2>2, <2>3, <2>4, <2>5
<1>11. StartsAlone'
  <2> SUFFICES ASSUME NEW p \in Goroutines, op'[p].at \in {"init", "store"},
                      op'[p].server \notin raced'
               PROVE  /\ clients'[op'[p].server] = None
                      /\ \A q \in Goroutines : q # p /\ op'[q].at \in {"init", "store"} =>
                           op'[q].server # op'[p].server
    BY DEF StartsAlone, InStart
  <2>1. CASE p = o
    BY <1>1, <1>5, <2>1 DEF InStart
  <2>2. CASE p # o
    <3>1. op'[p] = op[p] /\ InStart(p) /\ op[p].server \notin raced
      BY <1>1, <2>2 DEF InStart
    <3>2. op[p].server \in Servers
      BY <3>1 DEF ManagerInv, LocalsConsistent, IsConsistent, InStart
    <3>3. /\ clients[op[p].server] = None
          /\ \A q \in Goroutines : q # p /\ InStart(q) => op[q].server # op[p].server
      BY <3>1 DEF ManagerInv, StartsAlone
    <3>4. clients'[op[p].server] = None
      BY <1>5, <3>2, <3>3
    <3>5. ASSUME NEW q \in Goroutines, q # p, op'[q].at \in {"init", "store"}
          PROVE  op'[q].server # op'[p].server
      BY <1>1, <3>1, <3>3, <3>5 DEF InStart
    <3>6. QED
      BY <3>1, <3>4, <3>5
  <2>3. QED
    BY <2>1, <2>2
<1>12. NothingBeforeBoot'
  BY <1>1, MainIsNoRequest DEF NothingBeforeBoot
<1>13. ClientsLeakByRacesOnly'
  <2> SUFFICES ASSUME NEW c \in ClientIds, client'[c] # None, client'[c].open,
                      c \notin OnlineClients', c \notin InHand'
               PROVE  client'[c].server \in raced'
    BY DEF ClientsLeakByRacesOnly
  <2>1. InHand' = InHand
    BY <1>1, <1>3 DEF InHand
  <2>2. c # clients[s] /\ client'[c] = client[c]
    BY <1>6
  <2>3. c \notin OnlineClients
    BY <1>4, <1>5, <2>2 DEF OnlineClients
  <2>4. QED
    BY <2>1, <2>2, <2>3 DEF ManagerInv, ClientsLeakByRacesOnly
<1>14. QED
  BY <1>8, <1>9, <1>10, <1>11, <1>12, <1>13 DEF ManagerInv

--------------------------------------------------------------------------------
(* Making and storing a client *)

LEMMA LocalsTyped ==
  ASSUME ManagerInv, NEW o \in Goroutines
  PROVE  /\ op \in [Goroutines -> Locals] /\ op[o] \in Locals
         /\ IsConsistent(op[o]) /\ \A c \in op[o].snap : client[c] # None
BY DEF ManagerInv, LocalsConsistent

(* A new client is in one hand and not yet in the map. *)
LEMMA ManagerInitializes ==
  ASSUME ManagerInv, NEW o \in Goroutines, NEW c \in ClientIds, NEW warm \in BOOLEAN,
         InitializeOne(o, c, warm)
  PROVE  ManagerInv'
<1> DEFINE local == [op[o] EXCEPT !.at = "store", !.client = c]
           made == [server |-> op[o].server, open |-> TRUE, warm |-> warm,
                    offers |-> op[o].cfgs[op[o].server].offers]
<1>1. /\ op[o].at = "init" /\ client[c] = None /\ Becomes(o, local)
      /\ client' = [client EXCEPT ![c] = made]
      /\ UNCHANGED <<repo, configs, clients, tools, registry, mcpNames, boots, overlap, raced,
                     fault, shadowed>>
  BY DEF InitializeOne, ghostVars
<1>2. op \in [Goroutines -> Locals] /\ op[o] \in Locals /\ IsConsistent(op[o])
  BY LocalsTyped
<1>3. op[o].server \in Servers /\ op[o].cfgs[op[o].server] \in ServerConfigs
  BY <1>1, <1>2 DEF IsConsistent, Locals
<1>4. made \in Clients /\ made.open /\ made.server = op[o].server
  BY <1>3 DEF Clients, ServerConfigs
<1>5. /\ local \in Locals /\ local.at = "store" /\ local.client = c
      /\ local.server = op[o].server /\ local.snap = op[o].snap
      /\ local.adds = op[o].adds /\ local.cfgs = op[o].cfgs
  BY <1>2 DEF Locals, Places
<1> HIDE DEF local, made
<1>6. made # None /\ c # None /\ None \notin Servers
  BY <1>4, ManagerAssumption
<1>7. IsConsistent(local)
  BY <1>1, <1>2, <1>3, <1>5, <1>6 DEF IsConsistent
<1>8. /\ op' \in [Goroutines -> Locals] /\ op'[o] = local
      /\ \A p \in Goroutines : p # o => op'[p] = op[p]
  BY <1>1, <1>2, <1>5, ManagerBecomes
<1>9. /\ client \in [ClientIds -> Clients \cup {None}] /\ client'[c] = made
      /\ client' \in [ClientIds -> Clients \cup {None}]
      /\ \A d \in ClientIds : d # c => client'[d] = client[d]
  BY <1>1, <1>4 DEF ManagerInv, MapsTyped
<1>10. clients \in [Servers -> ClientIds \cup {None}] /\ \A s \in Servers : clients[s] # c
  <2>1. clients \in [Servers -> ClientIds \cup {None}]
    BY DEF ManagerInv, MapsTyped
  <2>2. \A s \in Servers : clients[s] # c
    BY <1>1, <1>6 DEF ManagerInv, MapsServe
  <2>3. QED
    BY <2>1, <2>2
<1>11. \A p \in Goroutines : /\ op[p].client \in ClientIds \cup {None}
                             /\ op[p].client # c /\ op[p].snap \subseteq ClientIds
                             /\ IsConsistent(op[p])
  <2> TAKE p \in Goroutines
  <2>1. op[p] \in Locals /\ IsConsistent(op[p])
    BY LocalsTyped
  <2>2. op[p].client \in ClientIds \cup {None} /\ op[p].snap \subseteq ClientIds
    BY <2>1 DEF Locals
  <2>3. op[p].client # c
    BY <1>1, <1>6, <2>1 DEF ManagerInv, HandsServe, IsConsistent
  <2>4. QED
    BY <2>1, <2>2, <2>3
<1>12. MapsTyped' /\ ToolsTyped'
  <2>1. ToolsTyped'
    BY <1>1 DEF ManagerInv, ToolsTyped
  <2>2. MapsTyped'
    BY <1>1, <1>9 DEF ManagerInv, MapsTyped
  <2>3. QED
    BY <2>1, <2>2
<1>13. LocalsConsistent'
  <2>1. \A p \in Goroutines : IsConsistent(op'[p])
    BY <1>7, <1>8, <1>11
  <2>2. \A p \in Goroutines : op'[p].snap = op[p].snap
    BY <1>5, <1>8
  <2>3. \A p \in Goroutines : \A d \in op[p].snap : client'[d] # None
    BY <1>6, <1>9, <1>11 DEF ManagerInv, LocalsConsistent
  <2>4. QED
    BY <1>8, <2>1, <2>2, <2>3 DEF LocalsConsistent
<1>14. MapsServe'
  BY <1>1, <1>9, <1>10 DEF ManagerInv, MapsServe
<1>15. HandsServe'
  <2> SUFFICES ASSUME NEW p \in Goroutines, op'[p].at = "store"
               PROVE  /\ client'[op'[p].client] # None /\ client'[op'[p].client].open
                      /\ client'[op'[p].client].server = op'[p].server
                      /\ \A s \in Servers : clients'[s] # op'[p].client
                      /\ \A q \in Goroutines : q # p => op'[q].client # op'[p].client
    BY DEF HandsServe
  <2>1. CASE p = o
    <3>1. op'[p].client = c /\ op'[p].server = op[o].server
      BY <1>5, <1>8, <2>1
    <3>2. \A q \in Goroutines : q # p => op'[q].client # c
      BY <1>8, <1>11, <2>1
    <3>3. QED
      BY <1>1, <1>4, <1>6, <1>9, <1>10, <3>1, <3>2
  <2>2. CASE p # o
    <3>1. op'[p] = op[p] /\ op[p].client \in ClientIds /\ op[p].client # c
      BY <1>8, <1>11, <2>2 DEF IsConsistent
    <3>2. \A q \in Goroutines : q # p => op'[q].client # op[p].client
      BY <1>5, <1>8, <1>11, <3>1 DEF ManagerInv, HandsServe
    <3>3. QED
      BY <1>1, <1>9, <3>1, <3>2 DEF ManagerInv, HandsServe
  <2>3. QED
    BY <2>1, <2>2
<1>16. StartsAlone'
  <2>1. \A p \in Goroutines : /\ InStart(p)' <=> InStart(p)
                              /\ op'[p].server = op[p].server
    BY <1>1, <1>5, <1>8 DEF InStart
  <2>2. QED
    BY <1>1, <2>1 DEF ManagerInv, StartsAlone
<1>17. NothingBeforeBoot'
  BY <1>1, <1>5, <1>8, MainIsNoRequest DEF ManagerInv, NothingBeforeBoot
<1>18. ClientsLeakByRacesOnly'
  <2> SUFFICES ASSUME NEW d \in ClientIds, client'[d] # None, client'[d].open,
                      d \notin OnlineClients', d \notin InHand'
               PROVE  client'[d].server \in raced'
    BY DEF ClientsLeakByRacesOnly
  <2>1. d # c
    BY <1>5, <1>8 DEF InHand
  <2>2. d \notin InHand
    <3> SUFFICES ASSUME NEW p \in Goroutines, d = op[p].client PROVE FALSE
      BY DEF InHand
    <3>1. CASE p = o
      BY <1>1, <1>2, <3>1, ManagerAssumption DEF IsConsistent
    <3>2. CASE p # o
      BY <1>8, <3>2 DEF InHand
    <3>3. QED
      BY <3>1, <3>2
  <2>3. QED
    BY <1>1, <1>9, <2>1, <2>2 DEF ManagerInv, ClientsLeakByRacesOnly, OnlineClients
<1>19. QED
  BY <1>12, <1>13, <1>14, <1>15, <1>16, <1>17, <1>18 DEF ManagerInv

(* A client that is stored takes the place of none, unless starts raced. *)
LEMMA ManagerStores ==
  ASSUME ManagerInv, NEW o \in Goroutines, Store(o)
  PROVE  ManagerInv'
<1> DEFINE local == [op[o] EXCEPT !.at = "next", !.server = None, !.client = None]
           c == op[o].client
           s == op[o].server
<1>1. /\ op[o].at = "store" /\ Becomes(o, local)
      /\ clients' = [clients EXCEPT ![s] = c]
      /\ configs' = [configs EXCEPT ![s] = op[o].cfgs[s]]
      /\ UNCHANGED <<repo, client, tools, registry, mcpNames, boots, overlap, raced, fault, shadowed>>
  BY DEF Store, ghostVars
<1>2. op \in [Goroutines -> Locals] /\ op[o] \in Locals /\ IsConsistent(op[o])
  BY LocalsTyped
<1>3. /\ s \in Servers /\ op[o].cfgs[s] \in ServerConfigs /\ op[o].cfgs[s] # None
      /\ c \in ClientIds /\ c # None
  BY <1>1, <1>2 DEF IsConsistent, Locals
<1>4. /\ local \in Locals /\ local.at = "next" /\ local.client = None
      /\ local.snap = op[o].snap /\ local.adds = op[o].adds /\ local.cfgs = op[o].cfgs
  BY <1>2 DEF Locals, Places
<1>5. /\ client[c] # None /\ client[c].open /\ client[c].server = s
      /\ \A t \in Servers : clients[t] # c
      /\ \A p \in Goroutines : p # o => op[p].client # c
  BY <1>1 DEF ManagerInv, HandsServe
<1> HIDE DEF local, c, s
<1>6. IsConsistent(local)
  BY <1>2, <1>4 DEF IsConsistent
<1>7. /\ op' \in [Goroutines -> Locals] /\ op'[o] = local
      /\ \A p \in Goroutines : p # o => op'[p] = op[p]
  BY <1>1, <1>2, <1>4, ManagerBecomes
<1>8. /\ clients \in [Servers -> ClientIds \cup {None}] /\ clients'[s] = c
      /\ clients' \in [Servers -> ClientIds \cup {None}]
      /\ \A t \in Servers : t # s => clients'[t] = clients[t]
  BY <1>1, <1>3 DEF ManagerInv, MapsTyped
<1>9. /\ configs' \in [Servers -> ServerConfigs \cup {None}] /\ configs'[s] # None
      /\ \A t \in Servers : t # s => configs'[t] = configs[t]
  BY <1>1, <1>3 DEF ManagerInv, MapsTyped
<1>10. MapsTyped' /\ ToolsTyped'
  <2>1. ToolsTyped'
    BY <1>1 DEF ManagerInv, ToolsTyped
  <2>2. MapsTyped'
    BY <1>1, <1>8, <1>9 DEF ManagerInv, MapsTyped
  <2>3. QED
    BY <2>1, <2>2
<1>11. LocalsConsistent'
  BY <1>1, <1>4, <1>6, <1>7 DEF ManagerInv, LocalsConsistent
<1>12. MapsServe'
  BY <1>1, <1>5, <1>8, <1>9 DEF ManagerInv, MapsServe
<1>13. HandsServe'
  <2> SUFFICES ASSUME NEW p \in Goroutines, op'[p].at = "store"
               PROVE  /\ client'[op'[p].client] # None /\ client'[op'[p].client].open
                      /\ client'[op'[p].client].server = op'[p].server
                      /\ \A t \in Servers : clients'[t] # op'[p].client
                      /\ \A q \in Goroutines : q # p => op'[q].client # op'[p].client
    BY DEF HandsServe
  <2>1. p # o /\ op'[p] = op[p] /\ op[p].client # None
    BY <1>4, <1>7, LocalsTyped DEF IsConsistent
  <2>2. /\ client[op[p].client] # None /\ client[op[p].client].open
        /\ client[op[p].client].server = op[p].server
        /\ \A t \in Servers : clients[t] # op[p].client
        /\ \A q \in Goroutines : q # p => op[q].client # op[p].client
    BY <2>1 DEF ManagerInv, HandsServe
  <2>3. \A t \in Servers : clients'[t] # op[p].client
    BY <1>5, <1>8, <2>1, <2>2
  <2>4. \A q \in Goroutines : q # p => op'[q].client # op[p].client
    BY <1>4, <1>7, <2>1, <2>2
  <2>5. QED
    BY <1>1, <2>1, <2>2, <2>3, <2>4
<1>14. StartsAlone'
  <2> SUFFICES ASSUME NEW p \in Goroutines, op'[p].at \in {"init", "store"},
                      op'[p].server \notin raced'
               PROVE  /\ clients'[op'[p].server] = None
                      /\ \A q \in Goroutines : q # p /\ op'[q].at \in {"init", "store"} =>
                           op'[q].server # op'[p].server
    BY DEF StartsAlone, InStart
  <2>1. p # o /\ op'[p] = op[p] /\ InStart(p) /\ InStart(o) /\ op[p].server \notin raced
    BY <1>1, <1>4, <1>7 DEF InStart
  <2>2. /\ clients[op[p].server] = None
        /\ \A q \in Goroutines : q # p /\ InStart(q) => op[q].server # op[p].server
    BY <2>1 DEF ManagerInv, StartsAlone
  <2>3. op[p].server # s /\ op[p].server \in Servers
    BY <2>1, <2>2, LocalsTyped DEF s, IsConsistent, InStart
  <2>4. clients'[op[p].server] = None
    BY <1>8, <2>2, <2>3
  <2>5. ASSUME NEW q \in Goroutines, q # p, op'[q].at \in {"init", "store"}
        PROVE  op'[q].server # op[p].server
    BY <1>4, <1>7, <2>2, <2>5 DEF InStart
  <2>6. QED
    BY <2>1, <2>4, <2>5
<1>15. NothingBeforeBoot'
  BY <1>1, <1>4, <1>7, MainIsNoRequest DEF ManagerInv, NothingBeforeBoot
<1>16. ClientsLeakByRacesOnly'
  <2> SUFFICES ASSUME NEW d \in ClientIds, client[d] # None, client[d].open,
                      d \notin OnlineClients', d \notin InHand'
               PROVE  client[d].server \in raced
    BY <1>1 DEF ClientsLeakByRacesOnly
  <2>1. d # c /\ d # None
    BY <1>3, <1>8, ManagerAssumption DEF OnlineClients
  <2>2. d \notin InHand
    BY <1>7, <2>1 DEF InHand, c
  <2>3. CASE d = clients[s]
    BY <1>1, <1>3, <2>1, <2>3 DEF ManagerInv, MapsServe, StartsAlone, InStart, s
  <2>4. CASE d # clients[s]
    <3>1. d \notin OnlineClients
      BY <1>3, <1>8, <2>1, <2>4 DEF OnlineClients
    <3>2. QED
      BY <2>2, <3>1 DEF ManagerInv, ClientsLeakByRacesOnly
  <2>5. QED
    BY <2>3, <2>4
<1>17. QED
  BY <1>10, <1>11, <1>12, <1>13, <1>14, <1>15, <1>16 DEF ManagerInv

--------------------------------------------------------------------------------
(* The start of the process, and its end *)

LEMMA MergedTyped ==
  ASSUME ManagerInv, NEW listed \in BOOLEAN
  PROVE  [s \in Servers |-> Merged(s, listed)] \in [Servers -> ServerConfigs \cup {None}]
BY ManagerAssumption DEF ManagerInv, MapsTyped, Merged, Enabled

LEMMA ManagerBoots ==
  ASSUME ManagerInv,
         NEW listed \in BOOLEAN, NEW read \in SUBSET DOMAIN Yaml, NEW saved \in SUBSET DOMAIN Yaml,
         Boot(listed, read, saved)
  PROVE  ManagerInv'
<1> DEFINE merged == [s \in Servers |-> Merged(s, listed)]
           starts == {s \in Servers : Enabled(merged[s])}
           local == [Idle EXCEPT !.at = "next", !.kind = "boot", !.cfgs = merged,
                                 !.adds = starts, !.refresh = TRUE]
<1>1. /\ op[Main].at = "idle" /\ boots < MaxBoots /\ configs' = merged /\ Becomes(Main, local)
      /\ repo' = [s \in Servers |->
                    IF s \in saved /\ (s \in read => repo[s] = None) THEN Yaml[s] ELSE repo[s]]
      /\ boots' = boots + 1
      /\ UNCHANGED <<clients, client, tools, registry, mcpNames, overlap, raced, fault, shadowed>>
  BY DEF Boot, ghostVars
<1>2. merged \in [Servers -> ServerConfigs \cup {None}] /\ starts \subseteq Servers
  BY MergedTyped
<1>3. \A s \in starts : merged[s] # None
  BY DEF Enabled
<1> HIDE DEF merged, starts
<1>4. /\ local \in Locals /\ local.at = "next" /\ local.client = None /\ local.snap = {}
      /\ local.adds = starts /\ local.cfgs = merged
  BY <1>2 DEF Idle, Locals, Places, Nothing
<1> HIDE DEF local
<1>5. IsConsistent(local)
  BY <1>3, <1>4 DEF IsConsistent
<1>6. /\ op' \in [Goroutines -> Locals] /\ op'[Main] = local
      /\ \A p \in Goroutines : p # Main => op'[p] = op[p]
  BY <1>1, <1>4, LocalsTyped, MainIsNoRequest, ManagerBecomes
<1>7. /\ \A s \in Servers : clients[s] = None
      /\ \A o \in Goroutines : op[o].at \in {"idle", "done"}
  BY <1>1 DEF ManagerInv, NothingBeforeBoot
<1>8. \A o \in Goroutines : op'[o].at \in {"idle", "done", "next"} /\ op'[o].client = op[o].client
  <2> TAKE o \in Goroutines
  <2>1. CASE o = Main
    BY <1>1, <1>4, <1>6, <2>1, MainIsNoRequest, LocalsTyped DEF IsConsistent
  <2>2. CASE o # Main
    BY <1>6, <1>7, <2>2
  <2>3. QED
    BY <2>1, <2>2
<1>9. MapsTyped'
  <2>1. repo' \in [Servers -> ServerConfigs \cup {None}]
    BY <1>1, ManagerAssumption DEF ManagerInv, MapsTyped
  <2>2. boots' \in 0 .. MaxBoots
    BY <1>1, ManagerAssumption DEF ManagerInv, MapsTyped
  <2>3. QED
    BY <1>1, <1>2, <2>1, <2>2 DEF ManagerInv, MapsTyped
<1>10. ToolsTyped'
  BY <1>1 DEF ManagerInv, ToolsTyped
<1>11. LocalsConsistent'
  BY <1>1, <1>4, <1>5, <1>6 DEF ManagerInv, LocalsConsistent
<1>12. MapsServe' /\ HandsServe' /\ StartsAlone'
  BY <1>1, <1>7, <1>8 DEF MapsServe, HandsServe, StartsAlone, InStart
<1>13. NothingBeforeBoot'
  BY <1>4, <1>6 DEF NothingBeforeBoot
<1>14. ClientsLeakByRacesOnly'
  <2>1. InHand' = InHand /\ OnlineClients' = OnlineClients
    BY <1>1, <1>8 DEF InHand, OnlineClients
  <2>2. QED
    BY <1>1, <2>1 DEF ManagerInv, ClientsLeakByRacesOnly
<1>15. QED
  BY <1>9, <1>10, <1>11, <1>12, <1>13, <1>14 DEF ManagerInv

LEMMA ManagerDies ==
  ASSUME ManagerInv, Die
  PROVE  ManagerInv'
<1> DEFINE over == [Idle EXCEPT !.at = "done"]
<1>1. /\ over \in Locals /\ over.at = "done" /\ over.client = None /\ over.snap = {}
      /\ over.adds = {}
  BY DEF Idle, Locals, Places, Nothing
<1>2. /\ configs' = Nothing /\ clients' = Nothing /\ client' = [c \in ClientIds |-> None]
      /\ tools' = {} /\ registry' = OwnTools /\ mcpNames' = {}
      /\ op' = [o \in Goroutines |-> IF o = Main \/ op[o].at = "idle" THEN Idle ELSE over]
      /\ UNCHANGED <<repo, boots>>
  BY DEF Die
<1> HIDE DEF over
<1>3. IsConsistent(over)
  BY <1>1 DEF IsConsistent
<1>4. /\ op' \in [Goroutines -> Locals]
      /\ \A o \in Goroutines : op'[o] = Idle \/ op'[o] = over
  BY <1>1, <1>2, IdleTyped
<1>5. \A o \in Goroutines : /\ IsConsistent(op'[o]) /\ op'[o].at \in {"idle", "done"}
                            /\ op'[o].snap = {}
  BY <1>1, <1>3, <1>4, IdleTyped
<1>6. MapsTyped' /\ ToolsTyped'
  <2>1. Nothing \in [Servers -> ServerConfigs \cup {None}]
        /\ Nothing \in [Servers -> ClientIds \cup {None}]
    BY DEF Nothing
  <2>2. QED
    BY <1>2, <2>1 DEF ManagerInv, MapsTyped, ToolsTyped
<1>7. LocalsConsistent'
  BY <1>4, <1>5 DEF LocalsConsistent
<1>8. MapsServe' /\ HandsServe' /\ StartsAlone' /\ NothingBeforeBoot'
  BY <1>2, <1>5 DEF MapsServe, HandsServe, StartsAlone, NothingBeforeBoot, InStart, Nothing
<1>9. ClientsLeakByRacesOnly'
  BY <1>2 DEF ClientsLeakByRacesOnly
<1>10. QED
  BY <1>6, <1>7, <1>8, <1>9 DEF ManagerInv

--------------------------------------------------------------------------------
(* Steps that leave the manager's maps alone *)

LEMMA ManagerSteps ==
  ASSUME ManagerInv, NEW o \in Goroutines, NEW local \in Locals, Becomes(o, local),
         IsConsistent(local), \A c \in local.snap : client[c] # None,
         UNCHANGED <<configs, clients, client, boots, raced>>,
         repo' \in [Servers -> ServerConfigs \cup {None}], ToolsTyped',
         ~At(Main, "idle"), op[o].at # "store", local.at \notin {"idle", "init", "store"}
  PROVE  ManagerInv'
<1>1. MapsTyped' /\ SameClients
  BY DEF ManagerInv, MapsTyped, SameClients
<1>2. QED
  BY <1>1, ManagerMoves

(* Who works is past the start of the process. *)
LEMMA WorkIsAfterBoot ==
  ASSUME ManagerInv, NEW o \in Goroutines, op[o].at \notin {"idle", "done"}
  PROVE  ~At(Main, "idle")
BY DEF ManagerInv, NothingBeforeBoot

LEMMA ToolsStay ==
  ASSUME ManagerInv, UNCHANGED <<tools, registry, mcpNames>>
  PROVE  ToolsTyped'
BY DEF ManagerInv, ToolsTyped

LEMMA RepoStays ==
  ASSUME ManagerInv, repo' = repo
  PROVE  repo' \in [Servers -> ServerConfigs \cup {None}]
BY DEF ManagerInv, MapsTyped

LEMMA OverTyped ==
  /\ Over \in Locals /\ IsConsistent(Over)
  /\ Over.at = "done" /\ Over.snap = {} /\ Over.adds = {} /\ Over.client = None
<1>1. /\ Over \in Locals /\ Over.at = "done" /\ Over.snap = {} /\ Over.adds = {}
      /\ Over.client = None
  BY DEF Over, Idle, Locals, Places, Nothing
<1>2. QED
  BY <1>1 DEF IsConsistent

LEMMA ManagerRequests ==
  ASSUME ManagerInv, NEW o \in Ops, Request(o)
  PROVE  ManagerInv'
<1>1. o \in Goroutines /\ Main \in Goroutines /\ op \in [Goroutines -> Locals]
  BY MainIsNoRequest, LocalsTyped
<1>2. repo \in [Servers -> ServerConfigs \cup {None}]
  BY DEF ManagerInv, MapsTyped
<1>3. op[o].at = "idle" /\ ~At(Main, "idle")
  BY DEF Request, InstallCustom, Delete, Reload, Refuse, ListTools, Call, Arrives
<1>4. /\ UNCHANGED <<configs, clients, client, tools, registry, mcpNames, boots, raced>>
      /\ ToolsTyped'
  <2>1. UNCHANGED <<managerVars, boots, raced>>
    BY DEF Request, InstallCustom, Delete, Reload, Refuse, ListTools, Call
  <2>2. QED
    BY <2>1, ToolsStay DEF managerVars
<1>5. ASSUME NEW s \in Servers, NEW cfg \in Configs, InstallCustom(o, s, cfg)
      PROVE  ManagerInv'
  <2> DEFINE cfgs == [Nothing EXCEPT ![s] = cfg]
             local == [Idle EXCEPT !.at = "next", !.kind = "install", !.adds = {s},
                                   !.cfgs = cfgs, !.refresh = TRUE]
  <2>1. Becomes(o, local) /\ repo' = [repo EXCEPT ![s] = cfg]
    BY <1>5 DEF InstallCustom
  <2>2. cfg \in ServerConfigs /\ cfg # None
    BY ManagerAssumption
  <2>3. cfgs \in [Servers -> ServerConfigs \cup {None}] /\ cfgs[s] = cfg
    BY <2>2 DEF Nothing
  <2> HIDE DEF cfgs
  <2>4. /\ local \in Locals /\ local.at = "next" /\ local.client = None /\ local.snap = {}
        /\ local.adds = {s} /\ local.cfgs = cfgs
    BY <2>3 DEF Idle, Locals, Places, Nothing
  <2> HIDE DEF local
  <2>5. IsConsistent(local)
    BY <2>2, <2>3, <2>4 DEF IsConsistent
  <2>6. repo' \in [Servers -> ServerConfigs \cup {None}]
    BY <1>2, <2>1, <2>2
  <2>7. QED
    BY <1>1, <1>3, <1>4, <2>1, <2>4, <2>5, <2>6, ManagerSteps
<1>6. ASSUME NEW s \in Servers, NEW deleted \in BOOLEAN, Delete(o, s, deleted)
      PROVE  ManagerInv'
  <2> DEFINE local == [Idle EXCEPT !.at = "next", !.removes = {s}]
  <2>1. Becomes(o, local) /\ (repo' = [repo EXCEPT ![s] = None] \/ repo' = repo)
    BY <1>6 DEF Delete
  <2>2. /\ local \in Locals /\ local.at = "next" /\ local.client = None /\ local.snap = {}
        /\ local.adds = {}
    BY DEF Idle, Locals, Places, Nothing
  <2> HIDE DEF local
  <2>3. IsConsistent(local)
    BY <2>2 DEF IsConsistent
  <2>4. repo' \in [Servers -> ServerConfigs \cup {None}]
    BY <1>2, <2>1
  <2>5. QED
    BY <1>1, <1>3, <1>4, <2>1, <2>2, <2>3, <2>4, ManagerSteps
<1>7. ASSUME Reload(o)
      PROVE  ManagerInv'
  <2> DEFINE wanted == {s \in Servers : Enabled(repo[s])}
             gone == {s \in Servers : clients[s] # None} \ wanted
             local == [Idle EXCEPT !.at = "next", !.adds = wanted, !.cfgs = repo,
                                   !.removes = gone, !.refresh = TRUE]
  <2>1. Becomes(o, local) /\ repo' = repo
    BY <1>7 DEF Reload
  <2>2. wanted \subseteq Servers /\ gone \subseteq Servers /\ \A s \in wanted : repo[s] # None
    BY DEF Enabled
  <2> HIDE DEF wanted, gone
  <2>3. /\ local \in Locals /\ local.at = "next" /\ local.client = None /\ local.snap = {}
        /\ local.adds = wanted /\ local.cfgs = repo
    BY <1>2, <2>2 DEF Idle, Locals, Places, Nothing
  <2> HIDE DEF local
  <2>4. IsConsistent(local)
    BY <2>2, <2>3 DEF IsConsistent
  <2>5. QED
    BY <1>1, <1>2, <1>3, <1>4, <2>1, <2>3, <2>4, ManagerSteps
<1>8. ASSUME ListTools(o)
      PROVE  ManagerInv'
  <2> DEFINE local == [Idle EXCEPT !.at = "snap"]
  <2>1. Becomes(o, local) /\ repo' = repo
    BY <1>8 DEF ListTools
  <2>2. /\ local \in Locals /\ local.at = "snap" /\ local.client = None /\ local.snap = {}
        /\ local.adds = {}
    BY DEF Idle, Locals, Places, Nothing
  <2> HIDE DEF local
  <2>3. IsConsistent(local)
    BY <2>2 DEF IsConsistent
  <2>4. QED
    BY <1>1, <1>2, <1>3, <1>4, <2>1, <2>2, <2>3, ManagerSteps
<1>9. ASSUME Call(o)
      PROVE  ManagerInv'
  <2>1. PICK d \in registry \ OwnTools :
          Becomes(o, [Idle EXCEPT !.at = "route", !.kind = "call", !.def = d])
    BY <1>9 DEF Call
  <2> DEFINE local == [Idle EXCEPT !.at = "route", !.kind = "call", !.def = d]
  <2>2. d \in Defs /\ repo' = repo
    BY <1>9 DEF Call, ManagerInv, ToolsTyped
  <2>3. /\ local \in Locals /\ local.at = "route" /\ local.client = None /\ local.snap = {}
        /\ local.adds = {}
    BY <2>2 DEF Idle, Locals, Places, Nothing
  <2>4. Becomes(o, local)
    BY <2>1
  <2> HIDE DEF local
  <2>5. IsConsistent(local)
    BY <2>3 DEF IsConsistent
  <2>6. QED
    BY <1>1, <1>2, <1>3, <1>4, <2>2, <2>3, <2>4, <2>5, ManagerSteps
<1>10. ASSUME Refuse(o)
       PROVE  ManagerInv'
  <2>1. Becomes(o, Over) /\ repo' = repo
    BY <1>10 DEF Refuse
  <2>2. QED
    BY <1>1, <1>2, <1>3, <1>4, <2>1, OverTyped, ManagerSteps
<1>11. QED
  BY <1>5, <1>6, <1>7, <1>8, <1>9, <1>10 DEF Request

--------------------------------------------------------------------------------
(* Starting and removing servers *)

LEMMA ClosedTyped ==
  ASSUME ManagerInv, NEW s \in Servers
  PROVE  Closed(clients[s]) \in [ClientIds -> Clients \cup {None}]
<1>1. client \in [ClientIds -> Clients \cup {None}]
  BY DEF ManagerInv, MapsTyped
<1>2. CASE clients[s] = None
  BY <1>1, <1>2 DEF Closed
<1>3. CASE clients[s] # None
  <2>1. clients[s] \in ClientIds /\ client[clients[s]] \in Clients
    BY <1>1, <1>3 DEF ManagerInv, MapsTyped, MapsServe
  <2> DEFINE closed == [client[clients[s]] EXCEPT !.open = FALSE]
  <2>2. closed \in Clients /\ Closed(clients[s]) = [client EXCEPT ![clients[s]] = closed]
    BY <1>3, <2>1 DEF Clients, Closed
  <2> HIDE DEF closed
  <2>3. QED
    BY <1>1, <2>1, <2>2
<1>4. QED
  BY <1>2, <1>3

LEMMA ManagerRemoves ==
  ASSUME ManagerInv, NEW o \in Goroutines, Remove(o)
  PROVE  ManagerInv'
<1>1. PICK s \in op[o].removes :
        /\ Drop(s) /\ configs' = [configs EXCEPT ![s] = None]
        /\ Becomes(o, [op[o] EXCEPT !.at = "snap", !.removes = @ \ {s}])
  BY DEF Remove
<1> DEFINE local == [op[o] EXCEPT !.at = "snap", !.removes = @ \ {s}]
<1>2. op[o] \in Locals /\ IsConsistent(op[o]) /\ op[o].at = "next"
  BY LocalsTyped DEF Remove
<1>3. /\ local \in Locals /\ local.at = "snap" /\ local.client = op[o].client
      /\ local.snap = op[o].snap /\ local.adds = op[o].adds /\ local.cfgs = op[o].cfgs
  BY <1>2 DEF Locals, Places
<1>4. Becomes(o, local)
  BY <1>1
<1>5. s \in Servers
  BY <1>2 DEF Locals
<1> HIDE DEF local
<1>6. IsConsistent(local)
  BY <1>2, <1>3 DEF IsConsistent
<1>7. UNCHANGED <<repo, tools, registry, mcpNames, boots, raced>>
  BY DEF Remove, ghostVars
<1>8. /\ configs' \in [Servers -> ServerConfigs \cup {None}]
      /\ \A t \in Servers : t # s => configs'[t] = configs[t]
  BY <1>1, <1>5 DEF ManagerInv, MapsTyped
<1>9. MapsTyped' /\ ToolsTyped'
  <2>1. ToolsTyped'
    BY <1>7, ToolsStay
  <2>2. clients' \in [Servers -> ClientIds \cup {None}]
    BY <1>1 DEF Drop, ManagerInv, MapsTyped
  <2>3. client' \in [ClientIds -> Clients \cup {None}]
    BY <1>1, <1>5, ClosedTyped DEF Drop
  <2>4. QED
    BY <1>7, <1>8, <2>1, <2>2, <2>3 DEF ManagerInv, MapsTyped
<1>10. ~At(Main, "idle") /\ ~InStart(o)
  BY <1>2, WorkIsAfterBoot DEF InStart
<1>11. QED
  BY <1>1, <1>3, <1>4, <1>5, <1>6, <1>7, <1>8, <1>9, <1>10, ManagerDrops

LEMMA ManagerCloses ==
  ASSUME ManagerInv, NEW o \in Goroutines, CloseOld(o)
  PROVE  ManagerInv'
<1> DEFINE local == [op[o] EXCEPT !.at = "init"]
           s == op[o].server
<1>1. /\ op[o].at = "close" /\ Drop(s) /\ Becomes(o, local)
      /\ raced' = IF Starting(s) # {} THEN raced \cup {s} ELSE raced
      /\ UNCHANGED <<repo, configs, tools, registry, mcpNames, boots>>
  BY DEF CloseOld
<1>2. op[o] \in Locals /\ IsConsistent(op[o])
  BY LocalsTyped
<1>3. /\ local \in Locals /\ local.at = "init" /\ local.client = op[o].client
      /\ local.snap = op[o].snap /\ local.adds = op[o].adds /\ local.cfgs = op[o].cfgs
      /\ local.server = s
  BY <1>2 DEF Locals, Places
<1>4. s \in Servers /\ op[o].cfgs[s] # None
  BY <1>1, <1>2 DEF IsConsistent
<1> HIDE DEF local
<1>5. IsConsistent(local)
  BY <1>1, <1>2, <1>3, <1>4 DEF IsConsistent
<1>6. raced \subseteq raced' /\ (s \notin raced' => \A p \in Goroutines : InStart(p) => op[p].server # s)
  BY <1>1 DEF Starting, InStart
<1>7. MapsTyped' /\ ToolsTyped'
  <2>1. ToolsTyped'
    BY <1>1, ToolsStay
  <2>2. clients' \in [Servers -> ClientIds \cup {None}]
    BY <1>1 DEF Drop, ManagerInv, MapsTyped
  <2>3. client' \in [ClientIds -> Clients \cup {None}]
    BY <1>1, <1>4, ClosedTyped DEF Drop
  <2>4. QED
    BY <1>1, <2>1, <2>2, <2>3 DEF ManagerInv, MapsTyped
<1>8. ~At(Main, "idle") /\ ~InStart(o)
  BY <1>1, WorkIsAfterBoot DEF InStart
<1> HIDE DEF s
<1>9. \A t \in Servers : t # s /\ configs[t] # None => configs'[t] # None
  BY <1>1
<1>10. QED
  BY <1>1, <1>3, <1>4, <1>5, <1>6, <1>7, <1>8, <1>9, ManagerDrops

LEMMA ManagerConfigures ==
  ASSUME ManagerInv, NEW o \in Goroutines, Configure(o)
  PROVE  ManagerInv'
<1>1. PICK s \in op[o].adds :
        /\ configs' = [configs EXCEPT ![s] = op[o].cfgs[s]]
        /\ Becomes(o, IF op[o].cfgs[s].on
                      THEN [op[o] EXCEPT !.at = "close", !.adds = @ \ {s}, !.server = s]
                      ELSE [op[o] EXCEPT !.adds = {}, !.removes = {s}, !.refresh = FALSE])
  BY DEF Configure
<1> DEFINE starts == [op[o] EXCEPT !.at = "close", !.adds = @ \ {s}, !.server = s]
           drops == [op[o] EXCEPT !.adds = {}, !.removes = {s}, !.refresh = FALSE]
<1>2. op[o] \in Locals /\ IsConsistent(op[o]) /\ op[o].at = "next"
      /\ \A c \in op[o].snap : client[c] # None
  BY LocalsTyped DEF Configure
<1>3. s \in Servers /\ op[o].cfgs[s] # None /\ op[o].cfgs[s] \in ServerConfigs \cup {None}
  BY <1>2 DEF IsConsistent, Locals
<1>4. /\ starts \in Locals /\ starts.at = "close" /\ starts.client = op[o].client
      /\ starts.snap = op[o].snap /\ starts.adds = op[o].adds \ {s} /\ starts.cfgs = op[o].cfgs
      /\ starts.server = s
  BY <1>2, <1>3 DEF Locals, Places
<1>5. /\ drops \in Locals /\ drops.at = "next" /\ drops.client = op[o].client
      /\ drops.snap = op[o].snap /\ drops.adds = {}
  BY <1>2, <1>3 DEF Locals, Places
<1>6. Becomes(o, starts) \/ Becomes(o, drops)
  BY <1>1
<1> HIDE DEF starts, drops
<1>7. IsConsistent(starts) /\ IsConsistent(drops)
  BY <1>2, <1>3, <1>4, <1>5 DEF IsConsistent
<1>8. UNCHANGED <<repo, clients, client, tools, registry, mcpNames, boots, raced>>
  BY DEF Configure, ghostVars
<1>9. /\ configs' \in [Servers -> ServerConfigs \cup {None}]
      /\ \A t \in Servers : configs[t] # None => configs'[t] # None
  BY <1>1, <1>3 DEF ManagerInv, MapsTyped
<1>10. MapsTyped' /\ ToolsTyped' /\ SameClients
  BY <1>8, <1>9, ToolsStay DEF ManagerInv, MapsTyped, SameClients
<1>11. ~At(Main, "idle")
  BY <1>2, WorkIsAfterBoot
<1>12. CASE Becomes(o, starts)
  BY <1>2, <1>4, <1>7, <1>8, <1>9, <1>10, <1>11, <1>12, ManagerMoves
<1>13. CASE Becomes(o, drops)
  BY <1>2, <1>5, <1>7, <1>8, <1>9, <1>10, <1>11, <1>13, ManagerMoves
<1>14. QED
  BY <1>6, <1>12, <1>13

LEMMA ManagerFails ==
  ASSUME ManagerInv, NEW o \in Goroutines, InitializeFails(o)
  PROVE  ManagerInv'
<1> DEFINE goesOn == [op[o] EXCEPT !.at = "next", !.server = None]
<1>1. /\ op[o].at = "init" /\ (Becomes(o, Over) \/ Becomes(o, goesOn))
      /\ UNCHANGED <<repo, configs, clients, client, tools, registry, mcpNames, boots, raced>>
  BY DEF InitializeFails, managerVars
<1>2. op[o] \in Locals /\ IsConsistent(op[o]) /\ \A c \in op[o].snap : client[c] # None
  BY LocalsTyped
<1>3. /\ goesOn \in Locals /\ goesOn.at = "next" /\ goesOn.client = op[o].client
      /\ goesOn.snap = op[o].snap /\ goesOn.adds = op[o].adds /\ goesOn.cfgs = op[o].cfgs
  BY <1>2 DEF Locals, Places
<1> HIDE DEF goesOn
<1>4. IsConsistent(goesOn)
  BY <1>1, <1>2, <1>3 DEF IsConsistent
<1>5. ToolsTyped' /\ repo' \in [Servers -> ServerConfigs \cup {None}] /\ ~At(Main, "idle")
  BY <1>1, ToolsStay, RepoStays, WorkIsAfterBoot
<1>6. CASE Becomes(o, goesOn)
  BY <1>1, <1>2, <1>3, <1>4, <1>5, <1>6, ManagerSteps
<1>7. CASE Becomes(o, Over)
  BY <1>1, <1>5, <1>7, OverTyped, ManagerSteps
<1>8. QED
  BY <1>1, <1>6, <1>7

LEMMA ManagerFinishes ==
  ASSUME ManagerInv, NEW o \in Goroutines, Finish(o)
  PROVE  ManagerInv'
<1> DEFINE refreshes == [Idle EXCEPT !.at = "snap", !.kind = op[o].kind]
           lists == [Idle EXCEPT !.at = "snap"]
<1>1. /\ op[o].at = "next"
      /\ Becomes(o, refreshes) \/ Becomes(o, lists) \/ Becomes(o, Over)
      /\ UNCHANGED <<repo, configs, clients, client, tools, registry, mcpNames, boots, raced>>
  BY DEF Finish, managerVars, ghostVars
<1>2. op[o].kind \in {None, "boot", "install", "call"}
  BY LocalsTyped DEF Locals
<1>3. /\ refreshes \in Locals /\ refreshes.at = "snap" /\ refreshes.client = None
      /\ refreshes.snap = {} /\ refreshes.adds = {}
  BY <1>2 DEF Idle, Locals, Places, Nothing
<1>4. /\ lists \in Locals /\ lists.at = "snap" /\ lists.client = None
      /\ lists.snap = {} /\ lists.adds = {}
  BY DEF Idle, Locals, Places, Nothing
<1> HIDE DEF refreshes, lists
<1>5. IsConsistent(refreshes) /\ IsConsistent(lists)
  BY <1>3, <1>4 DEF IsConsistent
<1>6. ToolsTyped' /\ repo' \in [Servers -> ServerConfigs \cup {None}] /\ ~At(Main, "idle")
  BY <1>1, ToolsStay, RepoStays, WorkIsAfterBoot
<1>7. CASE Becomes(o, refreshes)
  BY <1>1, <1>3, <1>5, <1>6, <1>7, ManagerSteps
<1>8. CASE Becomes(o, lists)
  BY <1>1, <1>4, <1>5, <1>6, <1>8, ManagerSteps
<1>9. CASE Becomes(o, Over)
  BY <1>1, <1>6, <1>9, OverTyped, ManagerSteps
<1>10. QED
  BY <1>1, <1>7, <1>8, <1>9

--------------------------------------------------------------------------------
(* Listing, publishing and registering tools *)

LEMMA DefsTyped ==
  ASSUME ManagerInv, NEW listed \in SUBSET ClientIds, \A c \in listed : client[c] # None
  PROVE  DefsOf(listed) \subseteq Defs
<1>1. \A c \in listed : client[c] \in Clients
  BY DEF ManagerInv, MapsTyped
<1>2. \A c \in listed : client[c].server \in Servers /\ client[c].offers \subseteq Names
  BY <1>1 DEF Clients
<1>3. \A c \in listed : \A n \in client[c].offers :
        Exposed(c, n, listed) \in {<<m>> : m \in Names} \cup (Servers \X Names)
  BY <1>2 DEF Exposed
<1>4. QED
  BY <1>2, <1>3 DEF DefsOf, Defs

(* A step of o within a refresh, which changes the tools alone. *)
LEMMA ManagerRefreshes ==
  ASSUME ManagerInv, NEW o \in Goroutines, NEW local \in Locals, Becomes(o, local),
         op[o].at \in Places \ {"idle", "done", "store", "close", "init"},
         local.at \in Places \ {"idle", "store", "close", "init"},
         local.client = op[o].client, local.adds = op[o].adds, local.cfgs = op[o].cfgs,
         \A c \in local.snap : client[c] # None,
         UNCHANGED <<repo, configs, clients, client, boots, raced>>, ToolsTyped'
  PROVE  ManagerInv'
<1>1. IsConsistent(op[o])
  BY LocalsTyped
<1>2. IsConsistent(local)
  BY <1>1 DEF IsConsistent
<1>3. repo' \in [Servers -> ServerConfigs \cup {None}] /\ ~At(Main, "idle")
  BY RepoStays, WorkIsAfterBoot
<1>4. QED
  BY <1>2, <1>3, ManagerSteps

LEMMA ManagerLists ==
  ASSUME ManagerInv, NEW o \in Goroutines, List(o)
  PROVE  ManagerInv'
<1>1. PICK listed \in SUBSET op[o].snap :
        /\ client' = [c \in ClientIds |->
             IF c \in listed THEN [client[c] EXCEPT !.warm = TRUE] ELSE client[c]]
        /\ Becomes(o, [op[o] EXCEPT !.at = "publish", !.snap = {}, !.defs = DefsOf(listed)])
  BY DEF List
<1>2. /\ op[o] \in Locals /\ IsConsistent(op[o]) /\ op[o].at = "list"
      /\ \A c \in op[o].snap : client[c] # None
      /\ UNCHANGED <<repo, configs, clients, tools, registry, mcpNames, boots, raced>>
  BY LocalsTyped DEF List
<1> DEFINE defs == DefsOf(listed)
           local == [op[o] EXCEPT !.at = "publish", !.snap = {}, !.defs = defs]
<1>3. defs \subseteq Defs
  BY <1>2, DefsTyped DEF Locals
<1>4. Becomes(o, local)
  BY <1>1
<1> HIDE DEF defs
<1>5. /\ local \in Locals /\ local.at = "publish" /\ local.client = op[o].client
      /\ local.snap = {} /\ local.adds = op[o].adds /\ local.cfgs = op[o].cfgs
  BY <1>2, <1>3 DEF Locals, Places
<1> HIDE DEF local
<1>6. IsConsistent(local)
  BY <1>2, <1>5 DEF IsConsistent
<1>7. client \in [ClientIds -> Clients \cup {None}] /\ None \notin Clients
  BY ManagerAssumption DEF ManagerInv, MapsTyped
<1>8. ASSUME NEW c \in ClientIds
      PROVE  /\ client'[c] \in Clients \cup {None}
             /\ client'[c] = None <=> client[c] = None
             /\ client[c] # None =>
                  client'[c].open = client[c].open /\ client'[c].server = client[c].server
  <2>1. CASE c \in listed
    <3> DEFINE warmed == [client[c] EXCEPT !.warm = TRUE]
    <3>1. client[c] \in Clients /\ client'[c] = warmed
      BY <1>1, <1>2, <1>7, <2>1
    <3>2. warmed \in Clients /\ warmed.open = client[c].open /\ warmed.server = client[c].server
      BY <3>1 DEF Clients
    <3> HIDE DEF warmed
    <3>3. QED
      BY <1>7, <3>1, <3>2
  <2>2. CASE c \notin listed
    BY <1>1, <1>7, <2>2
  <2>3. QED
    BY <2>1, <2>2
<1>9. SameClients
  BY <1>8 DEF SameClients
<1>10. MapsTyped' /\ ToolsTyped'
  <2>1. client' \in [ClientIds -> Clients \cup {None}]
    BY <1>1, <1>8
  <2>2. QED
    BY <1>2, <2>1, ToolsStay DEF ManagerInv, MapsTyped
<1>11. ~At(Main, "idle")
  BY <1>2, WorkIsAfterBoot
<1>12. QED
  BY <1>2, <1>4, <1>5, <1>6, <1>9, <1>10, <1>11, ManagerMoves

LEMMA ManagerPublishes ==
  ASSUME ManagerInv, NEW o \in Goroutines,
         Snapshot(o) \/ Publish(o) \/ Unregister(o) \/ Forget(o) \/ Register(o) \/ Registered(o)
  PROVE  ManagerInv'
<1>1. op[o] \in Locals /\ \A c \in op[o].snap : client[c] # None
  BY LocalsTyped
<1>2. op[o].defs \subseteq Defs /\ op[o].todo \subseteq Defs
  BY <1>1 DEF Locals
<1>3. CASE Snapshot(o)
  <2> DEFINE local == [op[o] EXCEPT !.at = "list", !.snap = OnlineClients]
  <2>1. OnlineClients \subseteq ClientIds /\ \A c \in OnlineClients : client[c] # None
    BY DEF ManagerInv, MapsTyped, MapsServe, OnlineClients
  <2>2. /\ Becomes(o, local) /\ op[o].at = "snap"
        /\ UNCHANGED <<repo, configs, clients, client, tools, registry, mcpNames, boots, raced>>
    BY <1>3 DEF Snapshot, managerVars, ghostVars
  <2>3. /\ local \in Locals /\ local.at = "list" /\ local.snap = OnlineClients
        /\ local.client = op[o].client /\ local.adds = op[o].adds /\ local.cfgs = op[o].cfgs
    BY <1>1, <2>1 DEF Locals, Places
  <2> HIDE DEF local
  <2>4. ToolsTyped'
    BY <2>2, ToolsStay
  <2>5. QED
    BY <2>1, <2>2, <2>3, <2>4, ManagerRefreshes DEF Places
<1>4. CASE Publish(o)
  <2> DEFINE local == [op[o] EXCEPT !.at = "unregister"]
  <2>1. /\ Becomes(o, local) /\ op[o].at = "publish" /\ tools' = op[o].defs
        /\ UNCHANGED <<repo, configs, clients, client, registry, mcpNames, boots, raced>>
    BY <1>4 DEF Publish, ghostVars
  <2>2. /\ local \in Locals /\ local.at = "unregister" /\ local.snap = op[o].snap
        /\ local.client = op[o].client /\ local.adds = op[o].adds /\ local.cfgs = op[o].cfgs
    BY <1>1 DEF Locals, Places
  <2> HIDE DEF local
  <2>3. ToolsTyped'
    BY <1>2, <2>1 DEF ManagerInv, ToolsTyped
  <2>4. QED
    BY <1>1, <2>1, <2>2, <2>3, ManagerRefreshes DEF Places
<1>5. CASE Unregister(o)
  <2> DEFINE local == [op[o] EXCEPT !.at = "forget"]
  <2>1. /\ Becomes(o, local) /\ op[o].at = "unregister" /\ registry' \subseteq registry
        /\ UNCHANGED <<repo, configs, clients, client, tools, mcpNames, boots, raced>>
    BY <1>5 DEF Unregister, ghostVars
  <2>2. /\ local \in Locals /\ local.at = "forget" /\ local.snap = op[o].snap
        /\ local.client = op[o].client /\ local.adds = op[o].adds /\ local.cfgs = op[o].cfgs
    BY <1>1 DEF Locals, Places
  <2> HIDE DEF local
  <2>3. ToolsTyped'
    BY <2>1 DEF ManagerInv, ToolsTyped
  <2>4. QED
    BY <1>1, <2>1, <2>2, <2>3, ManagerRefreshes DEF Places
<1>6. CASE Forget(o)
  <2> DEFINE local == [op[o] EXCEPT !.at = "register", !.todo = op[o].defs, !.defs = {}]
  <2>1. /\ Becomes(o, local) /\ op[o].at = "forget" /\ mcpNames' = {}
        /\ UNCHANGED <<repo, configs, clients, client, tools, registry, boots, raced>>
    BY <1>6 DEF Forget, ghostVars
  <2>2. /\ local \in Locals /\ local.at = "register" /\ local.snap = op[o].snap
        /\ local.client = op[o].client /\ local.adds = op[o].adds /\ local.cfgs = op[o].cfgs
    BY <1>1, <1>2 DEF Locals, Places
  <2> HIDE DEF local
  <2>3. ToolsTyped'
    BY <2>1 DEF ManagerInv, ToolsTyped
  <2>4. QED
    BY <1>1, <2>1, <2>2, <2>3, ManagerRefreshes DEF Places
<1>7. CASE Register(o)
  <2>1. PICK d \in op[o].todo :
          /\ registry' = {e \in registry : e.name # d.name} \cup {d}
          /\ mcpNames' = mcpNames \cup {d.name}
          /\ Becomes(o, [op[o] EXCEPT !.todo = @ \ {d}])
    BY <1>7 DEF Register
  <2> DEFINE local == [op[o] EXCEPT !.todo = @ \ {d}]
  <2>2. /\ Becomes(o, local) /\ op[o].at = "register" /\ d \in Defs
        /\ UNCHANGED <<repo, configs, clients, client, tools, boots, raced>>
    BY <1>2, <1>7, <2>1 DEF Register
  <2>3. /\ local \in Locals /\ local.at = op[o].at /\ local.snap = op[o].snap
        /\ local.client = op[o].client /\ local.adds = op[o].adds /\ local.cfgs = op[o].cfgs
    BY <1>1 DEF Locals, Places
  <2> HIDE DEF local
  <2>4. ToolsTyped'
    BY <2>1, <2>2 DEF ManagerInv, ToolsTyped
  <2>5. QED
    BY <1>1, <2>2, <2>3, <2>4, ManagerRefreshes DEF Places
<1>8. CASE Registered(o)
  <2> DEFINE local == [op[o] EXCEPT !.at = "next"]
  <2>1. /\ Becomes(o, local) /\ op[o].at = "register"
        /\ UNCHANGED <<repo, configs, clients, client, tools, registry, mcpNames, boots, raced>>
    BY <1>8 DEF Registered, managerVars, ghostVars
  <2>2. /\ local \in Locals /\ local.at = "next" /\ local.snap = op[o].snap
        /\ local.client = op[o].client /\ local.adds = op[o].adds /\ local.cfgs = op[o].cfgs
    BY <1>1 DEF Locals, Places
  <2> HIDE DEF local
  <2>3. ToolsTyped'
    BY <2>1, ToolsStay
  <2>4. QED
    BY <1>1, <2>1, <2>2, <2>3, ManagerRefreshes DEF Places
<1>9. QED
  BY <1>3, <1>4, <1>5, <1>6, <1>7, <1>8

--------------------------------------------------------------------------------
(* Calls *)

(* A call ends with no answer, or with that of a server. *)
LEMMA ManagerAnswers ==
  ASSUME ManagerInv, NEW o \in Goroutines, op[o].at \in {"route", "send"},
         NEW s \in Servers \cup {None}, Becomes(o, Over) \/ Becomes(o, Answered(o, s)),
         UNCHANGED <<repo, managerVars, boots, ghostVars>>
  PROVE  ManagerInv'
<1> DEFINE local == Answered(o, s)
<1>1. op[o].def \in Defs \cup {None}
  BY LocalsTyped DEF Locals
<1>2. /\ local \in Locals /\ local.at = "done" /\ local.client = None
      /\ local.snap = {} /\ local.adds = {}
  BY <1>1, OverTyped DEF Answered, Locals
<1>3. Becomes(o, Over) \/ Becomes(o, local)
  OBVIOUS
<1> HIDE DEF local
<1>4. IsConsistent(local)
  BY <1>2 DEF IsConsistent
<1>5. UNCHANGED <<repo, configs, clients, client, tools, registry, mcpNames, boots, raced>>
  BY DEF managerVars, ghostVars
<1>6. ToolsTyped' /\ repo' \in [Servers -> ServerConfigs \cup {None}] /\ ~At(Main, "idle")
  BY <1>5, ToolsStay, RepoStays, WorkIsAfterBoot
<1>7. CASE Becomes(o, local)
  BY <1>2, <1>4, <1>5, <1>6, <1>7, ManagerSteps
<1>8. CASE Becomes(o, Over)
  BY <1>5, <1>6, <1>8, OverTyped, ManagerSteps
<1>9. QED
  BY <1>3, <1>7, <1>8

LEMMA ManagerCalls ==
  ASSUME ManagerInv, NEW o \in Goroutines, Route(o) \/ Send(o) \/ AskAll(o)
  PROVE  ManagerInv'
<1>1. op[o] \in Locals /\ \A c \in op[o].snap : client[c] # None
  BY LocalsTyped
<1>2. CASE Route(o)
  <2>1. PICK d \in tools : Becomes(o, [op[o] EXCEPT !.at = "send", !.server = d.server])
    BY <1>2 DEF Route
  <2> DEFINE s == d.server
             local == [op[o] EXCEPT !.at = "send", !.server = s]
  <2>2. s \in Servers
    BY DEF ManagerInv, ToolsTyped, Defs
  <2>3. Becomes(o, local)
    BY <2>1
  <2> HIDE DEF s
  <2>4. /\ local \in Locals /\ local.at = "send" /\ local.snap = op[o].snap
        /\ local.client = op[o].client /\ local.adds = op[o].adds /\ local.cfgs = op[o].cfgs
    BY <1>1, <2>2 DEF Locals, Places
  <2> HIDE DEF local
  <2>5. /\ op[o].at = "route"
        /\ UNCHANGED <<repo, configs, clients, client, tools, registry, mcpNames, boots, raced>>
    BY <1>2 DEF Route, managerVars, ghostVars
  <2>6. ToolsTyped'
    BY <2>5, ToolsStay
  <2>7. QED
    BY <1>1, <2>3, <2>4, <2>5, <2>6, ManagerRefreshes DEF Places
<1>3. CASE Send(o)
  <2>1. op[o].server \in Servers \cup {None}
    BY <1>1 DEF Locals
  <2>2. QED
    BY <1>3, <2>1, ManagerAnswers DEF Send
<1>4. CASE AskAll(o)
  <2>1. \A c \in OnlineClients : client[c].server \in Servers
    BY DEF ManagerInv, MapsServe, OnlineClients
  <2>2. QED
    BY <1>4, <2>1, ManagerAnswers DEF AskAll
<1>5. QED
  BY <1>2, <1>3, <1>4

--------------------------------------------------------------------------------
LEMMA ManagerStuttering ==
  ASSUME ManagerInv, UNCHANGED vars
  PROVE  ManagerInv'
<1> UNCHANGED <<repo, configs, clients, client, tools, registry, mcpNames, op, boots, raced>>
  BY DEF vars, managerVars, ghostVars
<1>1. MapsTyped' /\ ToolsTyped' /\ LocalsConsistent'
  BY DEF ManagerInv, MapsTyped, ToolsTyped, LocalsConsistent
<1>2. MapsServe' /\ HandsServe'
  BY DEF ManagerInv, MapsServe, HandsServe
<1>3. StartsAlone' /\ NothingBeforeBoot'
  BY DEF ManagerInv, StartsAlone, InStart, NothingBeforeBoot
<1>4. ClientsLeakByRacesOnly'
  BY DEF ManagerInv, ClientsLeakByRacesOnly, OnlineClients, InHand
<1>5. QED
  BY <1>1, <1>2, <1>3, <1>4 DEF ManagerInv

LEMMA ManagerInductive ==
  ASSUME ManagerInv, [Next]_vars
  PROVE  ManagerInv'
<1>1. ASSUME NEW listed \in BOOLEAN, NEW read \in SUBSET DOMAIN Yaml, NEW saved \in SUBSET DOMAIN Yaml,
             Boot(listed, read, saved)
      PROVE  ManagerInv'
  BY <1>1, ManagerBoots
<1>2. CASE Die
  BY <1>2, ManagerDies
<1>3. ASSUME NEW o \in Ops, Request(o) PROVE ManagerInv'
  BY <1>3, ManagerRequests
<1>4. ASSUME NEW o \in Goroutines, Step(o) PROVE ManagerInv'
  <2>1. CASE Remove(o) \/ Configure(o) \/ CloseOld(o) \/ InitializeFails(o)
    BY <2>1, ManagerRemoves, ManagerConfigures, ManagerCloses, ManagerFails
  <2>2. CASE Store(o) \/ Finish(o) \/ \E c \in ClientIds, warm \in BOOLEAN : InitializeOne(o, c, warm)
    BY <2>2, ManagerStores, ManagerFinishes, ManagerInitializes
  <2>3. CASE List(o)
    BY <2>3, ManagerLists
  <2>4. CASE Snapshot(o) \/ Publish(o) \/ Unregister(o) \/ Forget(o) \/ Register(o) \/ Registered(o)
    BY <2>4, ManagerPublishes
  <2>5. CASE Route(o) \/ Send(o) \/ AskAll(o)
    BY <2>5, ManagerCalls
  <2>6. QED
    BY <1>4, <2>1, <2>2, <2>3, <2>4, <2>5 DEF Step
<1>5. CASE UNCHANGED vars
  BY <1>5, ManagerStuttering
<1>6. QED
  BY <1>1, <1>2, <1>3, <1>4, <1>5 DEF Next

LEMMA ManagerTyped ==
  ASSUME ManagerInv
  PROVE  TypeOK
<1>1. \A o \in Goroutines : /\ op[o].client \in ClientIds \cup {None}
                            /\ op[o].at = "store" => op[o].client # None
  BY LocalsTyped DEF Locals, IsConsistent
<1>2. QED
  BY <1>1 DEF ManagerInv, MapsTyped, ToolsTyped, TypeOK

(* The invariant of the manager (infrastructure/mcp/manager.go) and of the *)
(* requests that use it, in every state it reaches.                        *)
THEOREM ManagerInvariant == Spec => []ManagerInv
<1>1. Init => ManagerInv
  BY ManagerInitially
<1>2. ManagerInv /\ [Next]_vars => ManagerInv'
  BY ManagerInductive
<1>3. QED
  BY <1>1, <1>2, PTL DEF Spec

(* A client in the manager's map (manager.go, startOne and Remove) is      *)
(* open, of its server and configured, however many requests race.         *)
THEOREM MappedAreOpen == Spec => []MappedClientsAreOpen
<1>1. ManagerInv => MappedClientsAreOpen
  BY ManagerTyped DEF ManagerInv, MapsServe, MappedClientsAreOpen
<1>2. QED
  BY <1>1, ManagerInvariant, PTL

(* A client is forgotten unclosed only when two goroutines were starting   *)
(* its server at the same time (startOne lets go of the lock in between).  *)
THEOREM LeaksAreRaces == Spec => []ClientsLeakByRacesOnly
<1>1. ManagerInv => ClientsLeakByRacesOnly
  BY DEF ManagerInv
<1>2. QED
  BY <1>1, ManagerInvariant, PTL

--------------------------------------------------------------------------------
(* Requests that follow one another *)

(* No two of the tools go by the same name. *)
Distinct(defs) == \A d, e \in defs : d.name = e.name => d = e

(* With these tools, registry and clients online: what a goroutine lists   *)
(* is online, what it publishes has names of its own, what it registers    *)
(* was published, and what it calls, routes to and is answered by is the   *)
(* tool it took and its server.                                            *)
Syncs(l, defs, reg, online) ==
  /\ l.at = "list" => l.snap \subseteq online
  /\ l.at = "publish" => Distinct(l.defs)
  /\ l.at \in {"unregister", "forget"} => l.defs = defs
  /\ l.at = "forget" => reg \subseteq OwnTools
  /\ l.at = "register" => l.todo \subseteq defs
  /\ l.at \in {"route", "send"} => l.def \in defs
  /\ l.at = "send" => l.server = l.def.server
  /\ l.answered # None => l.answered = l.def.server

(* Servers' tools in the registry are among those published, except while  *)
(* the old ones are about to be taken out, which mcpNames knows.           *)
ToolsAgree ==
  /\ Distinct(tools)
  /\ (\A o \in Goroutines : ~At(o, "unregister")) => registry \ OwnTools \subseteq tools
  /\ \A d \in registry \ OwnTools : d.name \in mcpNames

(* As long as requests follow one another, one goroutine is at work at     *)
(* most, and the tools agree.                                              *)
SerialInv ==
  ~overlap =>
    /\ \A o, p \in Busy : o = p
    /\ ToolsAgree
    /\ \A o \in Goroutines : Syncs(op[o], tools, registry, OnlineClients)

LEMMA WorksAlone ==
  ASSUME SerialInv, ~overlap, NEW o \in Busy
  PROVE  Busy \subseteq {o}
BY DEF SerialInv

(* A step of the one goroutine at work; the others keep what they got.     *)
LEMMA SerialStays ==
  ASSUME ManagerInv, SerialInv, NEW o \in Goroutines, NEW local \in Locals, Becomes(o, local),
         ~overlap' => /\ ~overlap /\ Busy \subseteq {o} /\ ToolsAgree'
                      /\ Syncs(local, tools', registry', OnlineClients')
  PROVE  SerialInv'
<1>1. /\ op'[o] = local
      /\ \A p \in Goroutines : p # o => op'[p] = op[p]
  BY LocalsTyped, ManagerBecomes
<1> SUFFICES ASSUME ~overlap' PROVE /\ \A p, q \in Busy' : p = q
                                    /\ ToolsAgree'
                                    /\ \A p \in Goroutines :
                                         Syncs(op'[p], tools', registry', OnlineClients')
  BY DEF SerialInv
<1>2. \A p \in Goroutines : p # o => op[p].at \in {"idle", "done"}
  BY DEF Busy
<1>3. Busy' \subseteq {o}
  BY <1>1, <1>2 DEF Busy
<1>4. ASSUME NEW p \in Goroutines PROVE Syncs(op'[p], tools', registry', OnlineClients')
  <2>1. CASE p = o
    BY <1>1, <2>1
  <2>2. CASE p # o
    <3>1. op[p].answered # None => op[p].answered = op[p].def.server
      BY DEF SerialInv, Syncs
    <3>2. QED
      BY <1>1, <1>2, <2>2, <3>1 DEF Syncs
  <2>3. QED
    BY <2>1, <2>2
<1>5. QED
  BY <1>3, <1>4

(* The same, when the tools stay what they are. *)
LEMMA SerialMoves ==
  ASSUME ManagerInv, SerialInv, NEW o \in Goroutines, NEW local \in Locals, Becomes(o, local),
         UNCHANGED <<tools, registry, mcpNames>>, op[o].at # "unregister",
         local.at # "unregister",
         ~overlap' => ~overlap /\ Busy \subseteq {o} /\ Syncs(local, tools, registry, OnlineClients')
  PROVE  SerialInv'
<1>1. \A p \in Goroutines : ~overlap' => op[p].at # "unregister"
  BY DEF Busy
<1>2. ~overlap' => ToolsAgree'
  BY <1>1 DEF SerialInv, ToolsAgree
<1>3. QED
  BY <1>2, SerialStays

(* Where a goroutine neither refreshes the tools nor calls one. *)
Quiet == {"next", "close", "init", "store", "snap", "done"}

(* The same, when the goroutine neither refreshes the tools nor calls one. *)
LEMMA SerialQuiet ==
  ASSUME ManagerInv, SerialInv, NEW o \in Goroutines, NEW local \in Locals, Becomes(o, local),
         UNCHANGED <<tools, registry, mcpNames>>, op[o].at # "unregister", local.at \in Quiet,
         local.answered = None \/ (local.answered = op[o].answered /\ local.def = op[o].def),
         ~overlap' => ~overlap /\ Busy \subseteq {o}
  PROVE  SerialInv'
<1>1. ~overlap => (op[o].answered # None => op[o].answered = op[o].def.server)
  BY DEF SerialInv, Syncs
<1>2. ~overlap => Syncs(local, tools, registry, OnlineClients')
  BY <1>1 DEF Syncs, Quiet
<1>3. QED
  BY <1>2, SerialMoves DEF Quiet

LEMMA IdleAnswered == Idle.answered = None
BY DEF Idle

LEMMA SerialInitially == Init => SerialInv
<1> SUFFICES ASSUME Init PROVE SerialInv
  OBVIOUS
<1>1. \A o \in Goroutines : op[o] = Idle /\ op[o].at = "idle" /\ op[o].answered = None
  BY IdleTyped, IdleAnswered DEF Init
<1>2. Busy = {}
  BY <1>1 DEF Busy
<1>3. ToolsAgree
  BY DEF Init, ToolsAgree, Distinct
<1>4. \A o \in Goroutines : Syncs(op[o], tools, registry, OnlineClients)
  BY <1>1 DEF Syncs
<1>5. QED
  BY <1>2, <1>3, <1>4 DEF SerialInv

LEMMA SerialDies ==
  ASSUME ManagerInv, Die
  PROVE  SerialInv'
<1> DEFINE over == [Idle EXCEPT !.at = "done"]
<1>1. over.at = "done" /\ over.answered = None
  BY DEF Idle
<1>2. /\ tools' = {} /\ registry' = OwnTools /\ mcpNames' = {}
      /\ op' = [o \in Goroutines |-> IF o = Main \/ op[o].at = "idle" THEN Idle ELSE over]
  BY DEF Die
<1> HIDE DEF over
<1>3. \A o \in Goroutines : op'[o].at \in {"idle", "done"} /\ op'[o].answered = None
  BY <1>1, <1>2, IdleTyped, IdleAnswered
<1>4. Busy' = {}
  BY <1>3 DEF Busy
<1>5. ToolsAgree'
  BY <1>2 DEF ToolsAgree, Distinct
<1>6. \A o \in Goroutines : Syncs(op'[o], tools', registry', OnlineClients')
  BY <1>3 DEF Syncs
<1>7. QED
  BY <1>4, <1>5, <1>6 DEF SerialInv

LEMMA SerialBoots ==
  ASSUME ManagerInv, SerialInv,
         NEW listed \in BOOLEAN, NEW read \in SUBSET DOMAIN Yaml, NEW saved \in SUBSET DOMAIN Yaml,
         Boot(listed, read, saved)
  PROVE  SerialInv'
<1> DEFINE merged == [s \in Servers |-> Merged(s, listed)]
           starts == {s \in Servers : Enabled(merged[s])}
           local == [Idle EXCEPT !.at = "next", !.kind = "boot", !.cfgs = merged,
                                 !.adds = starts, !.refresh = TRUE]
<1>1. /\ op[Main].at = "idle" /\ Becomes(Main, local)
      /\ UNCHANGED <<tools, registry, mcpNames, overlap>>
  BY DEF Boot, ghostVars
<1>2. merged \in [Servers -> ServerConfigs \cup {None}] /\ starts \subseteq Servers
  BY MergedTyped
<1> HIDE DEF merged, starts
<1>3. local \in Locals /\ local.at = "next" /\ local.answered = None
  BY <1>2 DEF Idle, Locals, Places, Nothing
<1> HIDE DEF local
<1>4. Busy = {}
  BY <1>1 DEF ManagerInv, NothingBeforeBoot, Busy
<1>5. QED
  BY <1>1, <1>3, <1>4, MainIsNoRequest, SerialQuiet DEF Quiet

LEMMA SerialRequests ==
  ASSUME ManagerInv, SerialInv, NEW o \in Ops, Request(o)
  PROVE  SerialInv'
<1>1. o \in Goroutines
  BY MainIsNoRequest
<1>2. repo \in [Servers -> ServerConfigs \cup {None}]
  BY DEF ManagerInv, MapsTyped
<1>3. op[o].at = "idle" /\ overlap' = (overlap \/ Busy # {})
  BY DEF Request, InstallCustom, Delete, Reload, Refuse, ListTools, Call, Arrives
<1>4. UNCHANGED <<configs, clients, client, tools, registry, mcpNames>>
  BY DEF Request, InstallCustom, Delete, Reload, Refuse, ListTools, Call, managerVars
<1>5. ~overlap' => ~overlap /\ Busy = {}
  <2>1. CASE overlap
    BY <1>3, <2>1
  <2>2. CASE ~overlap
    BY <1>3, <2>2
  <2>3. QED
    BY <2>1, <2>2
<1>6. ASSUME NEW local \in Locals, Becomes(o, local), local.at \in {"next", "snap"},
             local.answered = None
      PROVE  SerialInv'
  BY <1>1, <1>3, <1>4, <1>5, <1>6, SerialQuiet DEF Quiet
<1>7. ASSUME NEW s \in Servers, NEW cfg \in Configs, InstallCustom(o, s, cfg)
      PROVE  SerialInv'
  <2> DEFINE cfgs == [Nothing EXCEPT ![s] = cfg]
             local == [Idle EXCEPT !.at = "next", !.kind = "install", !.adds = {s},
                                   !.cfgs = cfgs, !.refresh = TRUE]
  <2>1. Becomes(o, local)
    BY <1>7 DEF InstallCustom
  <2>2. cfgs \in [Servers -> ServerConfigs \cup {None}]
    BY ManagerAssumption DEF Nothing
  <2> HIDE DEF cfgs
  <2>3. local \in Locals /\ local.at = "next" /\ local.answered = None
    BY <2>2 DEF Idle, Locals, Places, Nothing
  <2> HIDE DEF local
  <2>4. QED
    BY <1>6, <2>1, <2>3
<1>8. ASSUME NEW s \in Servers, NEW deleted \in BOOLEAN, Delete(o, s, deleted)
      PROVE  SerialInv'
  <2> DEFINE local == [Idle EXCEPT !.at = "next", !.removes = {s}]
  <2>1. Becomes(o, local)
    BY <1>8 DEF Delete
  <2>2. local \in Locals /\ local.at = "next" /\ local.answered = None
    BY DEF Idle, Locals, Places, Nothing
  <2> HIDE DEF local
  <2>3. QED
    BY <1>6, <2>1, <2>2
<1>9. CASE Reload(o)
  <2> DEFINE wanted == {s \in Servers : Enabled(repo[s])}
             gone == {s \in Servers : clients[s] # None} \ wanted
             local == [Idle EXCEPT !.at = "next", !.adds = wanted, !.cfgs = repo,
                                   !.removes = gone, !.refresh = TRUE]
  <2>1. Becomes(o, local)
    BY <1>9 DEF Reload
  <2>2. wanted \subseteq Servers /\ gone \subseteq Servers
    OBVIOUS
  <2> HIDE DEF wanted, gone
  <2>3. local \in Locals /\ local.at = "next" /\ local.answered = None
    BY <1>2, <2>2 DEF Idle, Locals, Places, Nothing
  <2> HIDE DEF local
  <2>4. QED
    BY <1>6, <2>1, <2>3
<1>10. CASE ListTools(o)
  <2> DEFINE local == [Idle EXCEPT !.at = "snap"]
  <2>1. Becomes(o, local)
    BY <1>10 DEF ListTools
  <2>2. local \in Locals /\ local.at = "snap" /\ local.answered = None
    BY DEF Idle, Locals, Places, Nothing
  <2> HIDE DEF local
  <2>3. QED
    BY <1>6, <2>1, <2>2
<1>11. CASE Call(o)
  <2>1. PICK d \in registry \ OwnTools :
          Becomes(o, [Idle EXCEPT !.at = "route", !.kind = "call", !.def = d])
    BY <1>11 DEF Call
  <2>2. d \in Defs
    BY DEF ManagerInv, ToolsTyped
  <2> DEFINE local == [Idle EXCEPT !.at = "route", !.kind = "call", !.def = d]
  <2>3. Becomes(o, local)
    BY <2>1
  <2>4. local \in Locals /\ local.at = "route" /\ local.answered = None /\ local.def = d
    BY <2>2 DEF Idle, Locals, Places, Nothing
  <2> HIDE DEF local
  <2>5. ~overlap' => d \in tools
    BY <1>5 DEF SerialInv, ToolsAgree, Busy
  <2>6. ~overlap' => Syncs(local, tools, registry, OnlineClients')
    BY <2>4, <2>5 DEF Syncs
  <2>7. QED
    BY <1>1, <1>3, <1>4, <1>5, <2>3, <2>4, <2>6, SerialMoves
<1>12. CASE Refuse(o)
  <2>1. Becomes(o, Over) /\ Over.answered = None
    BY <1>12 DEF Refuse, Over, Idle
  <2>2. QED
    BY <1>1, <1>3, <1>4, <1>5, <2>1, OverTyped, SerialQuiet DEF Quiet
<1>13. QED
  BY <1>7, <1>8, <1>9, <1>10, <1>11, <1>12 DEF Request

(* What the steps of a goroutine at work keep of its local state. *)
LEMMA LocalKeeps ==
  ASSUME NEW l \in Locals, NEW at \in Places
  PROVE  LET local == [l EXCEPT !.at = at]
         IN  /\ local \in Locals /\ local.at = at
             /\ local.answered = l.answered /\ local.def = l.def
             /\ local.defs = l.defs /\ local.snap = l.snap
BY DEF Locals

(* The goroutine at work starts and removes servers. *)
LEMMA SerialServes ==
  ASSUME ManagerInv, SerialInv, NEW o \in Goroutines,
         Remove(o) \/ Configure(o) \/ CloseOld(o) \/ InitializeFails(o) \/ Store(o) \/ Finish(o)
         \/ (\E c \in ClientIds, warm \in BOOLEAN : InitializeOne(o, c, warm)) \/ Registered(o)
  PROVE  SerialInv'
<1>1. op[o] \in Locals /\ IsConsistent(op[o])
  BY LocalsTyped
<1>2. op[o].at \in {"next", "close", "init", "store", "register"}
  BY DEF Remove, Configure, CloseOld, InitializeFails, Store, Finish, InitializeOne, Registered
<1>3. UNCHANGED <<tools, registry, mcpNames, overlap>>
  BY DEF Remove, Configure, CloseOld, InitializeFails, Store, Finish, InitializeOne, Registered,
     managerVars, ghostVars
<1>4. ~overlap => Busy \subseteq {o}
  BY <1>2, WorksAlone DEF Busy
<1>5. ASSUME NEW local \in Locals, Becomes(o, local), local.at \in Quiet,
             local.answered = None \/ (local.answered = op[o].answered /\ local.def = op[o].def)
      PROVE  SerialInv'
  BY <1>2, <1>3, <1>4, <1>5, SerialQuiet
<1>6. CASE Remove(o)
  <2>1. PICK s \in op[o].removes : Becomes(o, [op[o] EXCEPT !.at = "snap", !.removes = @ \ {s}])
    BY <1>6 DEF Remove
  <2> DEFINE local == [op[o] EXCEPT !.at = "snap", !.removes = @ \ {s}]
  <2>2. /\ local \in Locals /\ local.at = "snap" /\ local.answered = op[o].answered
        /\ local.def = op[o].def
    BY <1>1 DEF Locals, Places
  <2>3. Becomes(o, local)
    BY <2>1
  <2> HIDE DEF local
  <2>4. QED
    BY <1>5, <2>2, <2>3 DEF Quiet
<1>7. CASE Configure(o)
  <2>1. PICK s \in op[o].adds :
          Becomes(o, IF op[o].cfgs[s].on
                     THEN [op[o] EXCEPT !.at = "close", !.adds = @ \ {s}, !.server = s]
                     ELSE [op[o] EXCEPT !.adds = {}, !.removes = {s}, !.refresh = FALSE])
    BY <1>7 DEF Configure
  <2> DEFINE starts == [op[o] EXCEPT !.at = "close", !.adds = @ \ {s}, !.server = s]
             drops == [op[o] EXCEPT !.adds = {}, !.removes = {s}, !.refresh = FALSE]
  <2>2. s \in Servers /\ op[o].at = "next"
    BY <1>1, <1>7 DEF Locals, Configure
  <2>3. /\ starts \in Locals /\ starts.at = "close" /\ starts.answered = op[o].answered
        /\ starts.def = op[o].def
    BY <1>1, <2>2 DEF Locals, Places
  <2>4. /\ drops \in Locals /\ drops.at = "next" /\ drops.answered = op[o].answered
        /\ drops.def = op[o].def
    BY <1>1, <2>2 DEF Locals, Places
  <2>5. Becomes(o, starts) \/ Becomes(o, drops)
    BY <2>1
  <2> HIDE DEF starts, drops
  <2>6. QED
    BY <1>5, <2>3, <2>4, <2>5 DEF Quiet
<1>8. CASE CloseOld(o)
  <2> DEFINE local == [op[o] EXCEPT !.at = "init"]
  <2>1. Becomes(o, local)
    BY <1>8 DEF CloseOld
  <2>2. /\ local \in Locals /\ local.at = "init" /\ local.answered = op[o].answered
        /\ local.def = op[o].def
    BY <1>1, LocalKeeps DEF Places
  <2> HIDE DEF local
  <2>3. QED
    BY <1>5, <2>1, <2>2 DEF Quiet
<1>9. CASE InitializeFails(o)
  <2> DEFINE local == [op[o] EXCEPT !.at = "next", !.server = None]
  <2>1. Becomes(o, Over) \/ Becomes(o, local)
    BY <1>9 DEF InitializeFails
  <2>2. /\ local \in Locals /\ local.at = "next" /\ local.answered = op[o].answered
        /\ local.def = op[o].def
    BY <1>1 DEF Locals, Places
  <2>3. Over.answered = None
    BY DEF Over, Idle
  <2> HIDE DEF local
  <2>4. QED
    BY <1>5, <2>1, <2>2, <2>3, OverTyped DEF Quiet
<1>10. ASSUME NEW c \in ClientIds, NEW warm \in BOOLEAN, InitializeOne(o, c, warm)
       PROVE  SerialInv'
  <2> DEFINE local == [op[o] EXCEPT !.at = "store", !.client = c]
  <2>1. Becomes(o, local)
    BY <1>10 DEF InitializeOne
  <2>2. /\ local \in Locals /\ local.at = "store" /\ local.answered = op[o].answered
        /\ local.def = op[o].def
    BY <1>1 DEF Locals, Places
  <2> HIDE DEF local
  <2>3. QED
    BY <1>5, <2>1, <2>2 DEF Quiet
<1>11. CASE Store(o)
  <2> DEFINE local == [op[o] EXCEPT !.at = "next", !.server = None, !.client = None]
  <2>1. Becomes(o, local)
    BY <1>11 DEF Store
  <2>2. /\ local \in Locals /\ local.at = "next" /\ local.answered = op[o].answered
        /\ local.def = op[o].def
    BY <1>1 DEF Locals, Places
  <2> HIDE DEF local
  <2>3. QED
    BY <1>5, <2>1, <2>2 DEF Quiet
<1>12. CASE Finish(o)
  <2> DEFINE kind == op[o].kind
             refreshes == [Idle EXCEPT !.at = "snap", !.kind = kind]
             lists == [Idle EXCEPT !.at = "snap"]
  <2>1. Becomes(o, refreshes) \/ Becomes(o, lists) \/ Becomes(o, Over)
    BY <1>12 DEF Finish
  <2>2. kind \in {None, "boot", "install", "call"}
    BY <1>1 DEF Locals
  <2> HIDE DEF kind
  <2>3. refreshes \in Locals /\ refreshes.at = "snap" /\ refreshes.answered = None
    BY <2>2 DEF Idle, Locals, Places, Nothing
  <2>4. lists \in Locals /\ lists.at = "snap" /\ lists.answered = None
    BY DEF Idle, Locals, Places, Nothing
  <2>5. Over.answered = None
    BY DEF Over, Idle
  <2> HIDE DEF refreshes, lists
  <2>6. QED
    BY <1>5, <2>1, <2>3, <2>4, <2>5, OverTyped DEF Quiet
<1>13. CASE Registered(o)
  <2> DEFINE local == [op[o] EXCEPT !.at = "next"]
  <2>1. Becomes(o, local)
    BY <1>13 DEF Registered
  <2>2. /\ local \in Locals /\ local.at = "next" /\ local.answered = op[o].answered
        /\ local.def = op[o].def
    BY <1>1, LocalKeeps, ZenonT(40) DEF Places
  <2> HIDE DEF local
  <2>3. QED
    BY <1>5, <2>1, <2>2 DEF Quiet
<1>14. QED
  BY <1>6, <1>7, <1>8, <1>9, <1>10, <1>11, <1>12, <1>13

--------------------------------------------------------------------------------
(* The refresh of the tools, alone *)

(* Of clients that are online together no two tools go by the same name:   *)
(* a shared one has its server before it.                                  *)
LEMMA NamesDistinct ==
  ASSUME ManagerInv, NEW listed \in SUBSET OnlineClients
  PROVE  Distinct(DefsOf(listed))
<1>1. \A c, d \in listed : client[c].server = client[d].server => c = d
  BY DEF ManagerInv, MapsServe, OnlineClients
<1> DEFINE Def(c, n) == [name |-> Exposed(c, n, listed), server |-> client[c].server, tool |-> n]
<1>2. ASSUME NEW c \in listed, NEW d \in listed, NEW n \in client[c].offers, NEW m \in client[d].offers,
             Exposed(c, n, listed) = Exposed(d, m, listed)
      PROVE  Def(c, n) = Def(d, m)
  <2> DEFINE shared(b, k) == \E a \in listed \ {b} : k \in client[a].offers
  <2>1. CASE shared(c, n) /\ shared(d, m)
    <3>1. <<client[c].server, n>> = <<client[d].server, m>>
      BY <1>2, <2>1 DEF Exposed
    <3>2. client[c].server = client[d].server /\ n = m
      BY <3>1
    <3>3. QED
      BY <1>1, <3>2
  <2>2. CASE ~shared(c, n) /\ ~shared(d, m)
    <3>1. <<n>> = <<m>>
      BY <1>2, <2>2 DEF Exposed
    <3>2. n = m
      BY <3>1
    <3>3. c = d
      BY <2>2, <3>2
    <3>4. QED
      BY <3>2, <3>3
  <2>3. CASE shared(c, n) /\ ~shared(d, m)
    <3>1. <<client[c].server, n>> = <<m>>
      BY <1>2, <2>3 DEF Exposed
    <3>2. QED
      BY <3>1
  <2>4. CASE ~shared(c, n) /\ shared(d, m)
    <3>1. <<n>> = <<client[d].server, m>>
      BY <1>2, <2>4 DEF Exposed
    <3>2. QED
      BY <3>1
  <2>5. QED
    BY <2>1, <2>2, <2>3, <2>4
<1>3. QED
  BY <1>2 DEF Distinct, DefsOf

LEMMA SerialRefreshes ==
  ASSUME ManagerInv, SerialInv, NEW o \in Goroutines,
         Snapshot(o) \/ List(o) \/ Publish(o) \/ Unregister(o) \/ Forget(o) \/ Register(o)
  PROVE  SerialInv'
<1>1. op[o] \in Locals
  BY LocalsTyped
<1>2. op[o].at \in {"snap", "list", "publish", "unregister", "forget", "register"}
  BY DEF Snapshot, List, Publish, Unregister, Forget, Register
<1>3. overlap' = overlap
  BY DEF Snapshot, List, Publish, Unregister, Forget, Register, ghostVars
<1>4. ~overlap => Busy \subseteq {o}
  BY <1>2, WorksAlone DEF Busy
<1>5. ~overlap => ToolsAgree /\ Syncs(op[o], tools, registry, OnlineClients)
  BY DEF SerialInv
<1>6. op[o].defs \subseteq Defs /\ op[o].todo \subseteq Defs
  BY <1>1 DEF Locals
<1>7. \A d \in Defs : d \notin OwnTools
  BY ManagerAssumption DEF Defs, OwnTools, Builtin
<1>8. CASE Snapshot(o)
  <2> DEFINE online == OnlineClients
             local == [op[o] EXCEPT !.at = "list", !.snap = online]
  <2>1. Becomes(o, local) /\ op[o].at = "snap" /\ UNCHANGED <<clients, tools, registry, mcpNames>>
    BY <1>8 DEF Snapshot, managerVars
  <2>2. online \subseteq ClientIds
    BY DEF ManagerInv, MapsTyped, OnlineClients
  <2>3. OnlineClients' = online
    BY <2>1 DEF OnlineClients
  <2> HIDE DEF online
  <2>4. /\ local \in Locals /\ local.at = "list" /\ local.snap = online
        /\ local.answered = op[o].answered /\ local.def = op[o].def
    BY <1>1, <2>2 DEF Locals, Places
  <2> HIDE DEF local
  <2>5. ~overlap => Syncs(local, tools, registry, OnlineClients')
    BY <1>5, <2>3, <2>4 DEF Syncs
  <2>6. QED
    BY <1>3, <1>4, <2>1, <2>4, <2>5, SerialMoves
<1>9. CASE List(o)
  <2>1. PICK listed \in SUBSET op[o].snap :
          Becomes(o, [op[o] EXCEPT !.at = "publish", !.snap = {}, !.defs = DefsOf(listed)])
    BY <1>9 DEF List
  <2> DEFINE defs == DefsOf(listed)
             local == [op[o] EXCEPT !.at = "publish", !.snap = {}, !.defs = defs]
  <2>2. Becomes(o, local) /\ op[o].at = "list" /\ UNCHANGED <<tools, registry, mcpNames>>
    BY <1>9, <2>1 DEF List
  <2>3. defs \subseteq Defs
    BY <1>1, LocalsTyped, DefsTyped DEF Locals
  <2>4. ~overlap => Distinct(defs)
    BY <1>5, <2>2, NamesDistinct DEF Syncs
  <2> HIDE DEF defs
  <2>5. /\ local \in Locals /\ local.at = "publish" /\ local.defs = defs
        /\ local.answered = op[o].answered /\ local.def = op[o].def
    BY <1>1, <2>3 DEF Locals, Places
  <2> HIDE DEF local
  <2>6. ~overlap => Syncs(local, tools, registry, OnlineClients')
    BY <1>5, <2>4, <2>5 DEF Syncs
  <2>7. QED
    BY <1>3, <1>4, <2>2, <2>5, <2>6, SerialMoves
<1>10. CASE Publish(o)
  <2> DEFINE local == [op[o] EXCEPT !.at = "unregister"]
  <2>1. /\ Becomes(o, local) /\ op[o].at = "publish" /\ tools' = op[o].defs
        /\ UNCHANGED <<registry, mcpNames>>
    BY <1>10 DEF Publish
  <2>2. /\ local \in Locals /\ local.at = "unregister" /\ local.defs = op[o].defs
        /\ local.answered = op[o].answered /\ local.def = op[o].def
    BY <1>1, LocalKeeps DEF Places
  <2> HIDE DEF local
  <2>3. op'[o].at = "unregister"
    BY <1>1, <2>1, <2>2, LocalsTyped, ManagerBecomes
  <2>4. ~overlap => ToolsAgree'
    BY <1>5, <2>1, <2>3 DEF ToolsAgree, Syncs
  <2>5. ~overlap => Syncs(local, tools', registry', OnlineClients')
    BY <1>5, <2>1, <2>2 DEF Syncs
  <2>6. QED
    BY <1>3, <1>4, <2>1, <2>2, <2>4, <2>5, SerialStays
<1>11. CASE Unregister(o)
  <2> DEFINE local == [op[o] EXCEPT !.at = "forget"]
  <2>1. /\ Becomes(o, local) /\ op[o].at = "unregister"
        /\ registry' = {d \in registry : d.name \notin mcpNames}
        /\ UNCHANGED <<tools, mcpNames>>
    BY <1>11 DEF Unregister
  <2>2. /\ local \in Locals /\ local.at = "forget" /\ local.defs = op[o].defs
        /\ local.answered = op[o].answered /\ local.def = op[o].def
    BY <1>1, LocalKeeps DEF Places
  <2> HIDE DEF local
  <2>3. ~overlap => registry' \subseteq OwnTools
    BY <1>5, <2>1 DEF ToolsAgree
  <2>4. ~overlap => ToolsAgree'
    BY <1>5, <2>1, <2>3 DEF ToolsAgree
  <2>5. ~overlap => Syncs(local, tools', registry', OnlineClients')
    BY <1>5, <2>1, <2>2, <2>3 DEF Syncs
  <2>6. QED
    BY <1>3, <1>4, <2>1, <2>2, <2>4, <2>5, SerialStays
<1>12. CASE Forget(o)
  <2> DEFINE defs == op[o].defs
             local == [op[o] EXCEPT !.at = "register", !.todo = defs, !.defs = {}]
  <2>1. /\ Becomes(o, local) /\ op[o].at = "forget" /\ mcpNames' = {}
        /\ UNCHANGED <<tools, registry>>
    BY <1>12 DEF Forget
  <2>2. defs \subseteq Defs /\ (~overlap => defs = tools)
    BY <1>5, <1>6, <2>1 DEF Syncs
  <2> HIDE DEF defs
  <2>3. /\ local \in Locals /\ local.at = "register" /\ local.todo = defs
        /\ local.answered = op[o].answered /\ local.def = op[o].def
    BY <1>1, <2>2 DEF Locals, Places
  <2> HIDE DEF local
  <2>4. ~overlap => registry \subseteq OwnTools
    BY <1>5, <2>1 DEF Syncs
  <2>5. ~overlap => ToolsAgree'
    BY <1>5, <2>1, <2>4 DEF ToolsAgree
  <2>6. ~overlap => Syncs(local, tools', registry', OnlineClients')
    BY <1>5, <2>1, <2>2, <2>3 DEF Syncs
  <2>7. QED
    BY <1>3, <1>4, <2>1, <2>3, <2>5, <2>6, SerialStays
<1>13. CASE Register(o)
  <2>1. PICK d \in op[o].todo :
          /\ registry' = {e \in registry : e.name # d.name} \cup {d}
          /\ mcpNames' = mcpNames \cup {d.name}
          /\ Becomes(o, [op[o] EXCEPT !.todo = @ \ {d}])
    BY <1>13 DEF Register
  <2> DEFINE todo == op[o].todo \ {d}
             local == [op[o] EXCEPT !.todo = todo]
  <2>2. op[o].at = "register" /\ tools' = tools /\ Becomes(o, local)
    BY <1>13, <2>1 DEF Register
  <2>3. todo \subseteq op[o].todo /\ todo \subseteq Defs
    BY <1>6
  <2> HIDE DEF todo
  <2>4. /\ local \in Locals /\ local.at = "register" /\ local.todo = todo
        /\ local.answered = op[o].answered /\ local.def = op[o].def
    BY <1>1, <2>2, <2>3 DEF Locals, Places
  <2> HIDE DEF local
  <2>5. ~overlap => op[o].todo \subseteq tools
    BY <1>5, <2>2 DEF Syncs
  <2>6. ~overlap => \A p \in Goroutines : op[p].at # "unregister"
    BY <1>4, <2>2 DEF Busy
  <2>7. ~overlap => ToolsAgree'
    <3>1. registry' \ OwnTools \subseteq (registry \ OwnTools) \cup {d}
      BY <2>1
    <3>2. ~overlap => registry' \ OwnTools \subseteq tools
      BY <1>5, <2>1, <2>5, <2>6, <3>1 DEF ToolsAgree
    <3>3. ~overlap => \A e \in registry' \ OwnTools : e.name \in mcpNames'
      BY <1>5, <2>1, <3>1 DEF ToolsAgree
    <3>4. QED
      BY <1>5, <2>2, <3>2, <3>3 DEF ToolsAgree
  <2>8. ~overlap => Syncs(local, tools', registry', OnlineClients')
    BY <1>5, <2>2, <2>3, <2>4, <2>5 DEF Syncs
  <2>9. QED
    BY <1>3, <1>4, <2>2, <2>4, <2>7, <2>8, SerialStays
<1>14. QED
  BY <1>8, <1>9, <1>10, <1>11, <1>12, <1>13

(* A call finds the route of its tool, and no other tool of its name.      *)
LEMMA SerialCalls ==
  ASSUME ManagerInv, SerialInv, NEW o \in Goroutines, Route(o) \/ Send(o) \/ AskAll(o)
  PROVE  SerialInv'
<1>1. op[o] \in Locals
  BY LocalsTyped
<1>2. op[o].at \in {"route", "send"}
  BY DEF Route, Send, AskAll
<1>3. UNCHANGED <<tools, registry, mcpNames, overlap>>
  BY DEF Route, Send, AskAll, managerVars, ghostVars
<1>4. ~overlap => Busy \subseteq {o}
  BY <1>2, WorksAlone DEF Busy
<1>5. ~overlap => Distinct(tools) /\ Syncs(op[o], tools, registry, OnlineClients)
  BY DEF SerialInv, ToolsAgree
<1>6. CASE Route(o)
  <2>1. PICK d \in tools : /\ d.name = op[o].def.name
                           /\ Becomes(o, [op[o] EXCEPT !.at = "send", !.server = d.server])
    BY <1>6 DEF Route
  <2> DEFINE s == d.server
             local == [op[o] EXCEPT !.at = "send", !.server = s]
  <2>2. s \in Servers /\ op[o].at = "route"
    BY <1>6 DEF ManagerInv, ToolsTyped, Defs, Route
  <2>3. Becomes(o, local)
    BY <2>1
  <2>4. ~overlap => op[o].def \in tools /\ s = op[o].def.server
    BY <1>5, <2>1, <2>2 DEF Distinct, Syncs
  <2> HIDE DEF s
  <2>5. /\ local \in Locals /\ local.at = "send" /\ local.server = s
        /\ local.answered = op[o].answered /\ local.def = op[o].def
    BY <1>1, <2>2 DEF Locals, Places
  <2> HIDE DEF local
  <2>6. ~overlap => Syncs(local, tools, registry, OnlineClients')
    BY <1>5, <2>4, <2>5 DEF Syncs
  <2>7. QED
    BY <1>2, <1>3, <1>4, <2>3, <2>5, <2>6, SerialMoves
<1>7. ASSUME NEW s \in Servers \cup {None}, ~overlap => s = op[o].def.server,
             Becomes(o, Over) \/ Becomes(o, Answered(o, s))
      PROVE  SerialInv'
  <2> DEFINE local == Answered(o, s)
  <2>1. op[o].def \in Defs \cup {None}
    BY <1>1 DEF Locals
  <2>2. /\ local \in Locals /\ local.at = "done" /\ local.answered = s /\ local.def = op[o].def
    BY <2>1, OverTyped DEF Answered, Locals
  <2>3. Over.answered = None
    BY DEF Over, Idle
  <2>4. Becomes(o, Over) \/ Becomes(o, local)
    BY <1>7
  <2> HIDE DEF local
  <2>5. ~overlap => Syncs(local, tools, registry, OnlineClients')
    BY <1>7, <2>2 DEF Syncs
  <2>6. CASE Becomes(o, local)
    BY <1>2, <1>3, <1>4, <2>2, <2>5, <2>6, SerialMoves
  <2>7. CASE Becomes(o, Over)
    BY <1>2, <1>3, <1>4, <2>3, <2>7, OverTyped, SerialQuiet DEF Quiet
  <2>8. QED
    BY <2>4, <2>6, <2>7
<1>8. CASE Send(o)
  <2>1. op[o].server \in Servers \cup {None} /\ op[o].at = "send"
    BY <1>1, <1>8 DEF Locals, Send
  <2>2. ~overlap => op[o].server = op[o].def.server
    BY <1>5, <2>1 DEF Syncs
  <2>3. QED
    BY <1>7, <1>8, <2>1, <2>2 DEF Send
<1>9. CASE AskAll(o)
  <2>1. op[o].at = "route" /\ \A d \in tools : d.name # op[o].def.name
    BY <1>9 DEF AskAll
  <2>2. overlap
    BY <1>5, <2>1 DEF Syncs
  <2>3. PICK s \in Servers \cup {None} : Becomes(o, Over) \/ Becomes(o, Answered(o, s))
    <3>1. \A c \in OnlineClients : client[c].server \in Servers
      BY DEF ManagerInv, MapsServe, OnlineClients
    <3>2. QED
      BY <1>9, <3>1 DEF AskAll
  <2>4. QED
    BY <1>7, <2>2, <2>3
<1>10. QED
  BY <1>6, <1>8, <1>9

LEMMA SerialInductive ==
  ASSUME ManagerInv, SerialInv, [Next]_vars
  PROVE  SerialInv'
<1>1. ASSUME NEW listed \in BOOLEAN, NEW read \in SUBSET DOMAIN Yaml, NEW saved \in SUBSET DOMAIN Yaml,
             Boot(listed, read, saved)
      PROVE  SerialInv'
  BY <1>1, SerialBoots
<1>2. CASE Die
  BY <1>2, SerialDies
<1>3. ASSUME NEW o \in Ops, Request(o) PROVE SerialInv'
  BY <1>3, SerialRequests
<1>4. ASSUME NEW o \in Goroutines, Step(o) PROVE SerialInv'
  <2>1. CASE Remove(o) \/ Configure(o) \/ CloseOld(o) \/ InitializeFails(o) \/ Store(o) \/ Finish(o)
             \/ (\E c \in ClientIds, warm \in BOOLEAN : InitializeOne(o, c, warm)) \/ Registered(o)
    BY <2>1, SerialServes
  <2>2. CASE Snapshot(o) \/ List(o) \/ Publish(o) \/ Unregister(o) \/ Forget(o) \/ Register(o)
    BY <2>2, SerialRefreshes
  <2>3. CASE Route(o) \/ Send(o) \/ AskAll(o)
    BY <2>3, SerialCalls
  <2>4. QED
    BY <1>4, <2>1, <2>2, <2>3 DEF Step
<1>5. CASE UNCHANGED vars
  BY <1>5 DEF vars, managerVars, ghostVars, SerialInv, ToolsAgree, Busy, OnlineClients
<1>6. QED
  BY <1>1, <1>2, <1>3, <1>4, <1>5 DEF Next

(* Between requests that follow one another a call (manager.go, CallTool)  *)
(* is answered by the server whose tool it is.                             *)
THEOREM CallsReach == Spec => []CallsReachTheirServer
<1>1. SerialInv => CallsReachTheirServer
  BY MainIsNoRequest DEF SerialInv, Syncs, CallsReachTheirServer
<1>2. Init /\ ManagerInv => SerialInv
  BY SerialInitially
<1>3. ManagerInv /\ SerialInv /\ [Next]_vars => SerialInv'
  BY SerialInductive
<1>4. QED
  BY <1>1, <1>2, <1>3, ManagerInvariant, PTL DEF Spec

--------------------------------------------------------------------------------
(* Stored servers, between requests that follow one another *)

(* A server to be started is to be as it is stored, if it is enabled, and  *)
(* is stored and enabled or in the configuration file, unless it strays.    *)
StartsAsStored(l, s, stored, out) ==
  s \notin out =>
    /\ Enabled(stored[s]) => l.cfgs[s] = stored[s]
    /\ l.cfgs[s].on => Enabled(stored[s]) \/ s \in DOMAIN Yaml

(* What is left for a goroutine to start and to remove.  One disabled      *)
(* server comes alone, and so does one that is installed.                  *)
Keeps(l, stored, out) ==
  /\ l.at \in {"idle", "done", "route", "send"} \/ l.kind = "call" => l.adds = {} /\ l.removes = {}
  /\ l.at \in {"close", "init", "store"} =>
       /\ l.removes = {} /\ (l.kind = "install" => l.adds = {})
       /\ StartsAsStored(l, l.server, stored, out) /\ l.cfgs[l.server].on
  /\ \A s \in l.adds : StartsAsStored(l, s, stored, out) /\ (l.cfgs[s].on \/ l.adds = {s})
  /\ \A s \in l.removes \ out : ~Enabled(stored[s])
  /\ l.kind = "install" => \A s, t \in l.adds : s = t

(* A stored server is configured as it is stored, or waits to be, and one  *)
(* that is online is wanted, or waits to be removed.                       *)
MapsFit(l, stored, cfgs, online, out) ==
  \A s \in Servers \ out :
    /\ Enabled(stored[s]) => cfgs[s] = stored[s] \/ s \in l.adds
    /\ online[s] # None =>
         \/ Enabled(stored[s]) \/ s \in DOMAIN Yaml
         \/ s \in l.removes \/ (s \in l.adds /\ ~l.cfgs[s].on)

KeepInv ==
  ~overlap =>
    /\ \A o \in Goroutines : Keeps(op[o], repo, strays)
    /\ ~At(Main, "idle") =>
         \A s \in Servers \ strays :
           /\ Enabled(repo[s]) => configs[s] = repo[s] \/ \E o \in Goroutines : s \in op[o].adds
           /\ clients[s] # None =>
                \/ Enabled(repo[s]) \/ s \in DOMAIN Yaml
                \/ \E o \in Goroutines :
                     s \in op[o].removes \/ (s \in op[o].adds /\ ~op[o].cfgs[s].on)

(* What is left is left for the goroutine at work. *)
LEMMA KeptNow ==
  ASSUME KeepInv, ~overlap, NEW o \in Goroutines, Busy \subseteq {o}, ~At(Main, "idle")
  PROVE  Keeps(op[o], repo, strays) /\ MapsFit(op[o], repo, configs, clients, strays)
<1>1. \A p \in Goroutines : p # o => op[p].at \in {"idle", "done"}
  BY DEF Busy
<1>2. \A p \in Goroutines : p # o => op[p].adds = {} /\ op[p].removes = {}
  BY <1>1 DEF KeepInv, Keeps
<1>3. QED
  BY <1>2 DEF KeepInv, MapsFit

LEMMA KeptStays ==
  ASSUME ManagerInv, KeepInv, NEW o \in Goroutines, NEW local \in Locals, Becomes(o, local),
         ~overlap' => /\ ~overlap /\ Busy \subseteq {o}
                      /\ Keeps(local, repo', strays') /\ MapsFit(local, repo', configs', clients', strays')
  PROVE  KeepInv'
<1>1. /\ op'[o] = local
      /\ \A p \in Goroutines : p # o => op'[p] = op[p]
  BY LocalsTyped, ManagerBecomes
<1> SUFFICES ASSUME ~overlap' PROVE KeepInv'
  BY DEF KeepInv
<1>2. \A p \in Goroutines : p # o =>
        op[p].at \in {"idle", "done"} /\ op[p].adds = {} /\ op[p].removes = {}
  BY DEF Busy, KeepInv, Keeps
<1>3. \A p \in Goroutines : p # o /\ op[p].kind = "install" => \A s, t \in op[p].adds : s = t
  BY <1>2
<1>4. ASSUME NEW p \in Goroutines PROVE Keeps(op'[p], repo', strays')
  <2>1. CASE p = o
    BY <1>1, <2>1
  <2>2. CASE p # o
    BY <1>1, <1>2, <2>2 DEF Keeps
  <2>3. QED
    BY <2>1, <2>2
<1>5. ASSUME NEW s \in Servers \ strays'
      PROVE  /\ Enabled(repo'[s]) => configs'[s] = repo'[s] \/ \E p \in Goroutines : s \in op'[p].adds
             /\ clients'[s] # None =>
                  \/ Enabled(repo'[s]) \/ s \in DOMAIN Yaml
                  \/ \E p \in Goroutines :
                       s \in op'[p].removes \/ (s \in op'[p].adds /\ ~op'[p].cfgs[s].on)
  BY <1>1 DEF MapsFit
<1>6. QED
  BY <1>4, <1>5 DEF KeepInv, Enabled

(* A step within a refresh or a call. *)
LEMMA KeptQuiet ==
  ASSUME ManagerInv, SerialInv, KeepInv, NEW o \in Goroutines, NEW local \in Locals,
         Becomes(o, local), op[o].at \notin {"idle", "done"},
         UNCHANGED <<repo, configs, clients, overlap, strays>>,
         \/ /\ local.at \in {"next", "snap", "list", "publish", "unregister", "forget", "register"}
            /\ local.adds = op[o].adds /\ local.removes = op[o].removes
            /\ local.cfgs = op[o].cfgs /\ local.kind = op[o].kind
         \/ /\ local.adds = {} /\ local.removes = {} /\ op[o].adds = {} /\ op[o].removes = {}
            /\ local.at \notin {"close", "init", "store"}
  PROVE  KeepInv'
<1>1. o \in Busy /\ ~At(Main, "idle")
  BY WorkIsAfterBoot DEF Busy
<1>2. ~overlap => Busy \subseteq {o}
  BY <1>1, WorksAlone
<1>3. ~overlap => Keeps(op[o], repo, strays) /\ MapsFit(op[o], repo, configs, clients, strays)
  BY <1>1, <1>2, KeptNow
<1>4. ~overlap => Keeps(local, repo, strays)
  BY <1>3 DEF Keeps, StartsAsStored
<1>5. ~overlap => MapsFit(local, repo, configs, clients, strays)
  BY <1>3 DEF MapsFit
<1>6. QED
  BY <1>2, <1>4, <1>5, KeptStays

LEMMA KeptInitially == Init => KeepInv
<1> SUFFICES ASSUME Init PROVE KeepInv
  OBVIOUS
<1>1. \A o \in Goroutines : op[o] = Idle
  BY DEF Init
<1>2. Idle.at = "idle" /\ Idle.adds = {} /\ Idle.removes = {} /\ Idle.kind # "install"
  BY ManagerAssumption DEF Idle
<1>3. QED
  BY <1>1, <1>2, MainIsNoRequest DEF KeepInv, Keeps

LEMMA KeptDies ==
  ASSUME ManagerInv, Die
  PROVE  KeepInv'
<1> DEFINE over == [Idle EXCEPT !.at = "done"]
<1>1. over.at = "done" /\ over.adds = {} /\ over.removes = {}
  BY DEF Idle
<1>2. Idle.at = "idle" /\ Idle.adds = {} /\ Idle.removes = {}
  BY DEF Idle
<1>3. op' = [o \in Goroutines |-> IF o = Main \/ op[o].at = "idle" THEN Idle ELSE over]
  BY DEF Die
<1> HIDE DEF over
<1>4. \A o \in Goroutines : /\ op'[o].at \in {"idle", "done"}
                            /\ op'[o].adds = {} /\ op'[o].removes = {}
  BY <1>1, <1>2, <1>3
<1>5. op'[Main].at = "idle"
  BY <1>2, <1>3, MainIsNoRequest
<1>6. QED
  BY <1>4, <1>5 DEF KeepInv, Keeps

(* The process starts all that is stored and enabled, and what is in the   *)
(* configuration file.                                                     *)
LEMMA KeptBoots ==
  ASSUME ManagerInv, KeepInv,
         NEW listed \in BOOLEAN, NEW read \in SUBSET DOMAIN Yaml, NEW saved \in SUBSET DOMAIN Yaml,
         Boot(listed, read, saved)
  PROVE  KeepInv'
<1> DEFINE merged == [s \in Servers |-> Merged(s, listed)]
           starts == {s \in Servers : Enabled(merged[s])}
           local == [Idle EXCEPT !.at = "next", !.kind = "boot", !.cfgs = merged,
                                 !.adds = starts, !.refresh = TRUE]
<1>1. /\ op[Main].at = "idle" /\ configs' = merged /\ Becomes(Main, local)
      /\ repo' = [s \in Servers |->
                    IF s \in saved /\ (s \in read => repo[s] = None) THEN Yaml[s] ELSE repo[s]]
      /\ strays' = {s \in Servers :
                      repo[s] # None /\ ~(listed /\ (s \in DOMAIN Yaml => s \in read))}
      /\ UNCHANGED <<clients, overlap>>
  BY DEF Boot
<1>2. merged \in [Servers -> ServerConfigs \cup {None}] /\ starts \subseteq Servers
  BY MergedTyped
<1>3. \A s \in Servers : merged[s] = IF listed /\ Enabled(repo[s]) THEN repo[s]
                                     ELSE IF s \in DOMAIN Yaml THEN Yaml[s] ELSE None
  BY DEF Merged
<1>4. \A s \in starts : s \in Servers /\ Enabled(merged[s])
  OBVIOUS
<1>5. \A s \in Servers : Enabled(merged[s]) => s \in starts
  OBVIOUS
<1> HIDE DEF merged, starts
<1>6. /\ local \in Locals /\ local.at = "next" /\ local.removes = {} /\ local.kind = "boot"
      /\ local.adds = starts /\ local.cfgs = merged
  BY <1>2 DEF Idle, Locals, Places, Nothing
<1> HIDE DEF local
<1>7. Busy = {} /\ \A s \in Servers : clients[s] = None
  BY <1>1 DEF ManagerInv, NothingBeforeBoot, Busy
<1>8. \A s \in Servers \ strays' : /\ Enabled(repo[s]) => Enabled(repo'[s])
                                   /\ Enabled(repo'[s]) => merged[s] = repo'[s]
  <2> TAKE s \in Servers \ strays'
  <2>1. repo'[s] = IF s \in saved /\ (s \in read => repo[s] = None) THEN Yaml[s] ELSE repo[s]
    BY <1>1
  <2>2. repo[s] = None \/ (listed /\ (s \in DOMAIN Yaml => s \in read))
    BY <1>1
  <2>3. s \in saved => s \in DOMAIN Yaml
    OBVIOUS
  <2>4. QED
    BY <1>3, <2>1, <2>2, <2>3 DEF Enabled
<1>9. Keeps(local, repo', strays')
  <2>1. ASSUME NEW s \in starts PROVE StartsAsStored(local, s, repo', strays') /\ local.cfgs[s].on
    <3>1. Enabled(merged[s]) => Enabled(repo[s]) \/ s \in DOMAIN Yaml
      BY <1>3, <1>4 DEF Enabled
    <3>2. s \in Servers /\ merged[s] # None /\ merged[s].on
      BY <1>4 DEF Enabled
    <3>3. QED
      BY <1>6, <1>8, <3>1, <3>2 DEF StartsAsStored, Enabled
  <2>2. QED
    BY <1>6, <2>1 DEF Keeps
<1>10. MapsFit(local, repo', configs', clients', strays')
  BY <1>1, <1>7, <1>8 DEF MapsFit
<1>11. QED
  BY <1>1, <1>6, <1>7, <1>9, <1>10, MainIsNoRequest, KeptStays

LEMMA KeptRequests ==
  ASSUME ManagerInv, KeepInv, NEW o \in Ops, Request(o)
  PROVE  KeepInv'
<1>1. o \in Goroutines
  BY MainIsNoRequest
<1>2. repo \in [Servers -> ServerConfigs \cup {None}]
  BY DEF ManagerInv, MapsTyped
<1>3. /\ op[o].at = "idle" /\ op[Main].at = "done" /\ overlap' = (overlap \/ Busy # {})
      /\ UNCHANGED <<configs, clients>>
  BY DEF Request, InstallCustom, Delete, Reload, Refuse, ListTools, Call, Arrives, managerVars
<1>4. ~overlap' => ~overlap /\ Busy = {}
  <2>1. CASE overlap
    BY <1>3, <2>1
  <2>2. CASE ~overlap
    BY <1>3, <2>2
  <2>3. QED
    BY <2>1, <2>2
<1>5. ~overlap' =>
        \A s \in Servers \ strays :
                           /\ Enabled(repo[s]) => configs[s] = repo[s]
                           /\ clients[s] # None => Enabled(repo[s]) \/ s \in DOMAIN Yaml
  BY <1>1, <1>3, <1>4, KeptNow DEF MapsFit, Keeps
<1>6. ASSUME NEW s \in Servers, NEW cfg \in Configs, InstallCustom(o, s, cfg)
      PROVE  KeepInv'
  <2> DEFINE cfgs == [Nothing EXCEPT ![s] = cfg]
             local == [Idle EXCEPT !.at = "next", !.kind = "install", !.adds = {s},
                                   !.cfgs = cfgs, !.refresh = TRUE]
  <2>1. Becomes(o, local) /\ repo' = [repo EXCEPT ![s] = cfg] /\ strays' = strays \ {s}
    BY <1>6 DEF InstallCustom
  <2>2. cfgs \in [Servers -> ServerConfigs \cup {None}] /\ cfgs[s] = cfg /\ cfg # None
    BY ManagerAssumption DEF Nothing
  <2> HIDE DEF cfgs
  <2>3. /\ local \in Locals /\ local.at = "next" /\ local.adds = {s} /\ local.removes = {}
        /\ local.cfgs = cfgs /\ local.kind = "install"
    BY <2>2 DEF Idle, Locals, Places, Nothing
  <2> HIDE DEF local
  <2>4. repo'[s] = cfg /\ \A t \in Servers : t # s => repo'[t] = repo[t]
    BY <1>2, <2>1
  <2>5. Keeps(local, repo', strays')
    BY <2>2, <2>3, <2>4 DEF Keeps, StartsAsStored, Enabled
  <2>6. ~overlap' => MapsFit(local, repo', configs', clients', strays')
    <3> SUFFICES ASSUME ~overlap', NEW t \in Servers \ strays'
                 PROVE  /\ Enabled(repo'[t]) => configs'[t] = repo'[t] \/ t \in local.adds
                        /\ clients'[t] # None =>
                             \/ Enabled(repo'[t]) \/ t \in DOMAIN Yaml
                             \/ t \in local.removes \/ (t \in local.adds /\ ~local.cfgs[t].on)
      BY DEF MapsFit
    <3>1. CASE t = s
      BY <2>2, <2>3, <2>4, <3>1 DEF Enabled
    <3>2. CASE t # s
      BY <1>3, <1>5, <2>1, <2>4, <3>2
    <3>3. QED
      BY <3>1, <3>2
  <2>7. QED
    BY <1>1, <1>4, <2>1, <2>3, <2>5, <2>6, KeptStays
<1>7. ASSUME NEW s \in Servers, NEW deleted \in BOOLEAN, Delete(o, s, deleted)
      PROVE  KeepInv'
  <2> DEFINE local == [Idle EXCEPT !.at = "next", !.removes = {s}]
  <2>1. /\ Becomes(o, local)
        /\ \/ repo' = [repo EXCEPT ![s] = None] /\ strays' = strays \ {s}
           \/ repo' = repo /\ strays' = strays \cup {s}
    BY <1>7 DEF Delete
  <2>2. /\ local \in Locals /\ local.at = "next" /\ local.adds = {} /\ local.removes = {s}
        /\ local.kind = None
    BY DEF Idle, Locals, Places, Nothing
  <2> HIDE DEF local
  <2>3. /\ s \notin strays' => repo'[s] = None
        /\ \A t \in Servers : t # s => repo'[t] = repo[t] /\ (t \in strays' <=> t \in strays)
    BY <1>2, <2>1
  <2>4. Keeps(local, repo', strays')
    BY <2>2, <2>3, ManagerAssumption DEF Keeps, Enabled
  <2>5. ~overlap' => MapsFit(local, repo', configs', clients', strays')
    <3> SUFFICES ASSUME ~overlap', NEW t \in Servers \ strays'
                 PROVE  /\ Enabled(repo'[t]) => configs'[t] = repo'[t]
                        /\ clients'[t] # None =>
                             Enabled(repo'[t]) \/ t \in DOMAIN Yaml \/ t \in local.removes
      BY DEF MapsFit
    <3>1. CASE t = s
      BY <2>2, <2>3, <3>1 DEF Enabled
    <3>2. CASE t # s
      BY <1>3, <1>5, <2>3, <3>2
    <3>3. QED
      BY <3>1, <3>2
  <2>6. QED
    BY <1>1, <1>4, <2>1, <2>2, <2>4, <2>5, KeptStays
<1>8. CASE Reload(o)
  <2> DEFINE wanted == {s \in Servers : Enabled(repo[s])}
             gone == {s \in Servers : clients[s] # None} \ wanted
             local == [Idle EXCEPT !.at = "next", !.adds = wanted, !.cfgs = repo,
                                   !.removes = gone, !.refresh = TRUE]
  <2>1. Becomes(o, local) /\ repo' = repo /\ strays' = {}
    BY <1>8 DEF Reload
  <2>2. /\ wanted \subseteq Servers /\ gone \subseteq Servers
        /\ \A s \in wanted : Enabled(repo[s])
        /\ \A s \in gone : ~Enabled(repo[s])
        /\ \A s \in Servers : /\ Enabled(repo[s]) => s \in wanted
                              /\ clients[s] # None => s \in wanted \/ s \in gone
    OBVIOUS
  <2> HIDE DEF wanted, gone
  <2>3. /\ local \in Locals /\ local.at = "next" /\ local.adds = wanted /\ local.removes = gone
        /\ local.cfgs = repo /\ local.kind = None
    BY <1>2, <2>2 DEF Idle, Locals, Places, Nothing
  <2> HIDE DEF local
  <2>4. Keeps(local, repo', strays')
    BY <2>1, <2>2, <2>3, ManagerAssumption DEF Keeps, StartsAsStored, Enabled
  <2>5. ~overlap' => MapsFit(local, repo', configs', clients', strays')
    BY <1>3, <1>5, <2>1, <2>2, <2>3 DEF MapsFit
  <2>6. QED
    BY <1>1, <1>4, <2>1, <2>3, <2>4, <2>5, KeptStays
<1>9. CASE ListTools(o) \/ Call(o) \/ Refuse(o)
  <2>1. PICK local \in Locals : /\ Becomes(o, local) /\ local.adds = {} /\ local.removes = {}
                                /\ local.at \in {"snap", "route", "done"}
    <3>1. CASE ListTools(o)
      <4> DEFINE local == [Idle EXCEPT !.at = "snap"]
      <4>1. Becomes(o, local)
        BY <3>1 DEF ListTools
      <4>2. local \in Locals /\ local.adds = {} /\ local.removes = {} /\ local.at = "snap"
        BY DEF Idle, Locals, Places, Nothing
      <4>3. QED
        BY <4>1, <4>2
    <3>2. CASE Call(o)
      <4>1. PICK d \in registry \ OwnTools :
              Becomes(o, [Idle EXCEPT !.at = "route", !.kind = "call", !.def = d])
        BY <3>2 DEF Call
      <4> DEFINE local == [Idle EXCEPT !.at = "route", !.kind = "call", !.def = d]
      <4>2. d \in Defs
        BY DEF ManagerInv, ToolsTyped
      <4>3. Becomes(o, local)
        BY <4>1
      <4>4. local \in Locals /\ local.adds = {} /\ local.removes = {} /\ local.at = "route"
        BY <4>2 DEF Idle, Locals, Places, Nothing
      <4>5. QED
        BY <4>3, <4>4
    <3>3. CASE Refuse(o)
      BY <3>3, OverTyped DEF Refuse, Over, Idle
    <3>4. QED
      BY <1>9, <3>1, <3>2, <3>3
  <2>2. repo' = repo /\ strays' = strays
    BY <1>9 DEF ListTools, Call, Refuse
  <2>3. Keeps(local, repo', strays')
    BY <2>1 DEF Keeps
  <2>4. ~overlap' => MapsFit(local, repo', configs', clients', strays')
    BY <1>3, <1>5, <2>2 DEF MapsFit
  <2>5. QED
    BY <1>1, <1>4, <2>1, <2>3, <2>4, KeptStays
<1>10. QED
  BY <1>6, <1>7, <1>8, <1>9 DEF Request

(* Servers are removed, configured and started. *)
LEMMA KeptServes ==
  ASSUME ManagerInv, SerialInv, KeepInv, NEW o \in Goroutines,
         Remove(o) \/ Configure(o) \/ CloseOld(o) \/ InitializeFails(o) \/ Store(o) \/ Finish(o)
         \/ \E c \in ClientIds, warm \in BOOLEAN : InitializeOne(o, c, warm)
  PROVE  KeepInv'
<1>1. op[o] \in Locals /\ IsConsistent(op[o])
  BY LocalsTyped
<1>2. op[o].at \in {"next", "close", "init", "store"}
  BY DEF Remove, Configure, CloseOld, InitializeFails, Store, Finish, InitializeOne
<1>3. UNCHANGED <<repo, overlap, strays>>
  BY DEF Remove, Configure, CloseOld, InitializeFails, Store, Finish, InitializeOne,
     managerVars, ghostVars
<1>4. o \in Busy /\ ~At(Main, "idle")
  BY <1>2, WorkIsAfterBoot DEF Busy
<1>5. ~overlap => Busy \subseteq {o}
  BY <1>4, WorksAlone
<1>6. ~overlap => Keeps(op[o], repo, strays) /\ MapsFit(op[o], repo, configs, clients, strays)
  BY <1>4, <1>5, KeptNow
<1>7. ASSUME NEW local \in Locals, Becomes(o, local),
             ~overlap => Keeps(local, repo, strays) /\ MapsFit(local, repo, configs', clients', strays)
      PROVE  KeepInv'
  BY <1>3, <1>5, <1>7, KeptStays
<1>8. /\ clients \in [Servers -> ClientIds \cup {None}]
      /\ configs \in [Servers -> ServerConfigs \cup {None}]
  BY DEF ManagerInv, MapsTyped
<1>9. CASE Remove(o)
  <2>1. PICK s \in op[o].removes :
          /\ clients' = [clients EXCEPT ![s] = None] /\ configs' = [configs EXCEPT ![s] = None]
          /\ Becomes(o, [op[o] EXCEPT !.at = "snap", !.removes = @ \ {s}])
    BY <1>9 DEF Remove, Drop
  <2> DEFINE local == [op[o] EXCEPT !.at = "snap", !.removes = @ \ {s}]
  <2>2. /\ local \in Locals /\ local.at = "snap" /\ local.adds = op[o].adds
        /\ local.removes = op[o].removes \ {s} /\ local.cfgs = op[o].cfgs
        /\ local.kind = op[o].kind
    BY <1>1 DEF Locals, Places
  <2>3. Becomes(o, local) /\ s \in Servers
    BY <1>1, <2>1 DEF Locals
  <2> HIDE DEF local
  <2>4. ~overlap => Keeps(local, repo, strays)
    BY <1>6, <2>2 DEF Keeps, StartsAsStored
  <2>5. /\ clients'[s] = None
        /\ \A t \in Servers : t # s => clients'[t] = clients[t] /\ configs'[t] = configs[t]
    BY <1>8, <2>1, <2>3
  <2>6. ~overlap => (s \notin strays => ~Enabled(repo[s]))
    BY <1>6, <2>1 DEF Keeps
  <2>7. ~overlap => MapsFit(local, repo, configs', clients', strays)
    BY <1>6, <2>2, <2>5, <2>6 DEF MapsFit
  <2>8. QED
    BY <1>7, <2>2, <2>3, <2>4, <2>7
<1>10. CASE Configure(o)
  <2>1. PICK s \in op[o].adds :
          /\ configs' = [configs EXCEPT ![s] = op[o].cfgs[s]]
          /\ Becomes(o, IF op[o].cfgs[s].on
                        THEN [op[o] EXCEPT !.at = "close", !.adds = @ \ {s}, !.server = s]
                        ELSE [op[o] EXCEPT !.adds = {}, !.removes = {s}, !.refresh = FALSE])
    BY <1>10 DEF Configure
  <2> DEFINE starts == [op[o] EXCEPT !.at = "close", !.adds = @ \ {s}, !.server = s]
             drops == [op[o] EXCEPT !.adds = {}, !.removes = {s}, !.refresh = FALSE]
  <2>2. s \in Servers /\ op[o].at = "next" /\ op[o].removes = {} /\ clients' = clients
    BY <1>1, <1>10 DEF Locals, Configure
  <2>3. configs'[s] = op[o].cfgs[s] /\ \A t \in Servers : t # s => configs'[t] = configs[t]
    BY <1>8, <2>1, <2>2
  <2>4. ~overlap => StartsAsStored(op[o], s, repo, strays) /\ (op[o].cfgs[s].on \/ op[o].adds = {s})
    BY <1>6 DEF Keeps
  <2>5. CASE op[o].cfgs[s].on
    <3>1. Becomes(o, starts)
      BY <2>1, <2>5
    <3>2. /\ starts \in Locals /\ starts.at = "close" /\ starts.adds = op[o].adds \ {s}
          /\ starts.removes = {} /\ starts.cfgs = op[o].cfgs /\ starts.server = s
          /\ starts.kind = op[o].kind
      BY <1>1, <2>2 DEF Locals, Places
    <3> HIDE DEF starts
    <3>3. ~overlap => (op[o].kind = "call" => op[o].adds = {})
      BY <1>6 DEF Keeps
    <3>4. ~overlap => (op[o].kind = "install" => op[o].adds \ {s} = {})
      BY <1>6 DEF Keeps
    <3>5. ~overlap => \A t \in op[o].adds : StartsAsStored(starts, t, repo, strays)
                                            /\ (op[o].cfgs[t].on \/ op[o].adds = {t})
      BY <1>6, <3>2 DEF Keeps, StartsAsStored
    <3>6. ~overlap => Keeps(starts, repo, strays)
      BY <2>5, <3>2, <3>3, <3>4, <3>5 DEF Keeps
    <3>7. ~overlap => MapsFit(starts, repo, configs', clients', strays)
      BY <1>6, <2>2, <2>3, <2>4, <2>5, <3>2 DEF MapsFit, StartsAsStored
    <3>8. QED
      BY <1>7, <3>1, <3>2, <3>6, <3>7
  <2>6. CASE ~op[o].cfgs[s].on
    <3>1. Becomes(o, drops)
      BY <2>1, <2>6
    <3>2. /\ drops \in Locals /\ drops.at = "next" /\ drops.adds = {} /\ drops.removes = {s}
          /\ drops.kind = op[o].kind
      BY <1>1, <2>2 DEF Locals, Places
    <3> HIDE DEF drops
    <3>3. ~overlap => (s \notin strays => ~Enabled(repo[s])) /\ op[o].adds = {s}
      BY <2>4, <2>6 DEF StartsAsStored, Enabled
    <3>4. ~overlap => op[o].kind # "call"
      BY <1>6 DEF Keeps
    <3>5. ~overlap => Keeps(drops, repo, strays)
      BY <3>2, <3>3, <3>4 DEF Keeps
    <3>6. ~overlap => MapsFit(drops, repo, configs', clients', strays)
      BY <1>6, <2>2, <2>3, <3>2, <3>3 DEF MapsFit
    <3>7. QED
      BY <1>7, <3>1, <3>2, <3>5, <3>6
  <2>7. QED
    BY <2>5, <2>6
<1>11. CASE CloseOld(o)
  <2> DEFINE local == [op[o] EXCEPT !.at = "init"]
  <2>1. /\ Becomes(o, local) /\ op[o].at = "close" /\ configs' = configs
        /\ clients' = [clients EXCEPT ![op[o].server] = None]
    BY <1>11 DEF CloseOld, Drop
  <2>2. /\ local \in Locals /\ local.at = "init" /\ local.adds = op[o].adds
        /\ local.removes = op[o].removes /\ local.cfgs = op[o].cfgs /\ local.kind = op[o].kind
        /\ local.server = op[o].server
    BY <1>1 DEF Locals, Places
  <2> HIDE DEF local
  <2>3. ~overlap => Keeps(local, repo, strays)
    BY <1>6, <2>1, <2>2 DEF Keeps, StartsAsStored
  <2>4. \A t \in Servers : clients'[t] # None => clients[t] # None
    BY <1>8, <2>1
  <2>5. ~overlap => MapsFit(local, repo, configs', clients', strays)
    BY <1>6, <2>1, <2>2, <2>4 DEF MapsFit
  <2>6. QED
    BY <1>7, <2>1, <2>2, <2>3, <2>5
<1>12. CASE InitializeFails(o)
  <2> DEFINE local == [op[o] EXCEPT !.at = "next", !.server = None]
  <2>1. /\ op[o].at = "init" /\ UNCHANGED <<configs, clients>>
        /\ Becomes(o, IF op[o].kind = "install" THEN Over ELSE local)
    BY <1>12 DEF InitializeFails, managerVars
  <2>2. /\ local \in Locals /\ local.at = "next" /\ local.adds = op[o].adds
        /\ local.removes = op[o].removes /\ local.cfgs = op[o].cfgs /\ local.kind = op[o].kind
    BY <1>1 DEF Locals, Places
  <2> HIDE DEF local
  <2>3. CASE op[o].kind # "install"
    <3>1. Becomes(o, local) /\ local.at \notin {"close", "init", "store"}
      BY <2>1, <2>2, <2>3
    <3>2. QED
      BY <1>2, <1>3, <2>1, <2>2, <3>1, KeptQuiet
  <2>4. CASE op[o].kind = "install"
    <3>1. ~overlap => op[o].adds = {} /\ op[o].removes = {}
      BY <1>6, <2>1, <2>4 DEF Keeps
    <3>2. Becomes(o, Over) /\ Over.removes = {}
      BY <2>1, <2>4 DEF Over, Idle
    <3>3. Keeps(Over, repo, strays)
      BY <3>2, OverTyped DEF Keeps
    <3>4. ~overlap => MapsFit(Over, repo, configs', clients', strays)
      BY <1>6, <2>1, <3>1 DEF MapsFit
    <3>5. QED
      BY <1>7, <3>2, <3>3, <3>4, OverTyped
  <2>5. QED
    BY <2>3, <2>4
<1>13. ASSUME NEW c \in ClientIds, NEW warm \in BOOLEAN, InitializeOne(o, c, warm)
       PROVE  KeepInv'
  <2> DEFINE local == [op[o] EXCEPT !.at = "store", !.client = c]
  <2>1. Becomes(o, local) /\ op[o].at = "init" /\ UNCHANGED <<configs, clients>>
    BY <1>13 DEF InitializeOne
  <2>2. /\ local \in Locals /\ local.at = "store" /\ local.adds = op[o].adds
        /\ local.removes = op[o].removes /\ local.cfgs = op[o].cfgs /\ local.kind = op[o].kind
        /\ local.server = op[o].server
    BY <1>1 DEF Locals, Places
  <2> HIDE DEF local
  <2>3. ~overlap => Keeps(local, repo, strays)
    BY <1>6, <2>1, <2>2 DEF Keeps, StartsAsStored
  <2>4. ~overlap => MapsFit(local, repo, configs', clients', strays)
    BY <1>6, <2>1, <2>2 DEF MapsFit
  <2>5. QED
    BY <1>7, <2>1, <2>2, <2>3, <2>4
<1>14. CASE Store(o)
  <2> DEFINE s == op[o].server
             local == [op[o] EXCEPT !.at = "next", !.server = None, !.client = None]
  <2>1. /\ Becomes(o, local) /\ op[o].at = "store"
        /\ clients' = [clients EXCEPT ![s] = op[o].client]
        /\ configs' = [configs EXCEPT ![s] = op[o].cfgs[s]]
    BY <1>14 DEF Store
  <2>2. /\ local \in Locals /\ local.at = "next" /\ local.adds = op[o].adds
        /\ local.removes = op[o].removes /\ local.cfgs = op[o].cfgs /\ local.kind = op[o].kind
    BY <1>1 DEF Locals, Places
  <2> HIDE DEF local
  <2>3. s \in Servers
    BY <1>1, <2>1 DEF IsConsistent
  <2>4. ~overlap => StartsAsStored(op[o], s, repo, strays) /\ op[o].cfgs[s].on
    BY <1>6, <2>1 DEF Keeps
  <2> HIDE DEF s
  <2>5. /\ configs'[s] = op[o].cfgs[s]
        /\ \A t \in Servers : t # s => clients'[t] = clients[t] /\ configs'[t] = configs[t]
    BY <1>8, <2>1, <2>3
  <2>6. ~overlap => Keeps(local, repo, strays)
    BY <1>6, <2>1, <2>2 DEF Keeps, StartsAsStored
  <2>7. ~overlap => MapsFit(local, repo, configs', clients', strays)
    BY <1>6, <2>2, <2>4, <2>5 DEF MapsFit, StartsAsStored
  <2>8. QED
    BY <1>7, <2>1, <2>2, <2>6, <2>7
<1>15. CASE Finish(o)
  <2> DEFINE kind == op[o].kind
             refreshes == [Idle EXCEPT !.at = "snap", !.kind = kind]
             lists == [Idle EXCEPT !.at = "snap"]
  <2>1. /\ Becomes(o, refreshes) \/ Becomes(o, lists) \/ Becomes(o, Over)
        /\ op[o].adds = {} /\ op[o].removes = {} /\ UNCHANGED <<configs, clients>>
    BY <1>15 DEF Finish, managerVars
  <2>2. kind \in {None, "boot", "install", "call"}
    BY <1>1 DEF Locals
  <2> HIDE DEF kind
  <2>3. refreshes \in Locals /\ refreshes.at = "snap" /\ refreshes.adds = {} /\ refreshes.removes = {}
    BY <2>2 DEF Idle, Locals, Places, Nothing
  <2>4. lists \in Locals /\ lists.at = "snap" /\ lists.adds = {} /\ lists.removes = {}
    BY DEF Idle, Locals, Places, Nothing
  <2>5. Over.removes = {}
    BY DEF Over, Idle
  <2> HIDE DEF refreshes, lists
  <2>6. PICK local \in Locals : /\ Becomes(o, local) /\ local.adds = {} /\ local.removes = {}
                                /\ local.at \in {"snap", "done"}
    BY <2>1, <2>3, <2>4, <2>5, OverTyped
  <2>7. local.at \notin {"close", "init", "store"}
    BY <2>6
  <2>8. QED
    BY <1>2, <1>3, <2>1, <2>6, <2>7, KeptQuiet
<1>16. QED
  BY <1>9, <1>10, <1>11, <1>12, <1>13, <1>14, <1>15

(* Refreshing the tools and calling one leave the servers alone. *)
LEMMA KeptRefreshes ==
  ASSUME ManagerInv, SerialInv, KeepInv, NEW o \in Goroutines,
         Snapshot(o) \/ List(o) \/ Publish(o) \/ Unregister(o) \/ Forget(o) \/ Register(o)
         \/ Registered(o)
  PROVE  KeepInv'
<1>1. op[o] \in Locals /\ op[o].defs \subseteq Defs /\ op[o].todo \subseteq Defs
  BY LocalsTyped DEF Locals
<1>2. /\ op[o].at \notin {"idle", "done"} /\ UNCHANGED <<repo, configs, clients, overlap, strays>>
  BY DEF Snapshot, List, Publish, Unregister, Forget, Register, Registered, managerVars, ghostVars
<1>3. PICK local \in Locals :
        /\ Becomes(o, local)
        /\ local.at \in {"next", "list", "publish", "unregister", "forget", "register"}
        /\ local.adds = op[o].adds /\ local.removes = op[o].removes
        /\ local.cfgs = op[o].cfgs /\ local.kind = op[o].kind
  <2>1. CASE Snapshot(o)
    <3> DEFINE online == OnlineClients
               local == [op[o] EXCEPT !.at = "list", !.snap = online]
    <3>1. Becomes(o, local) /\ online \subseteq ClientIds
      BY <2>1 DEF Snapshot, ManagerInv, MapsTyped, OnlineClients
    <3> HIDE DEF online
    <3>2. /\ local \in Locals /\ local.at = "list" /\ local.adds = op[o].adds
          /\ local.removes = op[o].removes /\ local.cfgs = op[o].cfgs /\ local.kind = op[o].kind
      BY <1>1, <3>1 DEF Locals, Places
    <3> HIDE DEF local
    <3>3. QED
      BY <3>1, <3>2
  <2>2. CASE List(o)
    <3>1. PICK listed \in SUBSET op[o].snap :
            Becomes(o, [op[o] EXCEPT !.at = "publish", !.snap = {}, !.defs = DefsOf(listed)])
      BY <2>2 DEF List
    <3> DEFINE defs == DefsOf(listed)
               local == [op[o] EXCEPT !.at = "publish", !.snap = {}, !.defs = defs]
    <3>2. Becomes(o, local) /\ defs \subseteq Defs
      BY <1>1, <3>1, LocalsTyped, DefsTyped DEF Locals
    <3> HIDE DEF defs
    <3>3. /\ local \in Locals /\ local.at = "publish" /\ local.adds = op[o].adds
          /\ local.removes = op[o].removes /\ local.cfgs = op[o].cfgs /\ local.kind = op[o].kind
      BY <1>1, <3>2 DEF Locals, Places
    <3> HIDE DEF local
    <3>4. QED
      BY <3>2, <3>3
  <2>3. CASE Forget(o) \/ Register(o)
    <3>1. PICK at \in {"register"}, todo \in SUBSET Defs, defs \in SUBSET Defs :
            Becomes(o, [op[o] EXCEPT !.at = at, !.todo = todo, !.defs = defs])
      <4>1. CASE Forget(o)
        BY <1>1, <4>1 DEF Forget
      <4>2. CASE Register(o)
        <5>1. PICK d \in op[o].todo : Becomes(o, [op[o] EXCEPT !.todo = @ \ {d}])
          BY <4>2 DEF Register
        <5> DEFINE todo == op[o].todo \ {d}
        <5>2. /\ op[o].at = "register" /\ todo \in SUBSET Defs
              /\ [op[o] EXCEPT !.todo = @ \ {d}]
                   = [op[o] EXCEPT !.at = "register", !.todo = todo, !.defs = op[o].defs]
          BY <1>1, <4>2 DEF Register, Locals
        <5>3. QED
          BY <1>1, <5>1, <5>2
      <4>3. QED
        BY <2>3, <4>1, <4>2
    <3> DEFINE local == [op[o] EXCEPT !.at = at, !.todo = todo, !.defs = defs]
    <3>2. /\ local \in Locals /\ local.at = "register" /\ local.adds = op[o].adds
          /\ local.removes = op[o].removes /\ local.cfgs = op[o].cfgs /\ local.kind = op[o].kind
      BY <1>1, <3>1 DEF Locals, Places
    <3>3. QED
      BY <3>1, <3>2
  <2>4. CASE Publish(o) \/ Unregister(o) \/ Registered(o)
    <3>1. PICK at \in {"unregister", "forget", "next"} : Becomes(o, [op[o] EXCEPT !.at = at])
      BY <2>4 DEF Publish, Unregister, Registered
    <3> DEFINE local == [op[o] EXCEPT !.at = at]
    <3>2. /\ local \in Locals /\ local.at = at /\ local.adds = op[o].adds
          /\ local.removes = op[o].removes /\ local.cfgs = op[o].cfgs /\ local.kind = op[o].kind
      BY <1>1, <3>1 DEF Locals, Places
    <3>3. QED
      BY <3>1, <3>2
  <2>5. QED
    BY <2>1, <2>2, <2>3, <2>4
<1>4. local.at \in {"next", "snap", "list", "publish", "unregister", "forget", "register"}
  BY <1>3
<1>5. QED
  BY <1>2, <1>3, <1>4, KeptQuiet

LEMMA KeptCalls ==
  ASSUME ManagerInv, SerialInv, KeepInv, NEW o \in Goroutines, Route(o) \/ Send(o) \/ AskAll(o)
  PROVE  KeepInv'
<1>1. op[o] \in Locals /\ op[o].def \in Defs \cup {None}
  BY LocalsTyped DEF Locals
<1>2. /\ op[o].at \in {"route", "send"} /\ UNCHANGED <<repo, configs, clients, overlap, strays>>
  BY DEF Route, Send, AskAll, managerVars, ghostVars
<1>3. o \in Busy /\ ~At(Main, "idle")
  BY <1>2, WorkIsAfterBoot DEF Busy
<1>4. ~overlap => /\ Busy \subseteq {o} /\ op[o].adds = {} /\ op[o].removes = {}
                  /\ MapsFit(op[o], repo, configs, clients, strays)
  BY <1>2, <1>3, WorksAlone, KeptNow DEF Keeps
<1>5. PICK local \in Locals :
        /\ Becomes(o, local)
        /\ \/ /\ local.at = "send" /\ local.adds = op[o].adds
              /\ local.removes = op[o].removes
           \/ local.at = "done" /\ local.adds = {} /\ local.removes = {}
  <2>1. CASE Route(o)
    <3>1. PICK d \in tools : Becomes(o, [op[o] EXCEPT !.at = "send", !.server = d.server])
      BY <2>1 DEF Route
    <3> DEFINE s == d.server
               local == [op[o] EXCEPT !.at = "send", !.server = s]
    <3>2. s \in Servers /\ Becomes(o, local)
      BY <3>1 DEF ManagerInv, ToolsTyped, Defs
    <3> HIDE DEF s
    <3>3. /\ local \in Locals /\ local.at = "send" /\ local.adds = op[o].adds
          /\ local.removes = op[o].removes
      BY <1>1, <3>2 DEF Locals, Places
    <3> HIDE DEF local
    <3>4. QED
      BY <3>2, <3>3
  <2>2. CASE Send(o) \/ AskAll(o)
    <3>1. \A c \in OnlineClients : client[c].server \in Servers
      BY DEF ManagerInv, MapsServe, OnlineClients
    <3>2. PICK s \in Servers \cup {None} : Becomes(o, Over) \/ Becomes(o, Answered(o, s))
      BY <1>1, <2>2, <3>1 DEF Send, AskAll, Locals
    <3> DEFINE local == Answered(o, s)
    <3>3. local \in Locals /\ local.at = "done" /\ local.adds = {} /\ local.removes = {}
      BY <1>1, <3>2 DEF Answered, Over, Idle, Locals, Places, Nothing
    <3>4. Over.removes = {}
      BY DEF Over, Idle
    <3>5. Becomes(o, Over) \/ Becomes(o, local)
      BY <3>2
    <3> HIDE DEF local
    <3>6. QED
      BY <3>3, <3>4, <3>5, OverTyped
  <2>3. QED
    BY <2>1, <2>2
<1>6. ~overlap => Keeps(local, repo, strays)
  BY <1>4, <1>5 DEF Keeps
<1>7. ~overlap => MapsFit(local, repo, configs, clients, strays)
  BY <1>4 DEF MapsFit
<1>8. QED
  BY <1>2, <1>4, <1>5, <1>6, <1>7, KeptStays

LEMMA KeptInductive ==
  ASSUME ManagerInv, SerialInv, KeepInv, [Next]_vars
  PROVE  KeepInv'
<1>1. ASSUME NEW listed \in BOOLEAN, NEW read \in SUBSET DOMAIN Yaml, NEW saved \in SUBSET DOMAIN Yaml,
             Boot(listed, read, saved)
      PROVE  KeepInv'
  BY <1>1, KeptBoots
<1>2. CASE Die
  BY <1>2, KeptDies
<1>3. ASSUME NEW o \in Ops, Request(o) PROVE KeepInv'
  BY <1>3, KeptRequests
<1>4. ASSUME NEW o \in Goroutines, Step(o) PROVE KeepInv'
  <2>1. CASE Remove(o) \/ Configure(o) \/ CloseOld(o) \/ InitializeFails(o) \/ Store(o) \/ Finish(o)
             \/ \E c \in ClientIds, warm \in BOOLEAN : InitializeOne(o, c, warm)
    BY <2>1, KeptServes
  <2>2. CASE Snapshot(o) \/ List(o) \/ Publish(o) \/ Unregister(o) \/ Forget(o) \/ Register(o)
             \/ Registered(o)
    BY <2>2, KeptRefreshes
  <2>3. CASE Route(o) \/ Send(o) \/ AskAll(o)
    BY <2>3, KeptCalls
  <2>4. QED
    BY <1>4, <2>1, <2>2, <2>3 DEF Step
<1>5. CASE UNCHANGED vars
  <2>1. UNCHANGED <<repo, configs, clients, op, overlap, strays>>
    BY <1>5 DEF vars, managerVars, ghostVars
  <2>2. QED
    BY <2>1 DEF KeepInv
<1>6. QED
  BY <1>1, <1>2, <1>3, <1>4, <1>5 DEF Next

(* Between requests that follow one another stored servers are configured  *)
(* as stored, and no others are online (mcp_service.go, ReloadFromDB and   *)
(* UpsertServer; manager.go, ReloadAll and Remove).                        *)
THEOREM StoredAreKept == Spec => []StoredServersAreKept
<1>1. KeepInv => StoredServersAreKept
  <2> SUFFICES ASSUME KeepInv, Serial, At(Main, "done") PROVE StoredServersAreKept
    BY DEF StoredServersAreKept
  <2>1. ~overlap
    BY DEF Serial
  <2>2. \A o \in Goroutines : op[o].at \in {"idle", "done"} \/ op[o].kind = "call"
    BY DEF Serial, Busy
  <2>3. \A o \in Goroutines : op[o].adds = {} /\ op[o].removes = {}
    BY <2>1, <2>2 DEF KeepInv, Keeps
  <2>4. QED
    BY <2>1, <2>3 DEF KeepInv, StoredServersAreKept
<1>2. Init => SerialInv /\ KeepInv
  BY SerialInitially, KeptInitially
<1>3. ManagerInv /\ SerialInv /\ [Next]_vars => SerialInv'
  BY SerialInductive
<1>4. ManagerInv /\ SerialInv /\ KeepInv /\ [Next]_vars => KeepInv'
  BY KeptInductive
<1>5. QED
  BY <1>1, <1>2, <1>3, <1>4, ManagerInvariant, PTL DEF Spec

--------------------------------------------------------------------------------
(* Builtins, however requests race *)

(* A builtin is gone exactly when a tool has taken its name, which is then *)
(* the only way for its name to be among those that are unregistered.      *)
ShadowInv ==
  /\ registry \cap OwnTools = {Builtin(n) : n \in Builtins \ shadowed}
  /\ \A n \in Builtins : <<n>> \in mcpNames => n \in shadowed

LEMMA ShadowInductive ==
  ASSUME ManagerInv, ShadowInv, [Next]_vars
  PROVE  ShadowInv'
<1>1. /\ \A d \in Defs : d \notin OwnTools
      /\ OwnTools = {Builtin(n) : n \in Builtins} /\ \A n \in Builtins : Builtin(n).name = <<n>>
  BY ManagerAssumption DEF Defs, OwnTools, Builtin
<1>2. \A n, m \in Builtins : Builtin(n) = Builtin(m) => n = m
  BY DEF Builtin
<1>3. CASE UNCHANGED <<registry, mcpNames, shadowed>>
  BY <1>3 DEF ShadowInv
<1>4. ASSUME NEW o \in Goroutines, Unregister(o) PROVE ShadowInv'
  <2>1. registry' = {d \in registry : d.name \notin mcpNames} /\ UNCHANGED <<mcpNames, shadowed>>
    BY <1>4 DEF Unregister, ghostVars
  <2>2. \A n \in Builtins : Builtin(n) \in registry => <<n>> \notin mcpNames
    BY <1>1, <1>2 DEF ShadowInv
  <2>3. registry' \cap OwnTools = registry \cap OwnTools
    BY <1>1, <2>1, <2>2
  <2>4. QED
    BY <2>1, <2>3 DEF ShadowInv
<1>5. ASSUME NEW o \in Goroutines, Forget(o) PROVE ShadowInv'
  BY <1>5 DEF Forget, ghostVars, ShadowInv
<1>6. ASSUME NEW o \in Goroutines, Register(o) PROVE ShadowInv'
  <2>1. PICK d \in op[o].todo : /\ registry' = {e \in registry : e.name # d.name} \cup {d}
                                /\ mcpNames' = mcpNames \cup {d.name}
                                /\ shadowed' = shadowed \cup {n \in Builtins : d.name = <<n>>}
    BY <1>6 DEF Register
  <2>2. d \in Defs
    BY LocalsTyped DEF Locals
  <2>3. registry' \cap OwnTools = {e \in registry \cap OwnTools : e.name # d.name}
    BY <1>1, <2>1, <2>2
  <2>4. ASSUME NEW n \in Builtins
        PROVE  Builtin(n) \in registry' <=> n \notin shadowed'
    BY <1>1, <1>2, <2>1, <2>3 DEF ShadowInv
  <2>5. registry' \cap OwnTools = {Builtin(n) : n \in Builtins \ shadowed'}
    BY <1>1, <2>4
  <2>6. \A n \in Builtins : <<n>> \in mcpNames' => n \in shadowed'
    BY <2>1 DEF ShadowInv
  <2>7. QED
    BY <2>5, <2>6 DEF ShadowInv
<1>7. CASE Die
  BY <1>7 DEF Die, ShadowInv, OwnTools
<1>8. ASSUME NEW listed \in BOOLEAN, NEW read \in SUBSET DOMAIN Yaml, NEW saved \in SUBSET DOMAIN Yaml,
             Boot(listed, read, saved)
      PROVE  ShadowInv'
  <2>1. UNCHANGED <<registry, mcpNames, shadowed>>
    BY <1>8 DEF Boot, ghostVars
  <2>2. QED
    BY <1>3, <2>1
<1>9. ASSUME NEW o \in Ops, Request(o) PROVE ShadowInv'
  <2>1. UNCHANGED <<registry, mcpNames, shadowed>>
    BY <1>9 DEF Request, InstallCustom, Delete, Reload, Refuse, ListTools, Call, managerVars
  <2>2. QED
    BY <1>3, <2>1
<1>10. ASSUME NEW o \in Goroutines, Step(o) PROVE ShadowInv'
  <2>1. CASE Remove(o) \/ Configure(o) \/ CloseOld(o) \/ InitializeFails(o) \/ Store(o) \/ Finish(o)
             \/ (\E c \in ClientIds, warm \in BOOLEAN : InitializeOne(o, c, warm))
             \/ Snapshot(o) \/ List(o) \/ Publish(o) \/ Registered(o)
             \/ Route(o) \/ Send(o) \/ AskAll(o)
    <3>1. UNCHANGED <<registry, mcpNames, shadowed>>
      BY <2>1 DEF Remove, Configure, CloseOld, InitializeFails, Store, Finish, InitializeOne,
         Snapshot, List, Publish, Registered, Route, Send, AskAll, managerVars, ghostVars
    <3>2. QED
      BY <1>3, <3>1
  <2>2. QED
    BY <1>4, <1>5, <1>6, <1>10, <2>1 DEF Step
<1>11. CASE UNCHANGED vars
  BY <1>3, <1>11 DEF vars, managerVars, ghostVars
<1>12. QED
  BY <1>7, <1>8, <1>9, <1>10, <1>11 DEF Next

--------------------------------------------------------------------------------
(* The tools, between requests that follow one another *)

AllDefs == DefsOf(OnlineClients)

(* Nothing is left to do that would refresh the tools. *)
Settled(l) ==
  \/ l.at \in {"idle", "done", "route", "send"}
  \/ l.at = "next" /\ ~l.refresh /\ l.removes = {} /\ l.adds = {}

(* Who starts servers refreshes the tools in the end. *)
Refreshes(l) == l.at \in {"close", "init", "store"} \/ l.adds # {} => l.refresh

(* The tools published, the registry's and their names are all there are. *)
InStep(all, defs, reg, names) ==
  defs = all /\ reg \ OwnTools = defs /\ names = {d.name : d \in defs}

(* How far a refresh has come, if nothing fails. *)
ComesInStep(l, all, defs, reg, names) ==
  /\ l.at = "publish" => l.defs = all
  /\ l.at \in {"unregister", "forget", "register"} => defs = all
  /\ l.at = "register" =>
       reg \ OwnTools = defs \ l.todo /\ names = {d.name : d \in defs \ l.todo}

StepInv ==
  /\ \A o \in Goroutines : Refreshes(op[o])
  /\ ~overlap => \A o \in Goroutines : At(o, "list") => op[o].snap = OnlineClients
  /\ ~overlap /\ ~fault =>
       /\ \A o \in Goroutines : ComesInStep(op[o], AllDefs, tools, registry, mcpNames)
       /\ (\A o \in Goroutines : Settled(op[o])) => InStep(AllDefs, tools, registry, mcpNames)

LEMMA StepStays ==
  ASSUME ManagerInv, StepInv, NEW o \in Goroutines, NEW local \in Locals, Becomes(o, local),
         Refreshes(local),
         ~overlap' => /\ ~overlap /\ Busy \subseteq {o}
                      /\ local.at = "list" => local.snap = OnlineClients',
         ~overlap' /\ ~fault' =>
           /\ ComesInStep(local, AllDefs', tools', registry', mcpNames')
           /\ Settled(local) => InStep(AllDefs', tools', registry', mcpNames')
  PROVE  StepInv'
<1>1. /\ op'[o] = local
      /\ \A p \in Goroutines : p # o => op'[p] = op[p]
  BY LocalsTyped, ManagerBecomes
<1>2. \A p \in Goroutines : Refreshes(op'[p])
  <2>1. ASSUME NEW p \in Goroutines PROVE Refreshes(op'[p])
    <3>1. CASE p = o
      BY <1>1, <3>1
    <3>2. CASE p # o
      BY <1>1, <3>2 DEF StepInv
    <3>3. QED
      BY <3>1, <3>2
  <2>2. QED
    BY <2>1
<1>3. ASSUME ~overlap', NEW p \in Goroutines, p # o PROVE op'[p].at \in {"idle", "done"}
  BY <1>1, <1>3 DEF Busy
<1>4. ASSUME ~overlap', NEW p \in Goroutines, op'[p].at = "list"
      PROVE  op'[p].snap = OnlineClients'
  <2>1. p = o
    BY <1>3, <1>4
  <2>2. QED
    BY <1>1, <1>4, <2>1
<1>5. ASSUME ~overlap', ~fault', NEW p \in Goroutines
      PROVE  ComesInStep(op'[p], AllDefs', tools', registry', mcpNames')
  <2>1. CASE p = o
    BY <1>1, <1>5, <2>1
  <2>2. CASE p # o
    BY <1>3, <1>5, <2>2 DEF ComesInStep
  <2>3. QED
    BY <2>1, <2>2
<1>6. ASSUME ~overlap', ~fault', \A p \in Goroutines : Settled(op'[p])
      PROVE  InStep(AllDefs', tools', registry', mcpNames')
  BY <1>1, <1>6
<1>7. (\A p \in Goroutines : Settled(op[p]))' => \A p \in Goroutines : Settled(op'[p])
  BY DEF Settled
<1>8. QED
  BY <1>2, <1>4, <1>5, <1>6, <1>7 DEF StepInv, Refreshes, ComesInStep, InStep

(* A goroutine alone at work that is settled finds the tools in step. *)
LEMMA StepNow ==
  ASSUME StepInv, ~overlap, ~fault, NEW o \in Goroutines, Busy \subseteq {o}
  PROVE  /\ ComesInStep(op[o], AllDefs, tools, registry, mcpNames)
         /\ Settled(op[o]) => InStep(AllDefs, tools, registry, mcpNames)
<1>1. \A p \in Goroutines : p # o => Settled(op[p])
  BY DEF Busy, Settled
<1>2. QED
  BY <1>1 DEF StepInv

(* The definitions depend on who is online, and on their servers and tools.*)
LEMMA DefsStay ==
  ASSUME UNCHANGED clients,
         \A c \in OnlineClients : client'[c].server = client[c].server
                                  /\ client'[c].offers = client[c].offers
  PROVE  AllDefs' = AllDefs
<1>1. OnlineClients' = OnlineClients
  BY DEF OnlineClients
<1>2. \A c \in OnlineClients : \A n :
        (\E d \in OnlineClients \ {c} : n \in client'[d].offers)
          <=> (\E d \in OnlineClients \ {c} : n \in client[d].offers)
  OBVIOUS
<1>3. \A c \in OnlineClients : \A n :
        Exposed(c, n, OnlineClients)' = Exposed(c, n, OnlineClients)
  BY <1>1, <1>2 DEF Exposed
<1>4. QED
  BY <1>1, <1>3 DEF AllDefs, DefsOf

LEMMA NobodyOnline ==
  ASSUME \A s \in Servers : clients[s] = None
  PROVE  AllDefs = {}
BY DEF AllDefs, DefsOf, OnlineClients

LEMMA StepInitially == Init => ShadowInv /\ StepInv
<1> SUFFICES ASSUME Init PROVE ShadowInv /\ StepInv
  OBVIOUS
<1>1. \A o \in Goroutines : op[o] = Idle
  BY DEF Init
<1>2. Idle.at = "idle" /\ Idle.adds = {}
  BY DEF Idle
<1>3. /\ \A s \in Servers : clients[s] = None
      /\ tools = {} /\ registry = OwnTools /\ mcpNames = {} /\ shadowed = {}
  BY DEF Init, Nothing
<1>4. AllDefs = {}
  BY <1>3, NobodyOnline
<1>5. ShadowInv
  BY <1>3 DEF ShadowInv, OwnTools
<1>6. StepInv
  BY <1>1, <1>2, <1>3, <1>4 DEF StepInv, Refreshes, ComesInStep, InStep
<1>7. QED
  BY <1>5, <1>6

LEMMA StepDies ==
  ASSUME ManagerInv, Die
  PROVE  StepInv'
<1> DEFINE over == [Idle EXCEPT !.at = "done"]
<1>1. over.at = "done" /\ over.adds = {} /\ Idle.at = "idle" /\ Idle.adds = {}
  BY DEF Idle
<1>2. op' = [o \in Goroutines |-> IF o = Main \/ op[o].at = "idle" THEN Idle ELSE over]
  BY DEF Die
<1> HIDE DEF over
<1>3. \A o \in Goroutines : op'[o].at \in {"idle", "done"} /\ op'[o].adds = {}
  BY <1>1, <1>2
<1>4. /\ \A s \in Servers : clients'[s] = None
      /\ tools' = {} /\ registry' = OwnTools /\ mcpNames' = {}
  BY DEF Die, Nothing
<1>5. AllDefs' = {}
  BY <1>4 DEF AllDefs, DefsOf, OnlineClients
<1>6. QED
  BY <1>3, <1>4, <1>5 DEF StepInv, Refreshes, ComesInStep, InStep

(* A step after which a goroutine has still to refresh the tools. *)
LEMMA StepPends ==
  ASSUME ManagerInv, StepInv, NEW o \in Goroutines, NEW local \in Locals, Becomes(o, local),
         ~overlap' => ~overlap /\ Busy \subseteq {o}, Refreshes(local),
         \/ local.at \in {"close", "init", "store", "snap"}
         \/ local.at = "next" /\ (local.refresh \/ local.removes # {})
  PROVE  StepInv'
<1>1. ~Settled(local)
  BY DEF Settled
<1>2. ComesInStep(local, AllDefs', tools', registry', mcpNames') /\ local.at # "list"
  BY DEF ComesInStep
<1>3. QED
  BY <1>1, <1>2, StepStays

(* A settled goroutine goes on, or ends: nothing changes.                  *)
LEMMA StepRests ==
  ASSUME ManagerInv, StepInv, NEW o \in Goroutines, NEW local \in Locals, Becomes(o, local),
         ~overlap' => ~overlap /\ Busy \subseteq {o}, Refreshes(local), Settled(op[o]),
         local.at \in {"done", "route", "send"},
         UNCHANGED <<clients, client, tools, registry, mcpNames, fault>>
  PROVE  StepInv'
<1>1. AllDefs' = AllDefs
  BY DefsStay
<1>2. ~overlap' /\ ~fault' => InStep(AllDefs, tools, registry, mcpNames)
  BY StepNow
<1>3. ComesInStep(local, AllDefs', tools', registry', mcpNames')
  BY DEF ComesInStep
<1>4. QED
  BY <1>1, <1>2, <1>3, StepStays

LEMMA StepBoots ==
  ASSUME ManagerInv, StepInv,
         NEW listed \in BOOLEAN, NEW read \in SUBSET DOMAIN Yaml, NEW saved \in SUBSET DOMAIN Yaml,
         Boot(listed, read, saved)
  PROVE  StepInv'
<1> DEFINE merged == [s \in Servers |-> Merged(s, listed)]
           starts == {s \in Servers : Enabled(merged[s])}
           local == [Idle EXCEPT !.at = "next", !.kind = "boot", !.cfgs = merged,
                                 !.adds = starts, !.refresh = TRUE]
<1>1. op[Main].at = "idle" /\ Becomes(Main, local) /\ overlap' = overlap
  BY DEF Boot, ghostVars
<1>2. merged \in [Servers -> ServerConfigs \cup {None}] /\ starts \subseteq Servers
  BY MergedTyped
<1> HIDE DEF merged, starts
<1>3. local \in Locals /\ local.at = "next" /\ local.refresh
  BY <1>2 DEF Idle, Locals, Places, Nothing
<1> HIDE DEF local
<1>4. Busy = {}
  BY <1>1 DEF ManagerInv, NothingBeforeBoot, Busy
<1>5. QED
  BY <1>1, <1>3, <1>4, MainIsNoRequest, StepPends DEF Refreshes

LEMMA StepRequests ==
  ASSUME ManagerInv, StepInv, NEW o \in Ops, Request(o)
  PROVE  StepInv'
<1>1. o \in Goroutines
  BY MainIsNoRequest
<1>2. repo \in [Servers -> ServerConfigs \cup {None}]
  BY DEF ManagerInv, MapsTyped
<1>3. op[o].at = "idle" /\ overlap' = (overlap \/ Busy # {})
  BY DEF Request, InstallCustom, Delete, Reload, Refuse, ListTools, Call, Arrives
<1>4. ~overlap' => ~overlap /\ Busy \subseteq {o}
  <2>1. CASE overlap
    BY <1>3, <2>1
  <2>2. CASE ~overlap
    BY <1>3, <2>2
  <2>3. QED
    BY <2>1, <2>2
<1>5. ASSUME NEW s \in Servers, NEW cfg \in Configs, InstallCustom(o, s, cfg)
      PROVE  StepInv'
  <2> DEFINE cfgs == [Nothing EXCEPT ![s] = cfg]
             local == [Idle EXCEPT !.at = "next", !.kind = "install", !.adds = {s},
                                   !.cfgs = cfgs, !.refresh = TRUE]
  <2>1. Becomes(o, local)
    BY <1>5 DEF InstallCustom
  <2>2. cfgs \in [Servers -> ServerConfigs \cup {None}]
    BY ManagerAssumption DEF Nothing
  <2> HIDE DEF cfgs
  <2>3. local \in Locals /\ local.at = "next" /\ local.refresh
    BY <2>2 DEF Idle, Locals, Places, Nothing
  <2> HIDE DEF local
  <2>4. QED
    BY <1>1, <1>4, <2>1, <2>3, StepPends DEF Refreshes
<1>6. ASSUME NEW s \in Servers, NEW deleted \in BOOLEAN, Delete(o, s, deleted)
      PROVE  StepInv'
  <2> DEFINE local == [Idle EXCEPT !.at = "next", !.removes = {s}]
  <2>1. Becomes(o, local)
    BY <1>6 DEF Delete
  <2>2. local \in Locals /\ local.at = "next" /\ local.removes # {} /\ local.adds = {}
    BY DEF Idle, Locals, Places, Nothing
  <2> HIDE DEF local
  <2>3. QED
    BY <1>1, <1>4, <2>1, <2>2, StepPends DEF Refreshes
<1>7. CASE Reload(o)
  <2> DEFINE wanted == {s \in Servers : Enabled(repo[s])}
             gone == {s \in Servers : clients[s] # None} \ wanted
             local == [Idle EXCEPT !.at = "next", !.adds = wanted, !.cfgs = repo,
                                   !.removes = gone, !.refresh = TRUE]
  <2>1. Becomes(o, local)
    BY <1>7 DEF Reload
  <2>2. wanted \subseteq Servers /\ gone \subseteq Servers
    OBVIOUS
  <2> HIDE DEF wanted, gone
  <2>3. local \in Locals /\ local.at = "next" /\ local.refresh
    BY <1>2, <2>2 DEF Idle, Locals, Places, Nothing
  <2> HIDE DEF local
  <2>4. QED
    BY <1>1, <1>4, <2>1, <2>3, StepPends DEF Refreshes
<1>8. CASE ListTools(o)
  <2> DEFINE local == [Idle EXCEPT !.at = "snap"]
  <2>1. Becomes(o, local)
    BY <1>8 DEF ListTools
  <2>2. local \in Locals /\ local.at = "snap" /\ local.adds = {}
    BY DEF Idle, Locals, Places, Nothing
  <2> HIDE DEF local
  <2>3. QED
    BY <1>1, <1>4, <2>1, <2>2, StepPends DEF Refreshes
<1>9. CASE Call(o)
  <2>1. PICK d \in registry \ OwnTools :
          Becomes(o, [Idle EXCEPT !.at = "route", !.kind = "call", !.def = d])
    BY <1>9 DEF Call
  <2>2. d \in Defs
    BY DEF ManagerInv, ToolsTyped
  <2> DEFINE local == [Idle EXCEPT !.at = "route", !.kind = "call", !.def = d]
  <2>3. Becomes(o, local)
    BY <2>1
  <2>4. local \in Locals /\ local.at = "route" /\ local.adds = {}
    BY <2>2 DEF Idle, Locals, Places, Nothing
  <2> HIDE DEF local
  <2>5. UNCHANGED <<clients, client, tools, registry, mcpNames, fault>>
    BY <1>9 DEF Call, managerVars
  <2>6. QED
    BY <1>1, <1>3, <1>4, <2>3, <2>4, <2>5, StepRests DEF Refreshes, Settled
<1>10. CASE Refuse(o)
  <2>1. Becomes(o, Over) /\ UNCHANGED <<clients, client, tools, registry, mcpNames, fault>>
    BY <1>10 DEF Refuse, managerVars
  <2>2. QED
    BY <1>1, <1>3, <1>4, <2>1, OverTyped, StepRests DEF Refreshes, Settled
<1>11. QED
  BY <1>5, <1>6, <1>7, <1>8, <1>9, <1>10 DEF Request

LEMMA StepServes ==
  ASSUME ManagerInv, SerialInv, StepInv, NEW o \in Goroutines,
         Remove(o) \/ Configure(o) \/ CloseOld(o) \/ Store(o)
         \/ \E c \in ClientIds, warm \in BOOLEAN : InitializeOne(o, c, warm)
  PROVE  StepInv'
<1>1. op[o] \in Locals /\ IsConsistent(op[o]) /\ Refreshes(op[o])
  BY LocalsTyped DEF StepInv
<1>2. op[o].at \in {"next", "close", "init", "store"}
  BY DEF Remove, Configure, CloseOld, Store, InitializeOne
<1>3. overlap' = overlap
  BY DEF Remove, Configure, CloseOld, Store, InitializeOne, ghostVars
<1>4. ~overlap' => ~overlap /\ Busy \subseteq {o}
  BY <1>2, <1>3, WorksAlone DEF Busy
<1>5. ASSUME NEW local \in Locals, Becomes(o, local), Refreshes(local),
             \/ local.at \in {"close", "init", "store", "snap"}
             \/ local.at = "next" /\ (local.refresh \/ local.removes # {})
      PROVE  StepInv'
  BY <1>4, <1>5, StepPends
<1>6. CASE Remove(o)
  <2>1. PICK s \in op[o].removes : Becomes(o, [op[o] EXCEPT !.at = "snap", !.removes = @ \ {s}])
    BY <1>6 DEF Remove
  <2> DEFINE local == [op[o] EXCEPT !.at = "snap", !.removes = @ \ {s}]
  <2>2. /\ local \in Locals /\ local.at = "snap" /\ local.adds = op[o].adds
        /\ local.refresh = op[o].refresh
    BY <1>1 DEF Locals, Places
  <2>3. Becomes(o, local)
    BY <2>1
  <2> HIDE DEF local
  <2>4. QED
    BY <1>1, <1>5, <2>2, <2>3 DEF Refreshes
<1>7. CASE Configure(o)
  <2>1. PICK s \in op[o].adds :
          Becomes(o, IF op[o].cfgs[s].on
                     THEN [op[o] EXCEPT !.at = "close", !.adds = @ \ {s}, !.server = s]
                     ELSE [op[o] EXCEPT !.adds = {}, !.removes = {s}, !.refresh = FALSE])
    BY <1>7 DEF Configure
  <2> DEFINE starts == [op[o] EXCEPT !.at = "close", !.adds = @ \ {s}, !.server = s]
             drops == [op[o] EXCEPT !.adds = {}, !.removes = {s}, !.refresh = FALSE]
  <2>2. s \in Servers /\ op[o].at = "next" /\ op[o].refresh
    BY <1>1, <1>7 DEF Locals, Configure, Refreshes
  <2>3. starts \in Locals /\ starts.at = "close" /\ starts.refresh = op[o].refresh
    BY <1>1, <2>2 DEF Locals, Places
  <2>4. drops \in Locals /\ drops.at = "next" /\ drops.adds = {} /\ drops.removes = {s}
    BY <1>1, <2>2 DEF Locals, Places
  <2>5. Becomes(o, starts) \/ Becomes(o, drops)
    BY <2>1
  <2> HIDE DEF starts, drops
  <2>6. QED
    BY <1>5, <2>2, <2>3, <2>4, <2>5 DEF Refreshes
<1>8. CASE CloseOld(o)
  <2> DEFINE local == [op[o] EXCEPT !.at = "init"]
  <2>1. Becomes(o, local) /\ op[o].refresh
    BY <1>1, <1>8 DEF CloseOld, Refreshes
  <2>2. local \in Locals /\ local.at = "init" /\ local.refresh = op[o].refresh
    BY <1>1 DEF Locals, Places
  <2> HIDE DEF local
  <2>3. QED
    BY <1>5, <2>1, <2>2 DEF Refreshes
<1>9. ASSUME NEW c \in ClientIds, NEW warm \in BOOLEAN, InitializeOne(o, c, warm)
      PROVE  StepInv'
  <2> DEFINE local == [op[o] EXCEPT !.at = "store", !.client = c]
  <2>1. Becomes(o, local) /\ op[o].refresh
    BY <1>1, <1>9 DEF InitializeOne, Refreshes
  <2>2. local \in Locals /\ local.at = "store" /\ local.refresh = op[o].refresh
    BY <1>1 DEF Locals, Places
  <2> HIDE DEF local
  <2>3. QED
    BY <1>5, <2>1, <2>2 DEF Refreshes
<1>10. CASE Store(o)
  <2> DEFINE local == [op[o] EXCEPT !.at = "next", !.server = None, !.client = None]
  <2>1. Becomes(o, local) /\ op[o].refresh
    BY <1>1, <1>10 DEF Store, Refreshes
  <2>2. local \in Locals /\ local.at = "next" /\ local.refresh = op[o].refresh
    BY <1>1 DEF Locals, Places
  <2> HIDE DEF local
  <2>3. QED
    BY <1>5, <2>1, <2>2 DEF Refreshes
<1>11. QED
  BY <1>6, <1>7, <1>8, <1>9, <1>10

LEMMA StepFails ==
  ASSUME ManagerInv, SerialInv, StepInv, NEW o \in Goroutines, InitializeFails(o)
  PROVE  StepInv'
<1> DEFINE goesOn == [op[o] EXCEPT !.at = "next", !.server = None]
<1>1. op[o] \in Locals /\ Refreshes(op[o])
  BY LocalsTyped DEF StepInv
<1>2. /\ op[o].at = "init" /\ fault' /\ overlap' = overlap
      /\ Becomes(o, Over) \/ Becomes(o, goesOn)
  BY DEF InitializeFails
<1>3. ~overlap' => ~overlap /\ Busy \subseteq {o}
  BY <1>2, WorksAlone DEF Busy
<1>4. goesOn \in Locals /\ goesOn.at = "next" /\ goesOn.refresh = op[o].refresh
  BY <1>1 DEF Locals, Places
<1> HIDE DEF goesOn
<1>5. Refreshes(goesOn) /\ Refreshes(Over)
  BY <1>1, <1>2, <1>4, OverTyped DEF Refreshes
<1>6. CASE Becomes(o, goesOn)
  BY <1>2, <1>3, <1>4, <1>5, <1>6, StepStays
<1>7. CASE Becomes(o, Over)
  BY <1>2, <1>3, <1>5, <1>7, OverTyped, StepStays
<1>8. QED
  BY <1>2, <1>6, <1>7

LEMMA StepFinishes ==
  ASSUME ManagerInv, SerialInv, StepInv, NEW o \in Goroutines, Finish(o)
  PROVE  StepInv'
<1> DEFINE kind == op[o].kind
           refreshes == [Idle EXCEPT !.at = "snap", !.kind = kind]
           lists == [Idle EXCEPT !.at = "snap"]
<1>1. /\ op[o].at = "next" /\ op[o].adds = {} /\ op[o].removes = {}
      /\ Becomes(o, refreshes) \/ Becomes(o, lists) \/ (~op[o].refresh /\ Becomes(o, Over))
      /\ UNCHANGED <<clients, client, tools, registry, mcpNames, fault, overlap>>
  BY DEF Finish, managerVars, ghostVars
<1>2. kind \in {None, "boot", "install", "call"}
  BY LocalsTyped DEF Locals
<1> HIDE DEF kind
<1>3. refreshes \in Locals /\ refreshes.at = "snap" /\ refreshes.adds = {}
  BY <1>2 DEF Idle, Locals, Places, Nothing
<1>4. lists \in Locals /\ lists.at = "snap" /\ lists.adds = {}
  BY DEF Idle, Locals, Places, Nothing
<1> HIDE DEF refreshes, lists
<1>5. ~overlap' => ~overlap /\ Busy \subseteq {o}
  BY <1>1, WorksAlone DEF Busy
<1>6. CASE Becomes(o, refreshes)
  BY <1>3, <1>5, <1>6, StepPends DEF Refreshes
<1>7. CASE Becomes(o, lists)
  BY <1>4, <1>5, <1>7, StepPends DEF Refreshes
<1>8. CASE ~op[o].refresh /\ Becomes(o, Over)
  BY <1>1, <1>5, <1>8, OverTyped, StepRests DEF Refreshes, Settled
<1>9. QED
  BY <1>1, <1>6, <1>7, <1>8

LEMMA StepCalls ==
  ASSUME ManagerInv, SerialInv, StepInv, NEW o \in Goroutines, Route(o) \/ Send(o) \/ AskAll(o)
  PROVE  StepInv'
<1>1. op[o] \in Locals /\ op[o].def \in Defs \cup {None} /\ Refreshes(op[o])
  BY LocalsTyped DEF Locals, StepInv
<1>2. /\ op[o].at \in {"route", "send"}
      /\ UNCHANGED <<clients, client, tools, registry, mcpNames, fault, overlap>>
  BY DEF Route, Send, AskAll, managerVars, ghostVars
<1>3. ~overlap' => ~overlap /\ Busy \subseteq {o}
  BY <1>2, WorksAlone DEF Busy
<1>4. PICK local \in Locals : /\ Becomes(o, local) /\ local.at \in {"send", "done"}
                              /\ Refreshes(local)
  <2>1. CASE Route(o)
    <3>1. PICK d \in tools : Becomes(o, [op[o] EXCEPT !.at = "send", !.server = d.server])
      BY <2>1 DEF Route
    <3> DEFINE s == d.server
               local == [op[o] EXCEPT !.at = "send", !.server = s]
    <3>2. s \in Servers /\ Becomes(o, local)
      BY <3>1 DEF ManagerInv, ToolsTyped, Defs
    <3> HIDE DEF s
    <3>3. /\ local \in Locals /\ local.at = "send" /\ local.adds = op[o].adds
          /\ local.refresh = op[o].refresh
      BY <1>1, <3>2 DEF Locals, Places
    <3> HIDE DEF local
    <3>4. QED
      BY <1>1, <1>2, <3>2, <3>3 DEF Refreshes
  <2>2. CASE Send(o) \/ AskAll(o)
    <3>1. \A c \in OnlineClients : client[c].server \in Servers
      BY DEF ManagerInv, MapsServe, OnlineClients
    <3>2. PICK s \in Servers \cup {None} : Becomes(o, Over) \/ Becomes(o, Answered(o, s))
      BY <1>1, <2>2, <3>1 DEF Send, AskAll, Locals
    <3> DEFINE local == Answered(o, s)
    <3>3. local \in Locals /\ local.at = "done" /\ local.adds = {}
      BY <1>1, <3>2 DEF Answered, Over, Idle, Locals, Places, Nothing
    <3>4. Becomes(o, Over) \/ Becomes(o, local)
      BY <3>2
    <3> HIDE DEF local
    <3>5. QED
      BY <3>3, <3>4, OverTyped DEF Refreshes
  <2>3. QED
    BY <2>1, <2>2
<1>5. Settled(op[o])
  BY <1>2 DEF Settled
<1>6. QED
  BY <1>2, <1>3, <1>4, <1>5, StepRests

(* A refresh brings the tools in step, unless a listing fails. *)
LEMMA StepRefreshes ==
  ASSUME ManagerInv, SerialInv, StepInv, NEW o \in Goroutines,
         Snapshot(o) \/ List(o) \/ Publish(o) \/ Unregister(o) \/ Forget(o) \/ Register(o)
         \/ Registered(o)
  PROVE  StepInv'
<1>1. op[o] \in Locals /\ Refreshes(op[o])
  BY LocalsTyped DEF StepInv
<1>2. /\ op[o].at \in {"snap", "list", "publish", "unregister", "forget", "register"}
      /\ UNCHANGED <<clients, overlap>>
  BY DEF Snapshot, List, Publish, Unregister, Forget, Register, Registered, managerVars, ghostVars
<1>3. ~overlap' => ~overlap /\ Busy \subseteq {o}
  BY <1>2, WorksAlone DEF Busy
<1>4. op[o].defs \subseteq Defs /\ op[o].todo \subseteq Defs
  BY <1>1 DEF Locals
<1>5. ~overlap => Syncs(op[o], tools, registry, OnlineClients) /\ ToolsAgree
  BY DEF SerialInv
<1>6. ~overlap /\ ~fault => ComesInStep(op[o], AllDefs, tools, registry, mcpNames)
  BY DEF StepInv
<1>7. ASSUME UNCHANGED client PROVE AllDefs' = AllDefs
  BY <1>2, <1>7, DefsStay
<1>8. \A d \in Defs : d \notin OwnTools
  BY ManagerAssumption DEF Defs, OwnTools, Builtin
<1>9. CASE Snapshot(o)
  <2> DEFINE online == OnlineClients
             local == [op[o] EXCEPT !.at = "list", !.snap = online]
  <2>1. Becomes(o, local) /\ online \subseteq ClientIds /\ OnlineClients' = online
    BY <1>2, <1>9 DEF Snapshot, ManagerInv, MapsTyped, OnlineClients
  <2> HIDE DEF online
  <2>2. /\ local \in Locals /\ local.at = "list" /\ local.snap = online
        /\ local.adds = op[o].adds /\ local.refresh = op[o].refresh
    BY <1>1, <2>1 DEF Locals, Places
  <2> HIDE DEF local
  <2>3. Refreshes(local) /\ ~Settled(local)
        /\ ComesInStep(local, AllDefs', tools', registry', mcpNames')
    BY <1>1, <2>2 DEF Refreshes, Settled, ComesInStep
  <2>4. QED
    BY <1>3, <2>1, <2>2, <2>3, StepStays
<1>10. CASE List(o)
  <2>1. PICK listed \in SUBSET op[o].snap :
          /\ client' = [c \in ClientIds |->
               IF c \in listed THEN [client[c] EXCEPT !.warm = TRUE] ELSE client[c]]
          /\ fault' = (listed # op[o].snap)
          /\ Becomes(o, [op[o] EXCEPT !.at = "publish", !.snap = {}, !.defs = DefsOf(listed)])
    BY <1>10 DEF List
  <2> DEFINE defs == DefsOf(listed)
             local == [op[o] EXCEPT !.at = "publish", !.snap = {}, !.defs = defs]
  <2>2. Becomes(o, local) /\ op[o].at = "list" /\ defs \subseteq Defs
    BY <1>1, <1>10, <2>1, LocalsTyped, DefsTyped DEF List, Locals
  <2>3. ~overlap /\ ~fault' => defs = AllDefs
    BY <2>1, <2>2 DEF StepInv, AllDefs
  <2>4. AllDefs' = AllDefs
    <3>1. \A c \in OnlineClients : c \in ClientIds /\ client[c] \in Clients
      BY DEF ManagerInv, MapsTyped, MapsServe, OnlineClients
    <3>2. \A c \in OnlineClients : client'[c].server = client[c].server
                                   /\ client'[c].offers = client[c].offers
      BY <2>1, <3>1 DEF Clients
    <3>3. QED
      BY <1>2, <3>2, DefsStay
  <2> HIDE DEF defs
  <2>5. /\ local \in Locals /\ local.at = "publish" /\ local.defs = defs
        /\ local.adds = op[o].adds /\ local.refresh = op[o].refresh
    BY <1>1, <2>2 DEF Locals, Places
  <2> HIDE DEF local
  <2>6. Refreshes(local) /\ ~Settled(local)
    BY <1>1, <2>5 DEF Refreshes, Settled
  <2>7. ~overlap /\ ~fault' => ComesInStep(local, AllDefs', tools', registry', mcpNames')
    BY <2>3, <2>4, <2>5 DEF ComesInStep
  <2>8. QED
    BY <1>3, <2>2, <2>5, <2>6, <2>7, StepStays
<1>11. CASE Publish(o) \/ Unregister(o)
  <2>1. PICK at \in {"unregister", "forget"} :
          Becomes(o, [op[o] EXCEPT !.at = at]) /\ (Publish(o) <=> at = "unregister")
    BY <1>11 DEF Publish, Unregister
  <2> DEFINE local == [op[o] EXCEPT !.at = at]
  <2>2. /\ local \in Locals /\ local.at = at /\ local.adds = op[o].adds
        /\ local.refresh = op[o].refresh
    BY <1>1 DEF Locals, Places
  <2>3. Becomes(o, local)
    BY <2>1
  <2> HIDE DEF local
  <2>4. UNCHANGED <<client, fault>>
    BY <1>11 DEF Publish, Unregister, ghostVars
  <2>5. ~overlap /\ ~fault => tools' = AllDefs
    BY <1>6, <1>11 DEF ComesInStep, Publish, Unregister
  <2>6. Refreshes(local) /\ ~Settled(local) /\ local.at # "list"
    BY <1>1, <2>2 DEF Refreshes, Settled
  <2>7. ~overlap' /\ ~fault' => ComesInStep(local, AllDefs', tools', registry', mcpNames')
    BY <1>2, <1>7, <2>2, <2>4, <2>5 DEF ComesInStep
  <2>8. QED
    BY <1>3, <2>2, <2>3, <2>6, <2>7, StepStays
<1>12. CASE Forget(o)
  <2> DEFINE defs == op[o].defs
             local == [op[o] EXCEPT !.at = "register", !.todo = defs, !.defs = {}]
  <2>1. /\ Becomes(o, local) /\ op[o].at = "forget" /\ mcpNames' = {}
        /\ UNCHANGED <<client, tools, registry, fault>>
    BY <1>12 DEF Forget, ghostVars
  <2>2. defs \subseteq Defs /\ (~overlap => defs = tools /\ registry \subseteq OwnTools)
    BY <1>4, <1>5, <2>1 DEF Syncs
  <2> HIDE DEF defs
  <2>3. /\ local \in Locals /\ local.at = "register" /\ local.todo = defs
        /\ local.adds = op[o].adds /\ local.refresh = op[o].refresh
    BY <1>1, <2>2 DEF Locals, Places
  <2> HIDE DEF local
  <2>4. Refreshes(local) /\ ~Settled(local) /\ local.at # "list"
    BY <1>1, <2>3 DEF Refreshes, Settled
  <2>5. ~overlap' /\ ~fault' => ComesInStep(local, AllDefs', tools', registry', mcpNames')
    BY <1>2, <1>6, <1>7, <2>1, <2>2, <2>3 DEF ComesInStep
  <2>6. QED
    BY <1>3, <2>1, <2>3, <2>4, <2>5, StepStays
<1>13. CASE Register(o)
  <2>1. PICK d \in op[o].todo :
          /\ registry' = {e \in registry : e.name # d.name} \cup {d}
          /\ mcpNames' = mcpNames \cup {d.name}
          /\ Becomes(o, [op[o] EXCEPT !.todo = @ \ {d}])
    BY <1>13 DEF Register
  <2> DEFINE todo == op[o].todo \ {d}
             local == [op[o] EXCEPT !.todo = todo]
  <2>2. op[o].at = "register" /\ UNCHANGED <<client, tools, fault>> /\ Becomes(o, local)
    BY <1>13, <2>1 DEF Register
  <2>3. todo \subseteq Defs /\ d \in Defs /\ todo = op[o].todo \ {d}
    BY <1>4
  <2> HIDE DEF todo
  <2>4. /\ local \in Locals /\ local.at = "register" /\ local.todo = todo
        /\ local.adds = op[o].adds /\ local.refresh = op[o].refresh
    BY <1>1, <2>2, <2>3 DEF Locals, Places
  <2> HIDE DEF local
  <2>5. Refreshes(local) /\ ~Settled(local) /\ local.at # "list"
    BY <1>1, <2>4 DEF Refreshes, Settled
  <2>6. ASSUME ~overlap, ~fault
        PROVE  ComesInStep(local, AllDefs', tools', registry', mcpNames')
    <3>1. /\ tools = AllDefs /\ registry \ OwnTools = tools \ op[o].todo
          /\ mcpNames = {e.name : e \in tools \ op[o].todo}
      BY <1>6, <2>2, <2>6 DEF ComesInStep
    <3>2. d \in tools /\ Distinct(tools)
      BY <1>5, <2>2, <2>6 DEF Syncs, ToolsAgree
    <3>3. \A e \in tools \ op[o].todo : e.name # d.name
      BY <3>2 DEF Distinct
    <3>4. registry' \ OwnTools = (registry \ OwnTools) \cup {d}
      BY <1>8, <2>1, <2>3, <3>1, <3>3
    <3>5. tools \ todo = (tools \ op[o].todo) \cup {d}
      BY <2>3, <3>2
    <3>6. mcpNames' = {e.name : e \in tools \ todo}
      BY <2>1, <3>1, <3>5
    <3>7. QED
      BY <1>7, <2>2, <2>4, <3>1, <3>4, <3>5, <3>6 DEF ComesInStep
  <2>7. QED
    BY <1>2, <1>3, <2>2, <2>4, <2>5, <2>6, StepStays
<1>14. CASE Registered(o)
  <2> DEFINE local == [op[o] EXCEPT !.at = "next"]
  <2>1. /\ Becomes(o, local) /\ op[o].at = "register" /\ op[o].todo = {}
        /\ UNCHANGED <<client, tools, registry, mcpNames, fault>>
    BY <1>14 DEF Registered, managerVars, ghostVars
  <2>2. /\ local \in Locals /\ local.at = "next" /\ local.adds = op[o].adds
        /\ local.refresh = op[o].refresh
    BY <1>1 DEF Locals, Places
  <2> HIDE DEF local
  <2>3. Refreshes(local) /\ local.at # "list"
        /\ ComesInStep(local, AllDefs', tools', registry', mcpNames')
    BY <1>1, <2>2 DEF Refreshes, ComesInStep
  <2>4. ~overlap /\ ~fault => InStep(AllDefs, tools, registry, mcpNames)
    BY <1>6, <2>1 DEF ComesInStep, InStep
  <2>5. ~overlap' /\ ~fault' => InStep(AllDefs', tools', registry', mcpNames')
    BY <1>2, <1>7, <2>1, <2>4
  <2>6. QED
    BY <1>3, <2>1, <2>2, <2>3, <2>5, StepStays
<1>15. QED
  BY <1>9, <1>10, <1>11, <1>12, <1>13, <1>14

LEMMA StepInductive ==
  ASSUME ManagerInv, SerialInv, StepInv, [Next]_vars
  PROVE  StepInv'
<1>1. ASSUME NEW listed \in BOOLEAN, NEW read \in SUBSET DOMAIN Yaml, NEW saved \in SUBSET DOMAIN Yaml,
             Boot(listed, read, saved)
      PROVE  StepInv'
  BY <1>1, StepBoots
<1>2. CASE Die
  BY <1>2, StepDies
<1>3. ASSUME NEW o \in Ops, Request(o) PROVE StepInv'
  BY <1>3, StepRequests
<1>4. ASSUME NEW o \in Goroutines, Step(o) PROVE StepInv'
  <2>1. CASE Remove(o) \/ Configure(o) \/ CloseOld(o) \/ Store(o)
             \/ \E c \in ClientIds, warm \in BOOLEAN : InitializeOne(o, c, warm)
    BY <2>1, StepServes
  <2>2. CASE Snapshot(o) \/ List(o) \/ Publish(o) \/ Unregister(o) \/ Forget(o) \/ Register(o)
             \/ Registered(o)
    BY <2>2, StepRefreshes
  <2>3. CASE Route(o) \/ Send(o) \/ AskAll(o)
    BY <2>3, StepCalls
  <2>4. CASE InitializeFails(o) \/ Finish(o)
    BY <2>4, StepFails, StepFinishes
  <2>5. QED
    BY <1>4, <2>1, <2>2, <2>3, <2>4 DEF Step
<1>5. CASE UNCHANGED vars
  <2>1. UNCHANGED <<clients, client, tools, registry, mcpNames, op, overlap, fault>>
    BY <1>5 DEF vars, managerVars, ghostVars
  <2>2. AllDefs' = AllDefs /\ OnlineClients' = OnlineClients
    BY <2>1, DefsStay DEF OnlineClients
  <2>3. QED
    BY <2>1, <2>2 DEF StepInv, Refreshes, ComesInStep, Settled, InStep
<1>6. QED
  BY <1>1, <1>2, <1>3, <1>4, <1>5 DEF Next

(* Who calls a tool does nothing else. *)
CallsOnly(l) == l.kind = "call" => l.at \in {"route", "send", "done"}

CallsOnlyInv == \A o \in Goroutines : CallsOnly(op[o])

LEMMA CallsOnlyInductive ==
  ASSUME ManagerInv, CallsOnlyInv, [Next]_vars
  PROVE  CallsOnlyInv'
<1>1. ASSUME NEW o \in Goroutines, NEW local, Becomes(o, local), CallsOnly(local)
      PROVE  CallsOnlyInv'
  BY <1>1, LocalsTyped DEF Becomes, CallsOnlyInv
<1>2. CallsOnly(Idle) /\ CallsOnly(Over) /\ Idle \in Locals
  BY ManagerAssumption, IdleTyped DEF CallsOnly, Idle, Over
<1>3. ASSUME NEW listed \in BOOLEAN, NEW read \in SUBSET DOMAIN Yaml, NEW saved \in SUBSET DOMAIN Yaml,
             Boot(listed, read, saved)
      PROVE  CallsOnlyInv'
  BY <1>2, <1>3 DEF Boot, Becomes, CallsOnlyInv, CallsOnly, Idle
<1>4. CASE Die
  BY <1>2, <1>4 DEF Die, CallsOnlyInv, CallsOnly, Idle
<1>5. ASSUME NEW o \in Ops, Request(o) PROVE CallsOnlyInv'
  <2>1. CASE \E s \in Servers, cfg \in Configs : InstallCustom(o, s, cfg)
    BY <1>1, <2>1, MainIsNoRequest, ManagerAssumption DEF InstallCustom, CallsOnly, Idle
  <2>2. CASE \E s \in Servers, deleted \in BOOLEAN : Delete(o, s, deleted)
    BY <1>1, <2>2, MainIsNoRequest, ManagerAssumption DEF Delete, CallsOnly, Idle
  <2>3. CASE Reload(o)
    BY <1>1, <2>3, MainIsNoRequest, ManagerAssumption DEF Reload, CallsOnly, Idle
  <2>4. CASE ListTools(o)
    BY <1>1, <2>4, MainIsNoRequest, ManagerAssumption DEF ListTools, CallsOnly, Idle
  <2>5. CASE Call(o)
    BY <1>1, <2>5, MainIsNoRequest, ManagerAssumption DEF Call, CallsOnly, Idle
  <2>6. CASE Refuse(o)
    BY <1>1, <1>2, <2>6, MainIsNoRequest DEF Refuse
  <2>7. QED
    BY <1>5, <2>1, <2>2, <2>3, <2>4, <2>5, <2>6 DEF Request
<1>6. ASSUME NEW o \in Goroutines, Step(o) PROVE CallsOnlyInv'
  <2>1. op[o] \in Locals /\ CallsOnly(op[o])
    BY LocalsTyped DEF CallsOnlyInv
  <2>2. CASE Remove(o)
    BY <1>1, <1>2, <2>1, <2>2 DEF Remove, CallsOnly, Locals
  <2>3. CASE Configure(o)
    BY <1>1, <1>2, <2>1, <2>3 DEF Configure, CallsOnly, Locals
  <2>4. CASE CloseOld(o)
    BY <1>1, <1>2, <2>1, <2>4 DEF CloseOld, CallsOnly, Locals
  <2>5. CASE InitializeFails(o)
    BY <1>1, <1>2, <2>1, <2>5 DEF InitializeFails, CallsOnly, Locals
  <2>6. CASE Store(o)
    BY <1>1, <1>2, <2>1, <2>6 DEF Store, CallsOnly, Locals
  <2>7. CASE Finish(o)
    BY <1>1, <1>2, <2>1, <2>7, ManagerAssumption DEF Finish, CallsOnly, Locals, Idle
  <2>8. CASE \E c \in ClientIds, warm \in BOOLEAN : InitializeOne(o, c, warm)
    BY <1>1, <1>2, <2>1, <2>8 DEF InitializeOne, CallsOnly, Locals
  <2>9. CASE Snapshot(o)
    BY <1>1, <1>2, <2>1, <2>9 DEF Snapshot, CallsOnly, Locals
  <2>10. CASE List(o)
    BY <1>1, <1>2, <2>1, <2>10 DEF List, CallsOnly, Locals
  <2>11. CASE Publish(o)
    BY <1>1, <1>2, <2>1, <2>11 DEF Publish, CallsOnly, Locals
  <2>12. CASE Unregister(o)
    BY <1>1, <1>2, <2>1, <2>12 DEF Unregister, CallsOnly, Locals
  <2>13. CASE Forget(o)
    BY <1>1, <1>2, <2>1, <2>13 DEF Forget, CallsOnly, Locals
  <2>14. CASE Register(o)
    BY <1>1, <1>2, <2>1, <2>14 DEF Register, CallsOnly, Locals
  <2>15. CASE Registered(o)
    BY <1>1, <1>2, <2>1, <2>15 DEF Registered, CallsOnly, Locals
  <2>16. CASE Route(o)
    BY <1>1, <1>2, <2>1, <2>16 DEF Route, CallsOnly, Locals
  <2>17. CASE Send(o)
    BY <1>1, <1>2, <2>1, <2>17, ManagerAssumption DEF Send, CallsOnly, Locals, Answered, Over, Idle
  <2>18. CASE AskAll(o)
    BY <1>1, <1>2, <2>1, <2>18, ManagerAssumption DEF AskAll, CallsOnly, Locals, Answered, Over, Idle
  <2>19. QED
    BY <1>6, <2>2, <2>3, <2>4, <2>5, <2>6, <2>7, <2>8, <2>9,
       <2>10, <2>11, <2>12, <2>13, <2>14, <2>15, <2>16, <2>17, <2>18 DEF Step
<1>7. CASE UNCHANGED vars
  BY <1>7 DEF vars, managerVars, CallsOnlyInv
<1>8. QED
  BY <1>3, <1>4, <1>5, <1>6, <1>7 DEF Next

(* Between requests that follow one another, unless something just failed, *)
(* routes and registry are those of the clients online; and a builtin is   *)
(* gone exactly when a tool took its name (manager.go, refreshTools;       *)
(* bootstrap/app.go, syncTools).                                           *)
THEOREM RegistryIsInStep == Spec => []RegistryInStep
<1>1. ShadowInv /\ StepInv /\ CallsOnlyInv => RegistryInStep
  <2> SUFFICES ASSUME ShadowInv, StepInv, CallsOnlyInv, Serial, At(Main, "done"), ~fault
               PROVE  InStep(AllDefs, tools, registry, mcpNames)
    BY DEF RegistryInStep, ShadowInv, InStep, AllDefs
  <2>1. \A o \in Goroutines : op[o].at \in {"idle", "done"} \/ op[o].kind = "call"
    BY DEF Serial, Busy
  <2>2. \A o \in Goroutines : Settled(op[o])
    BY <2>1 DEF CallsOnlyInv, CallsOnly, Settled
  <2>3. QED
    BY <2>2 DEF Serial, StepInv
<1>2. Init => SerialInv /\ ShadowInv /\ StepInv /\ CallsOnlyInv
  <2>1. Init => CallsOnlyInv
    BY ManagerAssumption DEF Init, Idle, CallsOnlyInv, CallsOnly
  <2>2. QED
    BY <2>1, SerialInitially, StepInitially
<1>3. ManagerInv /\ SerialInv /\ [Next]_vars => SerialInv'
  BY SerialInductive
<1>4. ManagerInv /\ SerialInv /\ ShadowInv /\ StepInv /\ CallsOnlyInv /\ [Next]_vars
      => ShadowInv' /\ StepInv' /\ CallsOnlyInv'
  BY ShadowInductive, StepInductive, CallsOnlyInductive
<1>5. QED
  BY <1>1, <1>2, <1>3, <1>4, ManagerInvariant, PTL DEF Spec

================================================================================
