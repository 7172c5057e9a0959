------------------------------- MODULE MCPManager -------------------------------
(***************************************************************************)
(* The MCP manager (infrastructure/mcp/manager.go) between the service     *)
(* that stores servers (domain/mcp/service/mcp_service.go), the clients it *)
(* starts and closes, the routes of their tools, and the agent's registry, *)
(* which a callback keeps in step.  Requests are handled by goroutines of  *)
(* their own; the manager's lock covers single reads and writes of its     *)
(* maps, never a client's start or its listing of tools.  The callback has *)
(* no lock at all.                                                         *)
(*                                                                         *)
(* A process may die and be started again: the stored servers survive.     *)
(***************************************************************************)
EXTENDS Naturals, FiniteSets

CONSTANTS
  Servers,    \* server names
  Names,      \* names of tools
  Configs,    \* what a request may configure a server as
  Builtins,   \* those of them that are the agent's own tools
  Yaml,       \* the servers the configuration file enables, and how
  Ops,        \* requests
  Main,       \* the goroutine that starts the process
  ClientIds,  \* bound: clients ever made
  MaxBoots,   \* bound: how often the process is started
  None

(* A configuration: whether the server is enabled, and the tools it has. *)
ServerConfigs == [on : BOOLEAN, offers : SUBSET Names]

Clients == [server : Servers, offers : SUBSET Names, open : BOOLEAN, warm : BOOLEAN]

ASSUME ManagerAssumption ==
  /\ Configs \subseteq ServerConfigs
  /\ Builtins \subseteq Names
  /\ None \notin Servers \cup Clients \cup ClientIds \cup ServerConfigs
  /\ None \notin {"boot", "install", "call"}
  /\ DOMAIN Yaml \subseteq Servers
  /\ \A s \in DOMAIN Yaml : Yaml[s] \in ServerConfigs /\ Yaml[s].on
  /\ Main \notin Ops
  /\ MaxBoots \in Nat \ {0}

VARIABLES
  repo,      \* stored servers (mcp_server_config)
  configs,   \* Manager.configs
  clients,   \* Manager.clients
  client,    \* the clients that were made
  tools,     \* Manager.toolDefs and toolRoute, always written together
  registry,  \* the tools of the agent's registry, its own ones of server None
  mcpNames,  \* MCPService.mcpToolNames
  op,        \* the local state of each goroutine
  boots

(* History: whether two requests were ever at work at the same time in     *)
(* this process; the servers two goroutines were starting at the same      *)
(* time; whether a start or a listing failed since all tools were listed;  *)
(* the builtins a tool of a server took the name of; and the stored        *)
(* servers that could not be read, or deleted, when they were asked for.   *)
VARIABLES overlap, raced, fault, shadowed, strays

managerVars == <<configs, clients, client, tools, registry, mcpNames>>
ghostVars == <<overlap, raced, fault, shadowed, strays>>
vars == <<repo, managerVars, op, boots, ghostVars>>

Goroutines == Ops \cup {Main}

(* A tool goes by its own name or, when servers share it, by the server's  *)
(* name and its own.                                                       *)
Defs == [name : {<<n>> : n \in Names} \cup (Servers \X Names), server : Servers, tool : Names]

Builtin(n) == [name |-> <<n>>, server |-> None, tool |-> n]

(* Build registers the builtins before there is a manager.                 *)
OwnTools == {Builtin(n) : n \in Builtins}

Nothing == [s \in Servers |-> None]

(* What a goroutine keeps: its kind, where it matters; the servers to      *)
(* remove and to start and their configurations; whether the tools are     *)
(* refreshed in the end; the server and client at hand; the clients it     *)
(* lists, their tools, and those left to register; the tool it called and  *)
(* the server that answered.                                               *)
Idle == [at |-> "idle", kind |-> None, removes |-> {}, adds |-> {}, cfgs |-> Nothing,
         refresh |-> FALSE, server |-> None, client |-> None, snap |-> {},
         defs |-> {}, todo |-> {}, def |-> None, answered |-> None]

At(o, l) == op[o].at = l

Becomes(o, local) == op' = [op EXCEPT ![o] = local]

Over == [Idle EXCEPT !.at = "done"]

Answered(o, s) == [Over EXCEPT !.def = op[o].def, !.answered = s]

OnlineClients == {clients[s] : s \in Servers} \ {None}

Init ==
  /\ repo = Nothing /\ configs = Nothing /\ clients = Nothing
  /\ client = [c \in ClientIds |-> None]
  /\ tools = {} /\ registry = OwnTools /\ mcpNames = {}
  /\ op = [o \in Goroutines |-> Idle]
  /\ boots = 0
  /\ overlap = FALSE /\ raced = {} /\ fault = FALSE /\ shadowed = {} /\ strays = {}

--------------------------------------------------------------------------------
(* Start of the process *)

Enabled(cfg) == cfg # None /\ cfg.on

(* How configuration file and stored servers are merged. *)
Merged_YamlWins(s, listed) ==
  IF s \in DOMAIN Yaml THEN Yaml[s] ELSE IF listed /\ Enabled(repo[s]) THEN repo[s] ELSE None

Merged(s, listed) ==
  IF listed /\ Enabled(repo[s]) THEN repo[s] ELSE IF s \in DOMAIN Yaml THEN Yaml[s] ELSE None

(* The configuration file and the stored servers that are enabled are      *)
(* merged, the stored ones winning, unless they cannot be listed; and each *)
(* server of the file is stored that is not found, or cannot be read, over *)
(* the one that is stored.  Then the manager starts them all.              *)
Boot(listed, read, saved) ==
  /\ At(Main, "idle") /\ boots < MaxBoots
  /\ LET merged == [s \in Servers |-> Merged(s, listed)]
     IN /\ configs' = merged
        /\ Becomes(Main, [Idle EXCEPT !.at = "next", !.kind = "boot", !.cfgs = merged,
             !.adds = {s \in Servers : Enabled(merged[s])}, !.refresh = TRUE])
  /\ repo' = [s \in Servers |->
       IF s \in saved /\ (s \in read => repo[s] = None) THEN Yaml[s] ELSE repo[s]]
  /\ strays' = {s \in Servers : repo[s] # None /\ ~(listed /\ (s \in DOMAIN Yaml => s \in read))}
  /\ boots' = boots + 1
  /\ UNCHANGED <<clients, client, tools, registry, mcpNames, overlap, raced, fault, shadowed>>

(* The process dies, and its clients and requests with it: it is stopped,  *)
(* or the Go runtime notices that two callbacks (syncTools) use the map of *)
(* mcpToolNames at the same time and ends it.                              *)
Die ==
  /\ boots > 0 /\ boots < MaxBoots
  /\ configs' = Nothing /\ clients' = Nothing
  /\ client' = [c \in ClientIds |-> None]
  /\ tools' = {} /\ registry' = OwnTools /\ mcpNames' = {}
  /\ op' = [o \in Goroutines |->
       IF o = Main \/ At(o, "idle") THEN Idle ELSE [Idle EXCEPT !.at = "done"]]
  /\ overlap' = FALSE /\ raced' = {} /\ fault' = FALSE /\ shadowed' = {} /\ strays' = {}
  /\ UNCHANGED <<repo, boots>>

--------------------------------------------------------------------------------
(* Requests *)

Busy == {o \in Goroutines : op[o].at \notin {"idle", "done"}}

(* Requests are served once the process has started. *)
Arrives(o) ==
  /\ o \in Ops /\ At(o, "idle") /\ At(Main, "done")
  /\ overlap' = (overlap \/ Busy # {})

(* UpsertServer stores the server, then AddOrUpdate takes over; when it    *)
(* succeeded, InstallCustom lists the tools.                               *)
InstallCustom(o, s, cfg) ==
  /\ Arrives(o)
  /\ repo' = [repo EXCEPT ![s] = cfg]
  /\ strays' = strays \ {s}
  /\ Becomes(o, [Idle EXCEPT !.at = "next", !.kind = "install", !.adds = {s},
                 !.cfgs = [Nothing EXCEPT ![s] = cfg], !.refresh = TRUE])
  /\ UNCHANGED <<managerVars, boots, raced, fault, shadowed>>

(* That the server could not be deleted from the repository is ignored.    *)
Delete(o, s, deleted) ==
  /\ Arrives(o)
  /\ IF deleted THEN repo' = [repo EXCEPT ![s] = None] /\ strays' = strays \ {s}
     ELSE strays' = strays \cup {s} /\ UNCHANGED repo
  /\ Becomes(o, [Idle EXCEPT !.at = "next", !.removes = {s}])
  /\ UNCHANGED <<managerVars, boots, raced, fault, shadowed>>

(* ReloadFromDB reads the enabled servers and ReloadAll compares them with *)
(* the clients.                                                            *)
Reload(o) ==
  /\ Arrives(o)
  /\ LET wanted == {s \in Servers : Enabled(repo[s])}
     IN Becomes(o, [Idle EXCEPT !.at = "next", !.adds = wanted, !.cfgs = repo,
          !.removes = {s \in Servers : clients[s] # None} \ wanted, !.refresh = TRUE])
  /\ strays' = {}
  /\ UNCHANGED <<repo, managerVars, boots, raced, fault, shadowed>>

(* A repository that fails ends an install or a reload.                    *)
Refuse(o) ==
  /\ Arrives(o)
  /\ Becomes(o, Over)
  /\ UNCHANGED <<repo, managerVars, boots, raced, fault, shadowed, strays>>

(* Listing the tools refreshes them when there are none. *)
ListTools(o) ==
  /\ Arrives(o) /\ tools = {}
  /\ Becomes(o, [Idle EXCEPT !.at = "snap"])
  /\ UNCHANGED <<repo, managerVars, boots, raced, fault, shadowed, strays>>

--------------------------------------------------------------------------------
(* Clients *)

Closed(c) == IF c = None THEN client ELSE [client EXCEPT ![c].open = FALSE]

Drop_StaysMapped(s) ==
  /\ client' = Closed(clients[s])
  /\ UNCHANGED clients

(* The client of s, if it has one, is closed and dropped. *)
Drop(s) ==
  /\ client' = Closed(clients[s])
  /\ clients' = [clients EXCEPT ![s] = None]

(* Remove, and its refresh. *)
Remove(o) ==
  /\ At(o, "next")
  /\ \E s \in op[o].removes :
       /\ Drop(s)
       /\ configs' = [configs EXCEPT ![s] = None]
       /\ Becomes(o, [op[o] EXCEPT !.at = "snap", !.removes = @ \ {s}])
  /\ UNCHANGED <<repo, tools, registry, mcpNames, boots, ghostVars>>

(* The next server is configured; one that is disabled is removed. *)
Configure(o) ==
  /\ At(o, "next") /\ op[o].removes = {}
  /\ \E s \in op[o].adds :
       /\ configs' = [configs EXCEPT ![s] = op[o].cfgs[s]]
       /\ Becomes(o, IF op[o].cfgs[s].on
                     THEN [op[o] EXCEPT !.at = "close", !.adds = @ \ {s}, !.server = s]
                     ELSE [op[o] EXCEPT !.adds = {}, !.removes = {s}, !.refresh = FALSE])
  /\ UNCHANGED <<repo, clients, client, tools, registry, mcpNames, boots, ghostVars>>

(* The goroutines inside startOne for server s. *)
Starting(s) == {o \in Goroutines : op[o].at \in {"init", "store"} /\ op[o].server = s}

CloseOld_LeavesIt(o) ==
  /\ At(o, "close")
  /\ Becomes(o, [op[o] EXCEPT !.at = "init"])
  /\ UNCHANGED <<repo, managerVars, boots, ghostVars>>

(* startOne closes the old client, *)
CloseOld(o) ==
  /\ At(o, "close")
  /\ Drop(op[o].server)
  /\ raced' = IF Starting(op[o].server) # {} THEN raced \cup {op[o].server} ELSE raced
  /\ Becomes(o, [op[o] EXCEPT !.at = "init"])
  /\ UNCHANGED <<repo, configs, tools, registry, mcpNames, boots, overlap, fault, shadowed, strays>>

(* initialises a new one, which lists its tools for its cache if it can,   *)
InitializeOne(o, c, warm) ==
  /\ At(o, "init") /\ client[c] = None
  /\ \A d \in ClientIds : client[d] = None => c <= d
  /\ client' = [client EXCEPT ![c] = [server |-> op[o].server, open |-> TRUE, warm |-> warm,
                                      offers |-> op[o].cfgs[op[o].server].offers]]
  /\ Becomes(o, [op[o] EXCEPT !.at = "store", !.client = c])
  /\ UNCHANGED <<repo, configs, clients, tools, registry, mcpNames, boots, ghostVars>>

(* which may fail: AddOrUpdate returns then, the other callers go on,      *)
InitializeFails(o) ==
  /\ At(o, "init")
  /\ fault' = TRUE
  /\ Becomes(o, IF op[o].kind = "install" THEN Over ELSE [op[o] EXCEPT !.at = "next", !.server = None])
  /\ UNCHANGED <<repo, managerVars, boots, overlap, raced, shadowed, strays>>

(* and stores it. *)
Store(o) ==
  /\ At(o, "store")
  /\ clients' = [clients EXCEPT ![op[o].server] = op[o].client]
  /\ configs' = [configs EXCEPT ![op[o].server] = op[o].cfgs[op[o].server]]
  /\ Becomes(o, [op[o] EXCEPT !.at = "next", !.server = None, !.client = None])
  /\ UNCHANGED <<repo, client, tools, registry, mcpNames, boots, ghostVars>>

(* All servers are done: a last refresh, or the end.  At the start of the  *)
(* process, and by InstallCustom, the tools are listed once more.          *)
Finish(o) ==
  /\ At(o, "next") /\ op[o].removes = {} /\ op[o].adds = {}
  /\ Becomes(o, IF op[o].refresh
                THEN [Idle EXCEPT !.at = "snap", !.kind = op[o].kind]
                ELSE IF op[o].kind \in {"boot", "install"} /\ tools = {}
                THEN [Idle EXCEPT !.at = "snap"]
                ELSE Over)
  /\ UNCHANGED <<repo, managerVars, boots, ghostVars>>

--------------------------------------------------------------------------------
(* refreshTools and its callback, syncTools *)

Snapshot(o) ==
  /\ At(o, "snap")
  /\ Becomes(o, [op[o] EXCEPT !.at = "list", !.snap = OnlineClients])
  /\ UNCHANGED <<repo, managerVars, boots, ghostVars>>

Exposed_OwnName(c, n, listed) == <<n>>

(* The name tool n of client c goes by among the tools that were listed. *)
Exposed(c, n, listed) ==
  IF \E d \in listed \ {c} : n \in client[d].offers THEN <<client[c].server, n>> ELSE <<n>>

(* The definitions of the tools of the clients that were listed. *)
DefsOf(listed) ==
  UNION {{[name |-> Exposed(c, n, listed), server |-> client[c].server, tool |-> n] :
            n \in client[c].offers} : c \in listed}

(* Each client lists its tools, closed or not, when it has done so before; *)
(* another one may fail.                                                   *)
List(o) ==
  /\ At(o, "list")
  /\ \E listed \in SUBSET op[o].snap :
       /\ \A c \in op[o].snap : client[c].warm => c \in listed
       /\ \A c \in listed : client[c].warm \/ client[c].open
       /\ client' = [c \in ClientIds |->
            IF c \in listed THEN [client[c] EXCEPT !.warm = TRUE] ELSE client[c]]
       /\ fault' = (listed # op[o].snap)
       /\ Becomes(o, [op[o] EXCEPT !.at = "publish", !.snap = {}, !.defs = DefsOf(listed)])
  /\ UNCHANGED <<repo, configs, clients, tools, registry, mcpNames, boots, overlap, raced, shadowed,
                 strays>>

Publish(o) ==
  /\ At(o, "publish")
  /\ tools' = op[o].defs
  /\ Becomes(o, [op[o] EXCEPT !.at = "unregister"])
  /\ UNCHANGED <<repo, configs, clients, client, registry, mcpNames, boots, ghostVars>>

Unregister_Nothing(o) ==
  /\ At(o, "unregister")
  /\ Becomes(o, [op[o] EXCEPT !.at = "forget"])
  /\ UNCHANGED <<repo, managerVars, boots, ghostVars>>

Unregister(o) ==
  /\ At(o, "unregister")
  /\ registry' = {d \in registry : d.name \notin mcpNames}
  /\ Becomes(o, [op[o] EXCEPT !.at = "forget"])
  /\ UNCHANGED <<repo, configs, clients, client, tools, mcpNames, boots, ghostVars>>

Forget(o) ==
  /\ At(o, "forget")
  /\ mcpNames' = {}
  /\ Becomes(o, [op[o] EXCEPT !.at = "register", !.todo = op[o].defs, !.defs = {}])
  /\ UNCHANGED <<repo, configs, clients, client, tools, registry, boots, ghostVars>>

Register(o) ==
  /\ At(o, "register")
  /\ \E d \in op[o].todo :
       /\ registry' = {e \in registry : e.name # d.name} \cup {d}
       /\ mcpNames' = mcpNames \cup {d.name}
       /\ shadowed' = shadowed \cup {n \in Builtins : d.name = <<n>>}
       /\ Becomes(o, [op[o] EXCEPT !.todo = @ \ {d}])
  /\ UNCHANGED <<repo, configs, clients, client, tools, boots, overlap, raced, fault, strays>>

Registered(o) ==
  /\ At(o, "register") /\ op[o].todo = {}
  /\ Becomes(o, [op[o] EXCEPT !.at = "next"])
  /\ UNCHANGED <<repo, managerVars, boots, ghostVars>>

--------------------------------------------------------------------------------
(* A tool call of the agent *)

(* The agent takes a tool of a server from the registry. *)
Call(o) ==
  /\ Arrives(o)
  /\ \E d \in registry \ OwnTools : Becomes(o, [Idle EXCEPT !.at = "route", !.kind = "call", !.def = d])
  /\ UNCHANGED <<repo, managerVars, boots, raced, fault, shadowed, strays>>

(* CallTool looks its name up among the routes, *)
Route(o) ==
  /\ At(o, "route")
  /\ \E d \in tools :
       /\ d.name = op[o].def.name
       /\ Becomes(o, [op[o] EXCEPT !.at = "send", !.server = d.server])
  /\ UNCHANGED <<repo, managerVars, boots, ghostVars>>

(* and calls the client of that server, if there is one and it answers. *)
Send(o) ==
  /\ At(o, "send")
  /\ LET c == clients[op[o].server] IN
       \/ c # None /\ client[c].open /\ Becomes(o, Answered(o, op[o].server))
       \/ Becomes(o, Over)
  /\ UNCHANGED <<repo, managerVars, boots, ghostVars>>

(* Without a route it asks one client after the other for a tool of that   *)
(* name.                                                                   *)
AskAll(o) ==
  /\ At(o, "route") /\ \A d \in tools : d.name # op[o].def.name
  /\ \/ \E c \in OnlineClients :
          /\ client[c].open /\ op[o].def.name = <<op[o].def.tool>>
          /\ op[o].def.tool \in client[c].offers
          /\ Becomes(o, Answered(o, client[c].server))
     \/ Becomes(o, Over)
  /\ UNCHANGED <<repo, managerVars, boots, ghostVars>>

Step(o) ==
  \/ Remove(o) \/ Configure(o) \/ CloseOld(o) \/ InitializeFails(o) \/ Store(o) \/ Finish(o)
  \/ \E c \in ClientIds, warm \in BOOLEAN : InitializeOne(o, c, warm)
  \/ Snapshot(o) \/ List(o) \/ Publish(o) \/ Unregister(o) \/ Forget(o)
  \/ Register(o) \/ Registered(o)
  \/ Route(o) \/ Send(o) \/ AskAll(o)

Request(o) ==
  \/ \E s \in Servers, cfg \in Configs : InstallCustom(o, s, cfg)
  \/ \E s \in Servers, deleted \in BOOLEAN : Delete(o, s, deleted)
  \/ Reload(o) \/ Refuse(o) \/ ListTools(o) \/ Call(o)

Next ==
  \/ \E listed \in BOOLEAN, read, saved \in SUBSET DOMAIN Yaml : Boot(listed, read, saved)
  \/ Die
  \/ \E o \in Ops : Request(o)
  \/ \E o \in Goroutines : Step(o)

Spec == Init /\ [][Next]_vars

--------------------------------------------------------------------------------
(* Every variable holds a value of its type. *)
TypeOK ==
  /\ repo \in [Servers -> ServerConfigs \cup {None}]
  /\ configs \in [Servers -> ServerConfigs \cup {None}]
  /\ clients \in [Servers -> ClientIds \cup {None}]
  /\ client \in [ClientIds -> Clients \cup {None}]
  /\ tools \subseteq Defs /\ registry \subseteq Defs \cup OwnTools
  /\ mcpNames \subseteq {d.name : d \in Defs}
  /\ \A o \in Goroutines :
       /\ op[o].client \in ClientIds \cup {None}
       /\ At(o, "store") => op[o].client # None
  /\ boots \in 0 .. MaxBoots

(* However requests race, a client in the manager's map has not been       *)
(* closed and is one of its server, and the server has a configuration.    *)
MappedClientsAreOpen ==
  /\ TypeOK
  /\ \A s \in Servers : clients[s] # None =>
       client[clients[s]].open /\ client[clients[s]].server = s /\ configs[s] # None

InHand == {op[o].client : o \in Goroutines}

(* A client, which is a process of its own, is forgotten without being     *)
(* closed only when two goroutines started its server at the same time.    *)
ClientsLeakByRacesOnly ==
  \A c \in ClientIds :
    client[c] # None /\ client[c].open /\ c \notin OnlineClients \cup InHand =>
      client[c].server \in raced

Serial == ~overlap /\ \A o \in Busy : op[o].kind = "call"

(* Between requests that follow one another, unless a start or a listing   *)
(* just failed, the tools, their routes and the agent's registry are those *)
(* of the clients that are online (features.md:56).  However requests      *)
(* race, a builtin leaves the registry only for a tool of its name (and is *)
(* not back when that tool goes).                                          *)
RegistryInStep ==
  /\ Serial /\ At(Main, "done") /\ ~fault =>
       /\ tools = DefsOf(OnlineClients)
       /\ registry \ OwnTools = tools
       /\ mcpNames = {d.name : d \in tools}
  /\ registry \cap OwnTools = {Builtin(n) : n \in Builtins \ shadowed}

(* Between such requests a server that is stored and enabled is configured *)
(* as it is stored, and one that is online is stored and enabled or in the *)
(* configuration file (features.md:57): but for those the repository       *)
(* failed to read at the start or to delete, which nobody notices, until   *)
(* they are installed or deleted, or all are reloaded.                     *)
StoredServersAreKept ==
  Serial /\ At(Main, "done") =>
    \A s \in Servers \ strays :
      /\ Enabled(repo[s]) => configs[s] = repo[s]
      /\ clients[s] # None => Enabled(repo[s]) \/ s \in DOMAIN Yaml

(* Between such requests a call is answered by the server whose tool it    *)
(* is, though another may offer one of the same name.                      *)
CallsReachTheirServer ==
  ~overlap => \A o \in Ops : op[o].answered # None => op[o].answered = op[o].def.server
================================================================================
