------------------------------- MODULE AppState -------------------------------
(***************************************************************************)
(* state.rs, config.rs, the administration handlers of routes.rs and the   *)
(* console of main.rs: the configured servers, the proxies that run them   *)
(* and the configuration file.                                             *)
(*                                                                         *)
(* Users are HTTP handlers that need a proxy: they go through              *)
(* get_or_spawn and keep the Arc they are given while their request or     *)
(* stream lasts.  Admins are administration handlers and the console.      *)
(* config and proxies each sit behind a mutex that is not reentrant;       *)
(* none of these functions suspends, but they run on several threads, so   *)
(* a step is what a task does under one acquisition of a mutex.            *)
(***************************************************************************)
EXTENDS Integers, Sequences, Table

CONSTANTS
  User,        \* tasks in need of a proxy
  Admin,       \* tasks that administer the gateway
  Console,     \* the one of them that reads the terminal
  Server,      \* server ids
  Entry,       \* McpEntry: records of `launch`, what the child is started
               \* with, and `http`, whether it is proxied over HTTP instead
  Operations,  \* what administrators do
  Initial,     \* the configuration the program starts with
  Unreadable,  \* a file that does not parse
  MaxOps,      \* bound: operations and restarts
  MaxSpawns    \* bound: proxies spawned

Config == UNION {[D -> Entry] : D \in SUBSET Server}
Task == User \cup Admin
Mutex == {"config", "proxies"}
Free == "free"
NoEntry == [launch |-> Free, http |-> FALSE]

ASSUME TasksAssumption ==
  Console \in Admin /\ User \cap Admin = {} /\ Free \notin Task
ASSUME InitialAssumption == Initial \in Config
ASSUME EntryAssumption ==
  NoEntry \notin Entry /\ \A e \in Entry : e.http \in BOOLEAN
ASSUME LimitsAssumption == MaxOps \in Nat /\ MaxSpawns \in Nat

VARIABLES
  config,    \* AppState::config, server -> entry
  proxies,   \* AppState::proxies, server -> number of its proxy
  file,      \* what the configuration file holds
  lock,      \* lock[m], the task that holds mutex m across steps
  pc,        \* pc[t], where task t is
  arg,       \* arg[t], the server and the entry t is busy with
  held,      \* held[u], the proxy whose Arc user u has, 0 for none
  wants,     \* wants[a], the mutexes admin a has still to take
  text,      \* text[a], the configuration admin a has read or is to write
  todo,      \* servers the console has still to print
  spawned,   \* the proxies spawned so far, and with what
  exited,    \* those whose child has exited by itself
  ops,       \* operations and restarts so far
  astray     \* history: the file was edited, or a write of it failed, or
             \* a reload applied what it no longer held, and nothing since
             \* has brought it and the configuration together

store == <<config, proxies, file, lock>>
adminVars == <<wants, text, todo>>
proxyVars == <<spawned, exited>>
vars == <<store, pc, arg, held, adminVars, proxyVars, ops, astray>>

-----------------------------------------------------------------------------
NoArg == [id |-> Free, entry |-> NoEntry]

TypeOK ==
  /\ config \in Config
  /\ file \in Config \cup {Unreadable}
  /\ DOMAIN proxies \subseteq Server
  /\ \A i \in DOMAIN proxies : proxies[i] \in DOMAIN spawned
  /\ lock \in [Mutex -> Admin \cup {Free}]
  /\ pc \in [Task -> {"idle", "missing", "spawning", "inserting", "holding",
                      "save", "saving", "unproxy", "reload", "view", "status",
                      "ids", "list", "dead"}]
  /\ arg \in [Task -> [id : Server \cup {Free}, entry : Entry \cup {NoEntry}]]
  /\ held \in [User -> {0} \cup DOMAIN spawned]
  /\ wants \in [Admin -> Seq(Mutex)]
  /\ text \in [Admin -> Config]
  /\ todo \subseteq Server
  /\ spawned \in Seq([id : Server, entry : Entry])
  /\ exited \subseteq DOMAIN spawned
  /\ ops \in 0 .. MaxOps
  /\ astray \in BOOLEAN

Init ==
  /\ config = Initial /\ file = Initial
  /\ proxies = EmptyTable
  /\ lock = [m \in Mutex |-> Free]
  /\ pc = [t \in Task |-> "idle"]
  /\ arg = [t \in Task |-> NoArg]
  /\ held = [u \in User |-> 0]
  /\ wants = [a \in Admin |-> <<>>]
  /\ text = [a \in Admin |-> EmptyTable]
  /\ todo = {}
  /\ spawned = <<>> /\ exited = {}
  /\ ops = 0
  /\ astray = FALSE

Goto(t, l) == pc' = [pc EXCEPT ![t] = l]
Return(t) == Goto(t, "idle") /\ arg' = [arg EXCEPT ![t] = NoArg]

(* A mutex taken and given back within one step. *)
With(m) == lock[m] = Free

-----------------------------------------------------------------------------
(* get_or_spawn.                                                           *)

(* Mutant: a proxy of the server is found as long as its child is there,   *)
(* in a cache that commands and reloads do not reach.                      *)
LookupCached(u, i) ==
  /\ pc[u] = "idle" /\ With("proxies")
  /\ \/ /\ i \in DOMAIN proxies
        /\ held' = [held EXCEPT ![u] = proxies[i]] /\ Goto(u, "holding")
     \/ /\ i \notin DOMAIN proxies
        /\ \E n \in DOMAIN spawned \ exited :
             spawned[n].id = i /\ held' = [held EXCEPT ![u] = n]
        /\ Goto(u, "holding")
     \/ /\ i \notin DOMAIN proxies
        /\ \A n \in DOMAIN spawned \ exited : spawned[n].id # i
        /\ Goto(u, "missing") /\ UNCHANGED held
  /\ arg' = [arg EXCEPT ![u] = [id |-> i, entry |-> NoEntry]]
  /\ UNCHANGED <<store, adminVars, proxyVars, ops, astray>>

(* proxies.lock().get(id).cloned() *)
Lookup(u, i) ==
  /\ pc[u] = "idle" /\ With("proxies")
  /\ IF i \in DOMAIN proxies
     THEN held' = [held EXCEPT ![u] = proxies[i]] /\ Goto(u, "holding")
     ELSE Goto(u, "missing") /\ UNCHANGED held
  /\ arg' = [arg EXCEPT ![u] = [id |-> i, entry |-> NoEntry]]
  /\ UNCHANGED <<store, adminVars, proxyVars, ops, astray>>

(* config.lock().mcp.get(id), or UnknownServer. *)
ReadEntry(u) ==
  /\ pc[u] = "missing" /\ With("config")
  /\ IF arg[u].id \in DOMAIN config
     THEN /\ arg' = [arg EXCEPT ![u].entry = config[arg[u].id]]
          /\ Goto(u, "spawning")
     ELSE Return(u)
  /\ UNCHANGED <<store, held, adminVars, proxyVars, ops, astray>>

(* ChildProxy::spawn, which fails when the program of a stdio server       *)
(* cannot be started.                                                      *)
Spawn(u) ==
  /\ pc[u] = "spawning"
  /\ \/ /\ Len(spawned) < MaxSpawns
        /\ spawned' = Append(spawned, arg[u])
        /\ held' = [held EXCEPT ![u] = Len(spawned')]
        /\ Goto(u, "inserting")
        /\ UNCHANGED arg
     \/ /\ ~arg[u].entry.http
        /\ Return(u)
        /\ UNCHANGED <<spawned, held>>
  /\ UNCHANGED <<store, adminVars, exited, ops, astray>>

(* proxies.lock().insert(id, proxy.clone()) *)
InsertProxy(u) ==
  /\ pc[u] = "inserting" /\ With("proxies")
  /\ proxies' = Insert(proxies, arg[u].id, held[u])
  /\ Goto(u, "holding")
  /\ UNCHANGED <<config, file, lock, arg, held, adminVars, proxyVars, ops, astray>>

(* The request is over, or its client has gone: the Arc is dropped. *)
Release(u) ==
  /\ pc[u] = "holding"
  /\ held' = [held EXCEPT ![u] = 0]
  /\ Return(u)
  /\ UNCHANGED <<store, adminVars, proxyVars, ops, astray>>

GetOrSpawn(u) == ReadEntry(u) \/ Spawn(u) \/ InsertProxy(u)

(* A proxy lives, and its child with it (kill_on_drop), while the map or a *)
(* task has its Arc; the child may also exit by itself.                    *)
Live(n) == n \in Range(proxies) \/ \E u \in User : held[u] = n
ChildExits(n) ==
  /\ Live(n) /\ n \notin exited /\ ~spawned[n].entry.http
  /\ exited' = exited \cup {n}
  /\ UNCHANGED <<store, pc, arg, held, adminVars, spawned, ops, astray>>

-----------------------------------------------------------------------------
(* add_server and disable_server.                                          *)

(* An administrator, or the terminal in the console's case, asks for op. *)
Ask(a, op) == pc[a] = "idle" /\ op \in Operations /\ ops < MaxOps /\ ops' = ops + 1

(* config.lock().mcp.insert(id, entry) *)
Add(a, i, e) ==
  /\ Ask(a, "add") /\ With("config")
  /\ config' = Insert(config, i, e)
  /\ Goto(a, "save")
  /\ arg' = [arg EXCEPT ![a] = [id |-> i, entry |-> e]]
  /\ UNCHANGED <<proxies, file, lock, held, adminVars, proxyVars, astray>>

(* config.lock().mcp.remove(id) *)
Disable(a, i) ==
  /\ Ask(a, "disable") /\ With("config")
  /\ config' = Remove(config, i)
  /\ Goto(a, "unproxy")
  /\ arg' = [arg EXCEPT ![a] = [id |-> i, entry |->
                IF i \in DOMAIN config THEN config[i] ELSE NoEntry]]
  /\ UNCHANGED <<proxies, file, lock, held, adminVars, proxyVars, astray>>

(* Mutant: the file is written only if a proxy was running. *)
DropProxySavesLive(a) ==
  /\ pc[a] = "unproxy" /\ With("proxies")
  /\ proxies' = Remove(proxies, arg[a].id)
  /\ IF arg[a].id \notin DOMAIN proxies
     THEN Return(a)
     ELSE Goto(a, "save") /\ arg' = [arg EXCEPT ![a].entry = NoEntry]
  /\ UNCHANGED <<config, file, lock, held, adminVars, proxyVars, ops, astray>>

(* proxies.lock().remove(id); the file is written only if the server was   *)
(* configured.                                                             *)
DropProxy(a) ==
  /\ pc[a] = "unproxy" /\ With("proxies")
  /\ proxies' = Remove(proxies, arg[a].id)
  /\ IF arg[a].entry = NoEntry
     THEN Return(a)
     ELSE Goto(a, "save") /\ arg' = [arg EXCEPT ![a].entry = NoEntry]
  /\ UNCHANGED <<config, file, lock, held, adminVars, proxyVars, ops, astray>>

(* Mutant: config is copied and let go before the file is written. *)
SaveOpenUnlocked(a) ==
  /\ pc[a] = "save" /\ With("config")
  /\ text' = [text EXCEPT ![a] = config]
  /\ file' = EmptyTable
  /\ Goto(a, "saving")
  /\ UNCHANGED <<config, proxies, lock, arg, held, wants, todo, proxyVars, ops,
                 astray>>

(* save_to_disk holds config from before it is put into words until it is  *)
(* written, and fs::write empties the file first; an empty file parses, to *)
(* no servers.                                                             *)
SaveOpen(a) ==
  /\ pc[a] = "save" /\ With("config")
  /\ lock' = [lock EXCEPT !["config"] = a]
  /\ text' = [text EXCEPT ![a] = config]
  /\ file' = EmptyTable
  /\ Goto(a, "saving")
  /\ UNCHANGED <<config, proxies, arg, held, wants, todo, proxyVars, ops, astray>>

SaveWrite(a) ==
  /\ pc[a] = "saving"
  /\ lock' = [lock EXCEPT !["config"] = Free]
  /\ file' = text[a]
  /\ text' = [text EXCEPT ![a] = EmptyTable]
  /\ astray' = FALSE
  /\ Return(a)
  /\ UNCHANGED <<config, proxies, held, wants, todo, proxyVars, ops>>

(* The file cannot be opened, or the write fails once it has been emptied: *)
(* an add reports it, a disable does not, and neither takes back what it   *)
(* did.                                                                    *)
SaveFails(a) ==
  /\ "full" \in Operations
  /\ \/ pc[a] = "save" /\ With("config") /\ UNCHANGED lock
     \/ pc[a] = "saving" /\ lock' = [lock EXCEPT !["config"] = Free]
  /\ text' = [text EXCEPT ![a] = EmptyTable]
  /\ astray' = TRUE
  /\ Return(a)
  /\ UNCHANGED <<config, proxies, file, held, wants, todo, proxyVars, ops>>

-----------------------------------------------------------------------------
(* Functions that hold a mutex while they take another.                    *)

(* Mutant: reload_from_disk takes them the other way round. *)
LockOrderSwapped(op) ==
  CASE op = "reload" -> <<"proxies", "config">>
    [] op = "view" -> <<"config", "proxies">>
    [] op = "status" -> <<"config", "config", "proxies">>

(* The mutexes each takes, in order: reload_from_disk; get_api_config,     *)
(* through live_ids; print_status, through ids and live_ids.               *)
LockOrder(op) ==
  CASE op = "reload" -> <<"config", "proxies">>
    [] op = "view" -> <<"config", "proxies">>
    [] op = "status" -> <<"config", "config", "proxies">>

(* Mutant: the guard of the mutex before is a temporary, and gone. *)
AcquireInTurn(a) ==
  /\ wants[a] # <<>> /\ lock[Head(wants[a])] = Free
  /\ lock' = [m \in Mutex |-> IF m = Head(wants[a]) THEN a
                             ELSE IF lock[m] = a THEN Free ELSE lock[m]]
  /\ wants' = [wants EXCEPT ![a] = Tail(@)]
  /\ UNCHANGED <<config, proxies, file, pc, arg, held, text, todo, proxyVars,
                 ops, astray>>

(* mutex.lock() *)
Acquire(a) ==
  /\ wants[a] # <<>> /\ lock[Head(wants[a])] = Free
  /\ lock' = [lock EXCEPT ![Head(wants[a])] = a]
  /\ wants' = [wants EXCEPT ![a] = Tail(@)]
  /\ UNCHANGED <<config, proxies, file, pc, arg, held, text, todo, proxyVars,
                 ops, astray>>

ReleaseLocks(a) == lock' = [m \in Mutex |-> IF lock[m] = a THEN Free ELSE lock[m]]

(* get_api_config, print_status *)
View(a) ==
  /\ Ask(a, IF a = Console THEN "status" ELSE "view")
  /\ Goto(a, IF a = Console THEN "status" ELSE "view")
  /\ wants' = [wants EXCEPT ![a] = LockOrder(pc'[a])]
  /\ UNCHANGED <<store, arg, held, text, todo, proxyVars, astray>>

Viewed(a) ==
  /\ pc[a] \in {"view", "status"} /\ wants[a] = <<>>
  /\ ReleaseLocks(a)
  /\ Return(a)
  /\ UNCHANGED <<config, proxies, file, held, adminVars, proxyVars, ops, astray>>

(* reload_from_disk: the file is read before any mutex is taken; one that  *)
(* does not parse ends the reload.                                         *)
Reload(a) ==
  /\ Ask(a, "reload")
  /\ IF file = Unreadable
     THEN UNCHANGED <<pc, wants, text>>
     ELSE /\ text' = [text EXCEPT ![a] = file]
          /\ Goto(a, "reload")
          /\ wants' = [wants EXCEPT ![a] = LockOrder("reload")]
  /\ UNCHANGED <<store, arg, held, todo, proxyVars, astray>>

(* The live proxies whose server is gone or is to be started otherwise. *)
Outdated(next) ==
  {i \in DOMAIN proxies :
     \/ i \notin DOMAIN next
     \/ i \in DOMAIN config /\ config[i].launch # next[i].launch}

Apply(a) ==
  /\ pc[a] = "reload" /\ wants[a] = <<>>
  /\ proxies' = Restrict(proxies, DOMAIN proxies \ Outdated(text[a]))
  /\ config' = text[a]
  /\ text' = [text EXCEPT ![a] = EmptyTable]
  /\ astray' = (text[a] # file)
  /\ ReleaseLocks(a)
  /\ Return(a)
  /\ UNCHANGED <<file, held, wants, todo, proxyVars, ops>>

-----------------------------------------------------------------------------
(* print_server_list: ids() and live_ids(), then a lock of config for each *)
(* id, with an unwrap of what it finds: a panic ends the console's task.   *)
List ==
  /\ Ask(Console, "list") /\ With("config")
  /\ todo' = DOMAIN config
  /\ Goto(Console, "ids")
  /\ UNCHANGED <<store, arg, held, wants, text, proxyVars, astray>>

LiveIds ==
  /\ pc[Console] = "ids" /\ With("proxies")
  /\ Goto(Console, "list")
  /\ UNCHANGED <<store, arg, held, adminVars, proxyVars, ops, astray>>

PrintServer ==
  /\ pc[Console] = "list"
  /\ IF todo = {}
     THEN Return(Console) /\ UNCHANGED todo
     ELSE /\ With("config")
          /\ \E i \in todo :
               IF i \in DOMAIN config
               THEN todo' = todo \ {i} /\ UNCHANGED pc
               ELSE todo' = {} /\ Goto(Console, "dead")
          /\ UNCHANGED arg
  /\ UNCHANGED <<store, held, wants, text, proxyVars, ops, astray>>

-----------------------------------------------------------------------------
(* Someone edits the file. *)
Edit ==
  /\ "edit" \in Operations /\ ops < MaxOps /\ ops' = ops + 1
  /\ file' \in Config \cup {Unreadable}
  /\ astray' = TRUE
  /\ UNCHANGED <<config, proxies, lock, pc, arg, held, adminVars, proxyVars>>

(* The process ends, wherever its tasks are, and is started again. *)
Restart ==
  /\ "restart" \in Operations /\ ops < MaxOps /\ ops' = ops + 1
  /\ file # Unreadable
  /\ config' = file
  /\ proxies' = EmptyTable
  /\ lock' = [m \in Mutex |-> Free]
  /\ pc' = [t \in Task |-> "idle"]
  /\ arg' = [t \in Task |-> NoArg]
  /\ held' = [u \in User |-> 0]
  /\ wants' = [a \in Admin |-> <<>>]
  /\ text' = [a \in Admin |-> EmptyTable]
  /\ todo' = {}
  /\ astray' = FALSE
  /\ UNCHANGED <<file, proxyVars>>

Administer(a) ==
  DropProxy(a) \/ SaveOpen(a) \/ SaveWrite(a) \/ SaveFails(a) \/ Acquire(a)
    \/ Viewed(a) \/ Apply(a)

Next ==
  \/ \E u \in User : \/ \E i \in Server : Lookup(u, i)
                     \/ GetOrSpawn(u) \/ Release(u)
  \/ \E n \in DOMAIN spawned : ChildExits(n)
  \/ \E a \in Admin :
       \/ \E i \in Server : Disable(a, i) \/ \E e \in Entry : Add(a, i, e)
       \/ View(a) \/ Reload(a) \/ Administer(a)
  \/ List \/ LiveIds \/ PrintServer
  \/ Edit \/ Restart

Spec == Init /\ [][Next]_vars

(* The runtime polls every task, and a mutex that is free goes to one that *)
(* wants it; users keep coming, and their requests end.                    *)
FairSpec ==
  /\ Spec
  /\ \A u \in User : /\ WF_vars(GetOrSpawn(u)) /\ WF_vars(Release(u))
                     /\ \A i \in Server : WF_vars(Lookup(u, i))
  /\ \A a \in Admin : WF_vars(Administer(a))
  /\ WF_vars(LiveIds \/ PrintServer)

-----------------------------------------------------------------------------
(* What holds.                                                             *)

(* What a task is writing to the file is the configuration, not an older   *)
(* one: nothing is changed between a save's reading it and its write.      *)
SavesWhatIsConfigured ==
  \A a \in Admin : pc[a] = "saving" => text[a] = config

(* Whenever no change is on its way to the file, the file is the           *)
(* configuration ("persisted immediately in config.toml", routes.rs:444),  *)
(* but for an edit that no reload has applied yet, a write that failed, or *)
(* a reload overtaken by a write between its reading of the file and its   *)
(* taking the mutexes: and the next write, reload or restart mends these.  *)
Quiet == \A a \in Admin : pc[a] \notin {"save", "saving", "unproxy"}
PersistedWhenQuiet == Quiet /\ ~astray => file = config

(* Users get the proxy in the map or one they have put there, and one the  *)
(* map has let go of, by whatever command or reload, never comes back.     *)
MadeFor == [n \in DOMAIN spawned |-> spawned[n].id]
Bringing == {held[u] : u \in {v \in User : pc[v] = "inserting"}}
Having == {<<u, held[u]>> : u \in {v \in User : pc[v] = "holding"}}

Map == INSTANCE ProxyMap WITH
  Proxy <- 1 .. MaxSpawns,
  Holder <- User,
  made <- MadeFor,
  bringing <- Bringing,
  mapped <- Range(proxies),
  having <- Having
MapIsKept == Map!MapSpec

(* A task that holds a mutex never waits for one that another holds, nor   *)
(* for one of its own: it can go on, so that the mutex is free again.      *)
CanGoOn(a) ==
  \/ pc[a] = "saving"
  \/ /\ pc[a] \in {"reload", "view", "status"}
     /\ wants[a] = <<>> \/ lock[Head(wants[a])] = Free
HoldersGoOn == \A m \in Mutex : lock[m] # Free => CanGoOn(lock[m])

(* No administrator waits for ever on another: every operation is over     *)
(* sooner or later, if only by the panic of a list.                        *)
AtWork(a) == pc[a] \notin {"idle", "dead"}
OperationsEnd == \A a \in Admin : AtWork(a) ~> ~AtWork(a)

-----------------------------------------------------------------------------
(* Why it does: the inductive invariant, and what it takes besides.        *)

(* A user on its way through get_or_spawn has what the next step needs,    *)
(* and the map gives for a server a proxy spawned for that server.         *)
ProxiesInv ==
  /\ \A u \in User :
       /\ pc[u] \in {"missing", "spawning", "inserting"} => arg[u].id \in Server
       /\ pc[u] = "spawning" => arg[u].entry \in Entry
       /\ pc[u] = "inserting" => held[u] # 0 /\ spawned[held[u]] = arg[u]
  /\ \A i \in DOMAIN proxies : spawned[proxies[i]].id = i

(* Nobody but the user that spawned a proxy brings it. *)
BringingInv ==
  /\ Len(spawned) <= MaxSpawns
  /\ \A u \in User : pc[u] \in {"inserting", "holding"} => held[u] # 0
  /\ \A u, v \in User :
       pc[u] = "inserting" /\ pc[v] = "inserting" /\ held[u] = held[v] => u = v

(* A task holds the mutexes it has taken in its order so far. *)
LocksInv ==
  \A a \in Admin :
    /\ pc[a] = "saving" => lock["config"] = a
    /\ pc[a] \in {"reload", "view"} =>
         \/ wants[a] = <<"config", "proxies">>
         \/ wants[a] = <<"proxies">> /\ lock["config"] = a
         \/ wants[a] = <<>> /\ lock["config"] = a /\ lock["proxies"] = a
    /\ pc[a] = "status" =>
         \/ wants[a] = <<"config", "config", "proxies">>
         \/ wants[a] = <<"config", "proxies">> /\ lock["config"] = a
    /\ pc[a] \notin {"reload", "view", "status"} => wants[a] = <<>>

(* And a mutex that is taken is in the hands of a task that knows: of one  *)
(* that saves, or of one that has taken config before proxies.             *)
HoldersInv ==
  /\ \A a \in Admin : pc[a] # "status"
  /\ lock["config"] # Free =>
       \/ pc[lock["config"]] = "saving"
       \/ /\ pc[lock["config"]] \in {"reload", "view"}
          /\ wants[lock["config"]] \in {<<"proxies">>, <<>>}
  /\ lock["proxies"] # Free =>
       /\ lock["config"] = lock["proxies"]
       /\ pc[lock["proxies"]] \in {"reload", "view"}
       /\ wants[lock["proxies"]] = <<>>

IInv == TypeOK /\ ProxiesInv /\ LocksInv /\ SavesWhatIsConfigured

(* Someone is on the way to the file with what it lacks. *)
ToSave(a) ==
  \/ pc[a] \in {"save", "saving"}
  \/ pc[a] = "unproxy" /\ arg[a].entry # NoEntry

PersistInv == file = config \/ astray \/ \E a \in Admin : ToSave(a)

-----------------------------------------------------------------------------
(* What the documentation says and the code does not do.                   *)

(* "One child process per configured id", PLAN.md:17. *)
OneChildPerId ==
  \A n, m \in DOMAIN spawned :
    Live(n) /\ Live(m) /\ spawned[n].id = spawned[m].id => n = m

(* "Reads the on-disk TOML again and recycles active proxies if settings   *)
(* differ or have been deleted", routes.rs:413: where every proxy ran what *)
(* is configured for its server before the reload, every one does after.   *)
Current ==
  \A i \in DOMAIN proxies :
    i \in DOMAIN config /\ spawned[proxies[i]].entry = config[i]
ReloadRecycles == [][\A a \in Admin : Apply(a) /\ Current => Current']_vars
=============================================================================
