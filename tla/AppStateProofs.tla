---------------------------- MODULE AppStateProofs ----------------------------
(***************************************************************************)
(* Theorems about AppState, for every set of tasks, servers and entries    *)
(* and every bound.                                                        *)
(***************************************************************************)
EXTENDS AppState, TLAPS

(* A configuration gives servers entries. *)
LEMMA ConfigFacts ==
  ASSUME NEW c \in Config
  PROVE  DOMAIN c \subseteq Server /\ \A i \in DOMAIN c : c[i] \in Entry
BY DEF Config

(* The tables keep to their types. *)
LEMMA ConfigTables ==
  ASSUME NEW c \in Config, NEW i \in Server
  PROVE  /\ \A e \in Entry : Insert(c, i, e) \in Config
         /\ Remove(c, i) \in Config
<1> USE ConfigFacts
<1>1. ASSUME NEW e \in Entry PROVE Insert(c, i, e) \in Config
  <2>1. Insert(c, i, e) \in [DOMAIN c \cup {i} -> Entry]
    BY DEF Insert
  <2> QED BY <2>1 DEF Config
<1>2. Remove(c, i) \in Config
  <2>1. Remove(c, i) \in [DOMAIN c \ {i} -> Entry]
    BY DEF Remove, Restrict
  <2> QED BY <2>1 DEF Config
<1> QED BY <1>1, <1>2

(* An emptied file is a configuration. *)
LEMMA EmptyConfig == EmptyTable \in Config
BY DEF Config, EmptyTable

(* What an idle task is busy with has its type. *)
LEMMA NoArgType ==
  /\ NoArg \in [id : Server \cup {Free}, entry : Entry \cup {NoEntry}]
  /\ NoArg.entry = NoEntry
BY DEF NoArg

(* The inductive invariant holds when the program has started. *)
LEMMA InitIInv == Init => IInv
<1> SUFFICES ASSUME Init PROVE IInv
  OBVIOUS
<1> USE TasksAssumption, InitialAssumption, LimitsAssumption DEF Init
<1>1. TypeOK
  <2>2. DOMAIN proxies = {}
    BY DEF EmptyTable
  <2>3. astray \in BOOLEAN
    OBVIOUS
  <2> QED BY <2>2, <2>3, NoArgType, EmptyConfig DEF TypeOK, Task
<1>2. ProxiesInv /\ LocksInv /\ SavesWhatIsConfigured
  BY DEF ProxiesInv, LocksInv, SavesWhatIsConfigured, Task, EmptyTable
<1> QED BY <1>1, <1>2 DEF IInv

-----------------------------------------------------------------------------
(* get_or_spawn keeps the invariant: it changes neither the configuration  *)
(* nor an administrator.                                                   *)
LEMMA UserStep ==
  ASSUME IInv, NEW u \in User,
         (\E i \in Server : Lookup(u, i)) \/ GetOrSpawn(u) \/ Release(u)
  PROVE  IInv'
<1> USE TasksAssumption, LimitsAssumption, NoArgType
        DEF TypeOK, Task, Goto, store, adminVars, proxyVars
<1>t. TypeOK /\ ProxiesInv
  BY DEF IInv
<1>0. LocksInv' /\ SavesWhatIsConfigured'
  <2>1. \A a \in Admin : pc'[a] = pc[a]
    BY <1>t DEF GetOrSpawn, Lookup, ReadEntry, Spawn, InsertProxy, Release, Return
  <2>2. UNCHANGED <<config, lock, wants, text>>
    BY DEF GetOrSpawn, Lookup, ReadEntry, Spawn, InsertProxy, Release
  <2> QED BY <2>1, <2>2 DEF IInv, LocksInv, SavesWhatIsConfigured
<1> SUFFICES TypeOK' /\ ProxiesInv'
  BY <1>0 DEF IInv
<1>1. ASSUME NEW i \in Server, Lookup(u, i) PROVE TypeOK' /\ ProxiesInv'
  <2>1. TypeOK'
    BY <1>1, <1>t DEF Lookup
  <2>2. ProxiesInv'
    BY <1>1, <1>t DEF Lookup, ProxiesInv
  <2> QED BY <2>1, <2>2
<1>2. CASE ReadEntry(u)
  <2>0. UNCHANGED <<store, held, adminVars, proxyVars, ops, astray>>
    BY <1>2 DEF ReadEntry
  <2>1. CASE arg[u].id \in DOMAIN config
    <3> DEFINE e == config[arg[u].id]
    <3>1. e \in Entry /\ pc[u] = "missing"
      BY <1>2, <1>t, <2>1, ConfigFacts DEF ReadEntry
    <3> HIDE DEF e
    <3>2. arg' = [arg EXCEPT ![u].entry = e] /\ pc' = [pc EXCEPT ![u] = "spawning"]
      BY <1>2, <2>1 DEF ReadEntry, e
    <3>3. /\ arg' \in [Task -> [id : Server \cup {Free}, entry : Entry \cup {NoEntry}]]
          /\ arg'[u].entry = e /\ arg'[u].id = arg[u].id
          /\ \A v \in User : v # u => arg'[v] = arg[v]
      BY <1>t, <3>1, <3>2
    <3>4. TypeOK'
      BY <1>t, <2>0, <3>2, <3>3
    <3>5. ProxiesInv'
      BY <1>t, <2>0, <3>1, <3>2, <3>3 DEF ProxiesInv
    <3> QED BY <3>4, <3>5
  <2>2. CASE arg[u].id \notin DOMAIN config
    <3>1. Return(u)
      BY <1>2, <2>2 DEF ReadEntry
    <3>2. TypeOK'
      BY <1>t, <2>0, <3>1 DEF Return
    <3>3. ProxiesInv'
      BY <1>t, <2>0, <3>1 DEF Return, ProxiesInv
    <3> QED BY <3>2, <3>3
  <2> QED BY <2>1, <2>2
<1>3. ASSUME Spawn(u), UNCHANGED spawned PROVE TypeOK' /\ ProxiesInv'
  <2>0. /\ Return(u)
        /\ UNCHANGED <<store, adminVars, proxyVars, held, ops, astray>>
    BY <1>3, <1>t DEF Spawn
  <2>1. TypeOK'
    BY <1>t, <2>0 DEF Return
  <2>2. ProxiesInv'
    BY <1>t, <2>0 DEF Return, ProxiesInv
  <2> QED BY <2>1, <2>2
<1>4. ASSUME Spawn(u), ~UNCHANGED spawned PROVE TypeOK' /\ ProxiesInv'
  <2>1. arg[u] \in [id : Server, entry : Entry]
    <3>1. arg[u] \in [id : Server \cup {Free}, entry : Entry \cup {NoEntry}]
      BY <1>t
    <3>2. arg[u].id \in Server /\ arg[u].entry \in Entry
      BY <1>4, <1>t DEF Spawn, ProxiesInv
    <3> QED BY <3>1, <3>2
  <2>2. /\ spawned' = Append(spawned, arg[u])
        /\ held' = [held EXCEPT ![u] = Len(spawned')]
        /\ pc' = [pc EXCEPT ![u] = "inserting"]
        /\ UNCHANGED <<arg, store, adminVars, exited, ops, astray>>
    BY <1>4 DEF Spawn
  <2>3. /\ spawned' \in Seq([id : Server, entry : Entry])
        /\ Len(spawned') \in DOMAIN spawned' /\ Len(spawned') # 0
        /\ spawned'[Len(spawned')] = arg[u]
        /\ \A n \in DOMAIN spawned : /\ n \in DOMAIN spawned' /\ n # 0
                                     /\ spawned'[n] = spawned[n]
    BY <1>t, <2>1, <2>2
  <2>4. TypeOK'
    BY <1>t, <2>2, <2>3
  <2>5. ProxiesInv'
    BY <1>t, <2>2, <2>3 DEF ProxiesInv
  <2> QED BY <2>4, <2>5
<1>5. CASE InsertProxy(u)
  <2>1. /\ held[u] \in DOMAIN spawned /\ spawned[held[u]].id = arg[u].id
        /\ arg[u].id \in Server
    BY <1>5, <1>t DEF InsertProxy, ProxiesInv
  <2>2. /\ DOMAIN proxies' \subseteq DOMAIN proxies \cup {arg[u].id}
        /\ \A i \in DOMAIN proxies' :
             proxies'[i] = IF i = arg[u].id THEN held[u] ELSE proxies[i]
    BY <1>5 DEF InsertProxy, Insert
  <2>3. TypeOK'
    BY <1>5, <1>t, <2>1, <2>2 DEF InsertProxy
  <2>4. ProxiesInv'
    BY <1>5, <1>t, <2>1, <2>2 DEF InsertProxy, ProxiesInv
  <2> QED BY <2>3, <2>4
<1>6. CASE Release(u)
  <2>1. TypeOK'
    BY <1>6, <1>t DEF Release, Return
  <2>2. ProxiesInv'
    BY <1>6, <1>t DEF Release, Return, ProxiesInv
  <2> QED BY <2>1, <2>2
<1> QED BY <1>1, <1>2, <1>3, <1>4, <1>5, <1>6 DEF GetOrSpawn

-----------------------------------------------------------------------------
(* What administrators do.                                                 *)

AdminAct(a) ==
  \/ \E i \in Server : Disable(a, i) \/ \E e \in Entry : Add(a, i, e)
  \/ View(a) \/ Reload(a) \/ Administer(a)

(* They leave the users where they are, and never put a proxy in the map. *)
LEMMA AdminProxies ==
  ASSUME IInv, NEW a \in Admin, AdminAct(a) PROVE ProxiesInv'
<1> USE TasksAssumption DEF TypeOK, Task, Goto, Return, store, adminVars, proxyVars
<1>t. TypeOK /\ ProxiesInv
  BY DEF IInv
<1>1. \A u \in User : pc'[u] = pc[u] /\ arg'[u] = arg[u]
  <2>1. CASE \E i \in Server : Disable(a, i) \/ \E e \in Entry : Add(a, i, e)
    BY <2>1, <1>t DEF Disable, Add
  <2>2. CASE View(a) \/ Reload(a)
    BY <2>2, <1>t DEF View, Reload
  <2>3. CASE Administer(a)
    BY <2>3, <1>t DEF Administer, DropProxy, SaveOpen, SaveWrite, SaveFails, Acquire,
                      Viewed, Apply
  <2> QED BY <2>1, <2>2, <2>3 DEF AdminAct
<1>2. UNCHANGED <<held, spawned>>
  BY DEF AdminAct, Disable, Add, View, Reload, Administer, DropProxy, SaveOpen, SaveWrite,
         SaveFails, Acquire, Viewed, Apply
<1>3. \A i \in DOMAIN proxies' : i \in DOMAIN proxies /\ proxies'[i] = proxies[i]
  BY DEF AdminAct, Disable, Add, View, Reload, Administer, DropProxy, SaveOpen, SaveWrite,
         SaveFails, Acquire, Viewed, Apply, Remove, Restrict
<1> QED BY <1>t, <1>1, <1>2, <1>3 DEF ProxiesInv

(* Taking the next mutex of an order. *)
LEMMA TakeWants ==
  ASSUME NEW w \in Seq(Mutex), w # <<>>
  PROVE  Head(w) \in Mutex /\ Tail(w) \in Seq(Mutex)
OBVIOUS

(* An administrator's step keeps the types. *)
LEMMA AdminTypes ==
  ASSUME IInv, NEW a \in Admin, AdminAct(a) PROVE TypeOK'
<1> USE TasksAssumption, LimitsAssumption, NoArgType, EmptyConfig
    DEF TypeOK, Task, Goto, store, adminVars, proxyVars, Ask
<1>t. TypeOK
  BY DEF IInv
<1>1. ASSUME NEW i \in Server, NEW e \in Entry, Add(a, i, e) PROVE TypeOK'
  BY <1>1, <1>t, ConfigTables DEF Add
<1>2. ASSUME NEW i \in Server, Disable(a, i) PROVE TypeOK'
  <2> DEFINE e == IF i \in DOMAIN config THEN config[i] ELSE NoEntry
  <2>1. e \in Entry \cup {NoEntry}
    BY <1>t, ConfigFacts
  <2> HIDE DEF e
  <2>2. arg' = [arg EXCEPT ![a] = [id |-> i, entry |-> e]]
    BY <1>2 DEF Disable, e
  <2>3. config' \in Config
    BY <1>2, <1>t, ConfigTables DEF Disable
  <2> QED BY <1>2, <1>t, <2>1, <2>2, <2>3 DEF Disable
<1>3. CASE DropProxy(a)
  <2>1. /\ DOMAIN proxies' \subseteq Server
        /\ \A i \in DOMAIN proxies' : proxies'[i] \in DOMAIN spawned
    BY <1>3, <1>t DEF DropProxy, Remove, Restrict
  <2>2. UNCHANGED <<config, file, lock, held, adminVars, proxyVars, ops, astray>>
    BY <1>3 DEF DropProxy
  <2>3. CASE arg[a].entry = NoEntry
    <3>1. arg' = [arg EXCEPT ![a] = NoArg] /\ pc' = [pc EXCEPT ![a] = "idle"]
      BY <1>3, <2>3 DEF DropProxy, Return
    <3> QED BY <1>t, <2>1, <2>2, <3>1
  <2>4. CASE arg[a].entry # NoEntry
    <3>1. arg' = [arg EXCEPT ![a].entry = NoEntry] /\ pc' = [pc EXCEPT ![a] = "save"]
      BY <1>3, <2>4 DEF DropProxy
    <3>2. arg' \in [Task -> [id : Server \cup {Free}, entry : Entry \cup {NoEntry}]]
      BY <1>t, <3>1
    <3> QED BY <1>t, <2>1, <2>2, <3>1, <3>2
  <2> QED BY <2>3, <2>4
<1>4. CASE SaveOpen(a)
  BY <1>4, <1>t DEF SaveOpen, Mutex
<1>5. CASE SaveWrite(a)
  BY <1>5, <1>t DEF SaveWrite, Return, Mutex
<1>6. CASE SaveFails(a)
  BY <1>6, <1>t DEF SaveFails, Return, Mutex
<1>7. CASE Acquire(a)
  BY <1>7, <1>t, TakeWants DEF Acquire
<1>8. CASE View(a)
  <2>1. LockOrder("view") \in Seq(Mutex) /\ LockOrder("status") \in Seq(Mutex)
    BY DEF LockOrder, Mutex
  <2>2. pc'[a] = "view" \/ pc'[a] = "status"
    BY <1>8, <1>t DEF View
  <2> QED BY <1>8, <1>t, <2>1, <2>2 DEF View
<1>9. CASE Viewed(a)
  BY <1>9, <1>t DEF Viewed, Return, ReleaseLocks
<1>10. CASE Reload(a)
  <2>1. LockOrder("reload") \in Seq(Mutex)
    BY DEF LockOrder, Mutex
  <2>2. UNCHANGED <<store, arg, held, todo, proxyVars, astray>> /\ ops' \in 0 .. MaxOps
    BY <1>10, <1>t DEF Reload
  <2>3. CASE file = Unreadable
    BY <1>10, <1>t, <2>2, <2>3 DEF Reload
  <2>4. CASE file # Unreadable
    <3>1. /\ text' = [text EXCEPT ![a] = file] /\ pc' = [pc EXCEPT ![a] = "reload"]
          /\ wants' = [wants EXCEPT ![a] = LockOrder("reload")]
      BY <1>10, <2>4 DEF Reload
    <3>2. file \in Config
      BY <1>t, <2>4
    <3> QED BY <1>t, <2>1, <2>2, <3>1, <3>2
  <2> QED BY <2>3, <2>4
<1>11. CASE Apply(a)
  <2>1. /\ DOMAIN proxies' \subseteq Server
        /\ \A i \in DOMAIN proxies' : proxies'[i] \in DOMAIN spawned
    BY <1>11, <1>t DEF Apply, Restrict
  <2> QED BY <1>11, <1>t, <2>1 DEF Apply, Return, ReleaseLocks
<1> QED BY <1>1, <1>2, <1>3, <1>4, <1>5, <1>6, <1>7, <1>8, <1>9, <1>10, <1>11
        DEF AdminAct, Administer

(* The mutexes stay with those who took them, and nothing is changed       *)
(* under a task that is saving.                                            *)
LEMMA AdminLocks ==
  ASSUME IInv, NEW a \in Admin, AdminAct(a)
  PROVE  LocksInv' /\ SavesWhatIsConfigured'
<1> USE TasksAssumption DEF TypeOK, Task, Goto, Return, With, Ask, store, adminVars,
        LocksInv, SavesWhatIsConfigured
<1>t. TypeOK /\ LocksInv /\ SavesWhatIsConfigured
  BY DEF IInv
<1>l. Free \notin Admin
  OBVIOUS
<1>1. ASSUME NEW i \in Server, Disable(a, i) \/ \E e \in Entry : Add(a, i, e)
      PROVE  LocksInv' /\ SavesWhatIsConfigured'
  <2>1. /\ lock["config"] = Free /\ pc[a] = "idle"
        /\ pc' = [pc EXCEPT ![a] = "unproxy"] \/ pc' = [pc EXCEPT ![a] = "save"]
        /\ UNCHANGED <<lock, wants, text>>
    BY <1>1 DEF Disable, Add
  <2>2. \A b \in Admin : pc[b] # "saving"
    BY <1>t, <1>l, <2>1
  <2> QED BY <1>t, <2>1, <2>2
<1>2. CASE DropProxy(a)
  BY <1>2, <1>t DEF DropProxy
<1>3. CASE SaveOpen(a)
  BY <1>3, <1>t, <1>l DEF SaveOpen, Mutex
<1>4. CASE SaveWrite(a) \/ SaveFails(a)
  <2>1. /\ pc' = [pc EXCEPT ![a] = "idle"] /\ UNCHANGED <<config, wants>>
        /\ pc[a] \in {"save", "saving"}
        /\ text' = [text EXCEPT ![a] = EmptyTable]
    BY <1>4 DEF SaveWrite, SaveFails
  <2>2. \/ UNCHANGED lock
        \/ pc[a] = "saving" /\ lock' = [lock EXCEPT !["config"] = Free]
    BY <1>4 DEF SaveWrite, SaveFails
  <2>3. /\ lock'["proxies"] = lock["proxies"]
        /\ \A b \in Admin : b # a /\ lock["config"] = b => lock'["config"] = b
    BY <1>t, <2>2 DEF Mutex
  <2>4. \A b \in Admin : b # a => pc'[b] = pc[b] /\ text'[b] = text[b]
    BY <1>t, <2>1
  <2>5. pc'[a] = "idle" /\ wants'[a] = <<>>
    BY <1>t, <2>1
  <2>6. ASSUME NEW b \in Admin, b # a
        PROVE  /\ wants'[b] = wants[b]
               /\ pc'[b] = pc[b] /\ text'[b] = text[b] /\ config' = config
               /\ lock["config"] = b => lock'["config"] = b
               /\ lock["proxies"] = b => lock'["proxies"] = b
    BY <2>1, <2>3, <2>4, <2>6
  <2>7. LocksInv'
    BY <1>t, <2>5, <2>6
  <2>8. SavesWhatIsConfigured'
    BY <1>t, <2>5, <2>6
  <2> QED BY <2>7, <2>8
<1>5. CASE Acquire(a)
  <2>1. /\ pc[a] \in {"reload", "view", "status"} /\ wants[a] # <<>>
        /\ UNCHANGED <<pc, config, text>>
        /\ lock[Head(wants[a])] = Free /\ Head(wants[a]) \in Mutex
        /\ lock' = [lock EXCEPT ![Head(wants[a])] = a]
        /\ wants' = [wants EXCEPT ![a] = Tail(wants[a])]
    BY <1>5, <1>t, TakeWants DEF Acquire
  <2>2. \A b \in Admin, m \in Mutex : lock[m] = b => lock'[m] = b
    BY <1>t, <1>l, <2>1
  <2>3. "config" \in Mutex /\ "proxies" \in Mutex
    BY DEF Mutex
  <2>4. ASSUME NEW b \in Admin, b # a
        PROVE  /\ wants'[b] = wants[b] /\ pc'[b] = pc[b]
               /\ lock["config"] = b => lock'["config"] = b
               /\ lock["proxies"] = b => lock'["proxies"] = b
    BY <1>t, <2>1, <2>2, <2>3, <2>4
  <2>5. wants'[a] = Tail(wants[a]) /\ lock'[Head(wants[a])] = a /\ pc'[a] = pc[a]
    BY <1>t, <2>1
  <2>6. wants[a] = <<"config", "proxies">> =>
          wants'[a] = <<"proxies">> /\ lock'["config"] = a
    BY <2>5
  <2>7. wants[a] = <<"proxies">> => wants'[a] = <<>> /\ lock'["proxies"] = a
    BY <2>5
  <2>8. wants[a] = <<"config", "config", "proxies">> =>
          wants'[a] = <<"config", "proxies">> /\ lock'["config"] = a
    BY <2>5
  <2>9. pc[a] = "status" /\ wants[a] = <<"config", "proxies">> => FALSE
    BY <1>t, <1>l, <2>1, SMTT(30)
  <2>10. LocksInv'
    <3>1. pc[a] \in {"reload", "view"} =>
            \/ wants'[a] = <<"proxies">> /\ lock'["config"] = a
            \/ wants'[a] = <<>> /\ lock'["config"] = a /\ lock'["proxies"] = a
      BY <1>t, <2>1, <2>2, <2>3, <2>6, <2>7
    <3>2. pc[a] = "status" =>
            wants'[a] = <<"config", "proxies">> /\ lock'["config"] = a
      BY <1>t, <2>8, <2>9
    <3> QED BY <1>t, <2>1, <2>4, <2>5, <3>1, <3>2
  <2>11. SavesWhatIsConfigured'
    BY <1>t, <2>1
  <2> QED BY <2>10, <2>11
<1>6. CASE View(a)
  BY <1>6, <1>t DEF View, LockOrder
<1>7. CASE Viewed(a)
  BY <1>7, <1>t, <1>l DEF Viewed, ReleaseLocks, Mutex
<1>8. CASE Reload(a)
  <2>1. UNCHANGED <<config, lock>> /\ pc[a] = "idle"
    BY <1>8 DEF Reload
  <2>2. CASE UNCHANGED <<pc, wants, text>>
    BY <1>t, <2>1, <2>2
  <2>3. CASE /\ text' = [text EXCEPT ![a] = file] /\ pc' = [pc EXCEPT ![a] = "reload"]
             /\ wants' = [wants EXCEPT ![a] = LockOrder("reload")]
    <3>1. LockOrder("reload") = <<"config", "proxies">>
      BY DEF LockOrder
    <3> QED BY <1>t, <2>1, <2>3, <3>1
  <2> QED BY <1>8, <2>2, <2>3 DEF Reload
<1>9. CASE Apply(a)
  <2>1. /\ pc[a] = "reload" /\ wants[a] = <<>> /\ UNCHANGED wants
        /\ pc' = [pc EXCEPT ![a] = "idle"]
        /\ lock' = [m \in Mutex |-> IF lock[m] = a THEN Free ELSE lock[m]]
    BY <1>9 DEF Apply, ReleaseLocks
  <2>0. lock["config"] = a
    <3>1. <<>> # <<"config", "proxies">> /\ <<>> # <<"proxies">>
      OBVIOUS
    <3> QED BY <1>t, <2>1, <3>1
  <2>2. \A b \in Admin : pc[b] # "saving" /\ (b # a => lock["config"] # b)
    BY <1>t, <2>0, <2>1
  <2>3. \A b \in Admin, m \in Mutex : b # a /\ lock[m] = b => lock'[m] = b
    BY <2>1
  <2>4. \A b \in Admin : pc'[b] # "saving" /\ (b # a => pc'[b] = pc[b])
    BY <1>t, <2>1, <2>2
  <2>5. ASSUME NEW b \in Admin, b # a
        PROVE  /\ wants'[b] = wants[b] /\ pc'[b] = pc[b] /\ pc[b] # "saving"
               /\ lock["config"] = b => lock'["config"] = b
               /\ lock["proxies"] = b => lock'["proxies"] = b
    BY <2>1, <2>2, <2>3, <2>4, <2>5 DEF Mutex
  <2>6. pc'[a] = "idle" /\ wants'[a] = <<>>
    BY <1>t, <2>1
  <2>7. LocksInv'
    <3>1. ASSUME NEW b \in Admin, b # a
          PROVE  /\ pc'[b] \in {"reload", "view"} =>
                      \/ wants'[b] = <<"config", "proxies">>
                      \/ wants'[b] = <<"proxies">> /\ lock'["config"] = b
                      \/ wants'[b] = <<>> /\ lock'["config"] = b /\ lock'["proxies"] = b
                 /\ pc'[b] = "status" =>
                      \/ wants'[b] = <<"config", "config", "proxies">>
                      \/ wants'[b] = <<"config", "proxies">> /\ lock'["config"] = b
                 /\ pc'[b] \notin {"reload", "view", "status"} => wants'[b] = <<>>
      BY <1>t, <2>5, <3>1
    <3> QED BY <2>4, <2>6, <3>1
  <2> QED BY <2>4, <2>7
<1> QED BY <1>1, <1>2, <1>3, <1>4, <1>5, <1>6, <1>7, <1>8, <1>9 DEF AdminAct, Administer

(* The console's own steps, an edit, a child's exit and a restart. *)
LEMMA OtherStep ==
  ASSUME IInv,
         \/ List \/ LiveIds \/ PrintServer \/ Edit \/ Restart
         \/ \E n \in DOMAIN spawned : ChildExits(n)
  PROVE  IInv'
<1> USE TasksAssumption, LimitsAssumption, NoArgType, EmptyConfig
    DEF TypeOK, Task, Goto, store, adminVars, proxyVars, Ask
<1>t. TypeOK /\ ProxiesInv /\ LocksInv /\ SavesWhatIsConfigured
  BY DEF IInv
<1>1. CASE List \/ LiveIds \/ PrintServer
  <2>1. /\ UNCHANGED <<store, held, wants, text, proxyVars, astray>>
        /\ pc[Console] \in {"idle", "ids", "list"}
        /\ \/ UNCHANGED pc
           \/ \E l \in {"idle", "ids", "list", "dead"} : pc' = [pc EXCEPT ![Console] = l]
        /\ arg' = arg \/ arg' = [arg EXCEPT ![Console] = NoArg]
    BY <1>1 DEF List, LiveIds, PrintServer, Return
  <2>2. ops' \in 0 .. MaxOps /\ todo' \subseteq Server
    <3>1. DOMAIN config \subseteq Server
      BY <1>t, ConfigFacts
    <3>2. CASE List
      BY <1>t, <3>1, <3>2 DEF List
    <3>3. CASE LiveIds
      BY <1>t, <3>3 DEF LiveIds
    <3>4. CASE PrintServer
      BY <1>t, <3>4 DEF PrintServer
    <3> QED BY <1>1, <3>2, <3>3, <3>4
  <2>3. TypeOK'
    <3>1. pc' \in [Task -> {"idle", "missing", "spawning", "inserting",
                         "holding", "save", "saving", "unproxy", "reload",
                         "view", "status", "ids", "list", "dead"}]
      BY <1>t, <2>1
    <3>2. arg' \in [Task -> [id : Server \cup {Free}, entry : Entry \cup {NoEntry}]]
      BY <1>t, <2>1, ZenonT(60)
    <3> QED BY <1>t, <2>1, <2>2, <3>1, <3>2
  <2>4. ProxiesInv'
    BY <1>t, <2>1 DEF ProxiesInv
  <2>5. LocksInv' /\ SavesWhatIsConfigured'
    BY <1>t, <2>1 DEF LocksInv, SavesWhatIsConfigured
  <2> QED BY <2>3, <2>4, <2>5 DEF IInv
<1>2. CASE Edit
  <2>1. TypeOK'
    BY <1>2, <1>t DEF Edit
  <2>2. ProxiesInv' /\ LocksInv' /\ SavesWhatIsConfigured'
    BY <1>2, <1>t DEF Edit, ProxiesInv, LocksInv, SavesWhatIsConfigured
  <2> QED BY <2>1, <2>2 DEF IInv
<1>3. CASE Restart
  <2>0. astray' \in BOOLEAN
    BY <1>3 DEF Restart
  <2>1. TypeOK'
    BY <1>3, <1>t, <2>0 DEF Restart, EmptyTable
  <2>2. ProxiesInv'
    BY <1>3, <1>t DEF Restart, ProxiesInv, EmptyTable
  <2>3. LocksInv' /\ SavesWhatIsConfigured'
    BY <1>3, <1>t DEF Restart, LocksInv, SavesWhatIsConfigured
  <2> QED BY <2>1, <2>2, <2>3 DEF IInv
<1>4. ASSUME NEW n \in DOMAIN spawned, ChildExits(n) PROVE IInv'
  <2>1. TypeOK'
    BY <1>4, <1>t DEF ChildExits
  <2>2. ProxiesInv' /\ LocksInv' /\ SavesWhatIsConfigured'
    BY <1>4, <1>t DEF ChildExits, ProxiesInv, LocksInv, SavesWhatIsConfigured
  <2> QED BY <2>1, <2>2 DEF IInv
<1> QED BY <1>1, <1>2, <1>3, <1>4

(* The invariant is inductive. *)
LEMMA StepIInv == IInv /\ [Next]_vars => IInv'
<1> SUFFICES ASSUME IInv, [Next]_vars PROVE IInv'
  OBVIOUS
<1>1. ASSUME NEW u \in User,
             (\E i \in Server : Lookup(u, i)) \/ GetOrSpawn(u) \/ Release(u)
      PROVE  IInv'
  BY <1>1, UserStep
<1>2. ASSUME NEW a \in Admin, AdminAct(a) PROVE IInv'
  <2>1. TypeOK'
    BY <1>2, AdminTypes
  <2>2. ProxiesInv'
    BY <1>2, AdminProxies
  <2>3. LocksInv' /\ SavesWhatIsConfigured'
    BY <1>2, AdminLocks
  <2> QED BY <2>1, <2>2, <2>3 DEF IInv
<1>3. CASE \/ List \/ LiveIds \/ PrintServer \/ Edit \/ Restart
           \/ \E n \in DOMAIN spawned : ChildExits(n)
  BY <1>3, OtherStep
<1>4. CASE UNCHANGED vars
  BY <1>4 DEF vars, store, adminVars, proxyVars, IInv, TypeOK, ProxiesInv, LocksInv,
              SavesWhatIsConfigured
<1> QED BY <1>1, <1>2, <1>3, <1>4 DEF Next, AdminAct

(* Whatever users and administrators do, every state of the gateway has    *)
(* its type, and get_or_spawn never gives a proxy of another server.       *)
THEOREM InvariantHolds == Spec => []IInv
<1>1. Init => IInv
  BY InitIInv
<1>2. IInv /\ [Next]_vars => IInv'
  BY StepIInv
<1> QED BY <1>1, <1>2, PTL DEF Spec

(* What save_to_disk writes is what is configured as it writes, whatever   *)
(* other tasks do meanwhile: no change is lost to an older save.           *)
THEOREM SavesAreCurrent == Spec => []SavesWhatIsConfigured
<1>1. IInv => SavesWhatIsConfigured
  BY DEF IInv
<1> QED BY <1>1, InvariantHolds, PTL

-----------------------------------------------------------------------------
(* Nobody holds a mutex and waits.                                         *)

NoStatusAsked == "status" \notin Operations

(* A task without a mutex does not disturb those who have one. *)
LEMMA Bystander ==
  ASSUME TypeOK, HoldersInv, NEW a \in Admin,
         pc[a] \notin {"saving", "reload", "view"}, UNCHANGED lock,
         NEW l, l # "status", pc' = [pc EXCEPT ![a] = l],
         \A b \in Admin : b # a => wants'[b] = wants[b]
  PROVE  HoldersInv'
<1>1. \A b \in Admin : pc'[b] = IF b = a THEN l ELSE pc[b]
  BY DEF TypeOK, Task
<1>2. \A m \in Mutex : lock[m] # Free => lock[m] \in Admin /\ lock[m] # a
  BY DEF TypeOK, HoldersInv, Mutex
<1> QED BY <1>1, <1>2 DEF HoldersInv, Mutex

(* Steps that take a mutex for longer, or give one back. *)
LEMMA LockingStep ==
  ASSUME IInv, HoldersInv, NEW a \in Admin,
         \/ SaveOpen(a) \/ SaveWrite(a) \/ SaveFails(a) \/ Acquire(a)
         \/ Viewed(a) \/ Apply(a)
  PROVE  HoldersInv'
<1>t. TypeOK /\ LocksInv
  BY DEF IInv
<1>a. /\ a \in Task /\ a # Free /\ Admin \subseteq Task
      /\ DOMAIN pc = Task /\ DOMAIN lock = Mutex /\ DOMAIN wants = Admin
      /\ \A m \in Mutex : lock[m] # Free => lock[m] \in Admin
      /\ Mutex = {"config", "proxies"}
  BY <1>t, TasksAssumption DEF TypeOK, Task, Mutex
<1>s. /\ pc[a] = "saving" => lock["config"] = a
      /\ pc[a] # "status"
  BY <1>t DEF LocksInv, HoldersInv
<1>1. CASE SaveOpen(a)
  <2>1. /\ lock["config"] = Free /\ lock' = [lock EXCEPT !["config"] = a]
        /\ pc' = [pc EXCEPT ![a] = "saving"] /\ UNCHANGED wants
    BY <1>1 DEF SaveOpen, With, Goto
  <2>2. lock["proxies"] = Free
    BY <1>a, <2>1 DEF HoldersInv
  <2> QED BY <1>a, <2>1, <2>2 DEF HoldersInv
<1>2. ASSUME pc[a] = "saving", lock' = [lock EXCEPT !["config"] = Free],
             pc' = [pc EXCEPT ![a] = "idle"], UNCHANGED wants
      PROVE  HoldersInv'
  <2>1. lock["proxies"] = Free
    BY <1>a, <1>s, <1>2 DEF HoldersInv
  <2> QED BY <1>a, <1>2, <2>1 DEF HoldersInv
<1>3. ASSUME pc[a] = "save", UNCHANGED <<lock, wants>>,
             pc' = [pc EXCEPT ![a] = "idle"]
      PROVE  HoldersInv'
  BY <1>t, <1>3, Bystander
<1>4. CASE Acquire(a)
  <2>1. /\ wants[a] # <<>> /\ lock[Head(wants[a])] = Free
        /\ lock' = [lock EXCEPT ![Head(wants[a])] = a]
        /\ wants' = [wants EXCEPT ![a] = Tail(wants[a])]
        /\ UNCHANGED pc
    BY <1>4 DEF Acquire
  <2>2. pc[a] \in {"reload", "view"}
    BY <1>t, <1>s, <2>1 DEF LocksInv
  <2>3. CASE wants[a] = <<"config", "proxies">>
    <3>1. Head(wants[a]) = "config" /\ Tail(wants[a]) = <<"proxies">>
      BY <2>3
    <3>2. lock["config"] = Free /\ lock["proxies"] = Free
      BY <1>a, <2>1, <3>1 DEF HoldersInv
    <3> QED BY <1>a, <2>1, <2>2, <3>1, <3>2 DEF HoldersInv
  <2>4. CASE wants[a] = <<"proxies">> /\ lock["config"] = a
    <3>1. Head(wants[a]) = "proxies" /\ Tail(wants[a]) = <<>>
      BY <2>4
    <3>2. /\ lock'["config"] = a /\ lock'["proxies"] = a /\ wants'[a] = <<>>
          /\ pc' = pc
      BY <1>a, <2>1, <2>4, <3>1
    <3> QED BY <2>2, <3>2 DEF HoldersInv
  <2> QED BY <1>t, <2>1, <2>2, <2>3, <2>4 DEF LocksInv
<1>5. ASSUME pc[a] \in {"reload", "view"}, wants[a] = <<>>, ReleaseLocks(a),
             pc' = [pc EXCEPT ![a] = "idle"], UNCHANGED wants
      PROVE  HoldersInv'
  <2>1. <<>> # <<"config", "proxies">> /\ <<>> # <<"proxies">>
    OBVIOUS
  <2>2. lock["config"] = a /\ lock["proxies"] = a
    BY <1>t, <1>5, <2>1 DEF LocksInv
  <2>3. lock'["config"] = Free /\ lock'["proxies"] = Free
    BY <1>a, <1>5, <2>2 DEF ReleaseLocks
  <2>4. \A b \in Admin : pc'[b] # "status"
    BY <1>a, <1>5 DEF HoldersInv
  <2> QED BY <2>3, <2>4 DEF HoldersInv
<1>6. CASE SaveWrite(a) \/ SaveFails(a)
  BY <1>2, <1>3, <1>6 DEF SaveWrite, SaveFails, Return, Goto
<1>7. CASE Viewed(a) \/ Apply(a)
  BY <1>s, <1>5, <1>7 DEF Viewed, Apply, Return, Goto, adminVars
<1> QED BY <1>1, <1>4, <1>6, <1>7

(* Every step leaves the mutexes in the hands of tasks that can go on. *)
LEMMA HoldersStep ==
  ASSUME NoStatusAsked, IInv, HoldersInv, [Next]_vars
  PROVE  HoldersInv'
<1>t. TypeOK
  BY DEF IInv
<1>1. ASSUME NEW u \in User,
             (\E i \in Server : Lookup(u, i)) \/ GetOrSpawn(u) \/ Release(u)
      PROVE  HoldersInv'
  <2>1. UNCHANGED <<lock, wants>>
    BY <1>1 DEF Lookup, GetOrSpawn, ReadEntry, Spawn, InsertProxy, Release, store,
                adminVars
  <2>2. \A b \in Admin : pc'[b] = pc[b]
    <3>1. DOMAIN pc = Task /\ \A b \in Admin : b \in Task /\ b # u
      BY <1>t, TasksAssumption DEF TypeOK, Task
    <3> QED BY <1>1, <3>1 DEF Lookup, GetOrSpawn, ReadEntry, Spawn, InsertProxy,
                              Release, Return, Goto
  <2>3. \A m \in Mutex : lock[m] # Free => lock[m] \in Admin
    BY <1>t DEF TypeOK
  <2> QED BY <2>1, <2>2, <2>3 DEF HoldersInv, Mutex
<1>2. ASSUME NEW a \in Admin,
             \/ \E i \in Server : Disable(a, i) \/ \E e \in Entry : Add(a, i, e)
             \/ View(a) \/ Reload(a) \/ DropProxy(a)
      PROVE  HoldersInv'
  <2>1. /\ pc[a] \in {"idle", "unproxy"} /\ UNCHANGED lock
        /\ \A b \in Admin : b # a => wants'[b] = wants[b]
    BY <1>2, <1>t DEF Disable, Add, View, Reload, DropProxy, Ask, store,
                      adminVars, TypeOK
  <2>2. \/ UNCHANGED <<pc, wants>>
        \/ \E l \in {"save", "unproxy", "idle", "view", "reload"} :
             pc' = [pc EXCEPT ![a] = l]
    BY <1>2 DEF Disable, Add, View, Reload, DropProxy, Ask, Goto, Return,
                NoStatusAsked
  <2>3. CASE UNCHANGED <<pc, wants>>
    BY <2>1, <2>3 DEF HoldersInv
  <2> QED BY <1>t, <2>1, <2>2, <2>3, Bystander
<1>3. ASSUME NEW a \in Admin,
             \/ SaveOpen(a) \/ SaveWrite(a) \/ SaveFails(a) \/ Acquire(a)
             \/ Viewed(a) \/ Apply(a)
      PROVE  HoldersInv'
  BY <1>3, LockingStep
<1>4. CASE List \/ LiveIds \/ PrintServer
  <2>1. /\ UNCHANGED <<lock, wants>> /\ pc[Console] \in {"idle", "ids", "list"}
        /\ \/ UNCHANGED pc
           \/ \E l \in {"idle", "ids", "list", "dead"} :
                pc' = [pc EXCEPT ![Console] = l]
    BY <1>4 DEF List, LiveIds, PrintServer, Ask, Goto, Return, store, adminVars
  <2>2. CASE UNCHANGED pc
    BY <2>1, <2>2 DEF HoldersInv
  <2> QED BY <1>t, <2>1, <2>2, Bystander, TasksAssumption
<1>5. CASE Restart
  <2>1. \A a \in Admin : pc'[a] = "idle"
    BY <1>5 DEF Restart, Task
  <2>2. lock'["config"] = Free /\ lock'["proxies"] = Free
    BY <1>5 DEF Restart, Mutex
  <2> QED BY <2>1, <2>2 DEF HoldersInv
<1>6. ASSUME UNCHANGED <<lock, pc, wants>> PROVE HoldersInv'
  BY <1>6 DEF HoldersInv
<1>7. ASSUME NEW n \in DOMAIN spawned, ChildExits(n) PROVE HoldersInv'
  BY <1>6, <1>7 DEF ChildExits, store, adminVars
<1>8. CASE Edit
  BY <1>6, <1>8 DEF Edit, adminVars
<1>9. CASE UNCHANGED vars
  BY <1>6, <1>9 DEF vars, store, adminVars
<1> QED BY <1>1, <1>2, <1>3, <1>4, <1>5, <1>7, <1>8, <1>9 DEF Next, Administer

(* A task that holds config or proxies never waits for the other while     *)
(* somebody has it, however many administrators and reloads there are, as  *)
(* long as nobody asks the console for the status: the only deadlock of    *)
(* the gateway's mutexes is the one print_status has with itself.          *)
THEOREM NobodyHoldsAndWaits ==
  ASSUME NoStatusAsked PROVE Spec => []HoldersGoOn
<1>1. Init => HoldersInv
  BY DEF Init, HoldersInv, Mutex, Task
<1>2. IInv /\ HoldersInv /\ [Next]_vars => HoldersInv'
  BY HoldersStep
<1>3. IInv /\ HoldersInv => HoldersGoOn
  <2> SUFFICES ASSUME IInv, HoldersInv, NEW m \in Mutex, lock[m] # Free
               PROVE  CanGoOn(lock[m])
    BY DEF HoldersGoOn
  <2>1. CASE pc[lock[m]] = "saving"
    BY <2>1 DEF CanGoOn
  <2>2. CASE wants[lock[m]] = <<>>
    BY <2>2 DEF HoldersInv, CanGoOn, Mutex
  <2>3. CASE m = "config" /\ wants[lock[m]] = <<"proxies">>
    <3>1. Head(wants[lock[m]]) = "proxies" /\ wants[lock[m]] # <<>>
      BY <2>3
    <3>2. lock["proxies"] = Free
      BY <2>3, <3>1 DEF HoldersInv
    <3>3. pc[lock[m]] \in {"saving", "reload", "view"}
      BY <2>3 DEF HoldersInv
    <3> QED BY <3>1, <3>2, <3>3 DEF CanGoOn
  <2> QED BY <2>1, <2>2, <2>3 DEF HoldersInv, Mutex
<1> QED BY <1>1, <1>2, <1>3, InvariantHolds, PTL DEF Spec

-----------------------------------------------------------------------------
(* The map of proxies implements ProxyMap.                                 *)

(* What administrators, the console and an edit leave alone, and what they *)
(* do to the map.                                                          *)
LEMMA MapSteps ==
  ASSUME IInv, [Next]_vars
  PROVE  \/ \E u \in User :
              (\E i \in Server : Lookup(u, i)) \/ GetOrSpawn(u) \/ Release(u)
         \/ Restart
         \/ /\ UNCHANGED <<held, spawned>>
            /\ \A u \in User : pc'[u] = pc[u]
            /\ Range(proxies') \subseteq Range(proxies)
<1> USE TasksAssumption DEF TypeOK, Task, Goto, Return, store, adminVars, proxyVars, Ask
<1>t. TypeOK
  BY DEF IInv
<1> DEFINE Aside == /\ UNCHANGED <<held, spawned>>
                    /\ \A u \in User : pc'[u] = pc[u]
                    /\ Range(proxies') \subseteq Range(proxies)
<1>1. ASSUME NEW a \in Admin, AdminAct(a) PROVE Aside
  <2>1. UNCHANGED <<held, spawned>>
    BY <1>1 DEF AdminAct, Disable, Add, View, Reload, Administer, DropProxy, SaveOpen,
                SaveWrite, SaveFails, Acquire, Viewed, Apply
  <2>2. \A u \in User : pc'[u] = pc[u]
    <3>1. CASE \E i \in Server : Disable(a, i) \/ \E e \in Entry : Add(a, i, e)
      BY <1>t, <3>1 DEF Disable, Add
    <3>2. CASE View(a) \/ Reload(a)
      BY <1>t, <3>2 DEF View, Reload
    <3>3. CASE Administer(a)
      BY <1>t, <3>3 DEF Administer, DropProxy, SaveOpen, SaveWrite, SaveFails, Acquire,
                        Viewed, Apply
    <3> QED BY <1>1, <3>1, <3>2, <3>3 DEF AdminAct
  <2>3. \A i \in DOMAIN proxies' : i \in DOMAIN proxies /\ proxies'[i] = proxies[i]
    BY <1>1 DEF AdminAct, Disable, Add, View, Reload, Administer, DropProxy, SaveOpen,
                SaveWrite, SaveFails, Acquire, Viewed, Apply, Remove, Restrict
  <2> QED BY <2>1, <2>2, <2>3 DEF Range
<1>2. CASE List \/ LiveIds \/ PrintServer
  <2>1. UNCHANGED <<held, spawned, proxies>>
    BY <1>2 DEF List, LiveIds, PrintServer
  <2>2. \A u \in User : pc'[u] = pc[u]
    BY <1>t, <1>2 DEF List, LiveIds, PrintServer
  <2> QED BY <2>1, <2>2
<1>3. CASE Edit \/ UNCHANGED vars
  BY <1>3 DEF Edit, vars
<1>4. ASSUME NEW n \in DOMAIN spawned, ChildExits(n) PROVE Aside
  BY <1>4 DEF ChildExits
<1> QED BY <1>1, <1>2, <1>3, <1>4 DEF Next, AdminAct

(* No two users bring the same proxy. *)
LEMMA BringingStep ==
  ASSUME IInv, BringingInv, [Next]_vars PROVE BringingInv'
<1> USE DEF TypeOK, Task, Goto, Return, store, adminVars, proxyVars
<1>t. TypeOK /\ MaxSpawns \in Nat
  BY LimitsAssumption DEF IInv
<1>1. ASSUME NEW u \in User,
             \/ \E i \in Server : Lookup(u, i)
             \/ ReadEntry(u) \/ InsertProxy(u) \/ Release(u)
             \/ (Spawn(u) /\ UNCHANGED spawned)
      PROVE  BringingInv'
  <2>1. UNCHANGED spawned /\ DOMAIN pc = Task /\ DOMAIN held = User
    BY <1>1, <1>t DEF Lookup, ReadEntry, InsertProxy, Release
  <2>2. \A v \in User \ {u} : pc'[v] = pc[v] /\ held'[v] = held[v]
    BY <1>1, <1>t DEF Lookup, ReadEntry, InsertProxy, Release, Spawn
  <2>3. pc'[u] # "inserting" /\ (pc'[u] = "holding" => held'[u] # 0)
    <3>1. ASSUME NEW i \in Server, Lookup(u, i)
          PROVE  pc'[u] # "inserting" /\ (pc'[u] = "holding" => held'[u] # 0)
      <4>1. i \in DOMAIN proxies => proxies[i] \in DOMAIN spawned /\ proxies[i] # 0
        BY <1>t
      <4> QED BY <1>t, <3>1, <4>1 DEF Lookup
    <3>2. CASE InsertProxy(u)
      BY <1>t, <3>2 DEF InsertProxy, BringingInv
    <3>3. CASE ReadEntry(u) \/ Release(u) \/ (Spawn(u) /\ UNCHANGED spawned)
      BY <1>t, <3>3 DEF ReadEntry, Release, Spawn
    <3> HIDE DEF Goto, Return
    <3> QED BY ONLY <1>1, <3>1, <3>2, <3>3
  <2> QED BY <2>1, <2>2, <2>3 DEF BringingInv
<1>2. ASSUME NEW u \in User, Spawn(u), ~UNCHANGED spawned PROVE BringingInv'
  <2>1. /\ Len(spawned) < MaxSpawns
        /\ spawned' = Append(spawned, arg[u])
        /\ held' = [held EXCEPT ![u] = Len(spawned')]
        /\ pc' = [pc EXCEPT ![u] = "inserting"]
    BY <1>2 DEF Spawn
  <2>2. Len(spawned') = Len(spawned) + 1 /\ Len(spawned) \in Nat
    BY <1>t, <2>1
  <2>3. \A v \in User : held[v] # Len(spawned')
    <3>1. DOMAIN spawned = 1 .. Len(spawned)
      BY <1>t
    <3>2. \A v \in User : held[v] \in {0} \cup DOMAIN spawned
      BY <1>t
    <3> HIDE DEF TypeOK
    <3> QED BY <2>2, <3>1, <3>2
  <2> QED BY <1>t, <2>1, <2>2, <2>3 DEF BringingInv
<1>3. CASE Restart
  BY <1>3 DEF Restart, BringingInv
<1>4. CASE UNCHANGED <<held, spawned>> /\ \A u \in User : pc'[u] = pc[u]
  BY <1>4 DEF BringingInv
<1> QED BY <1>1, <1>2, <1>3, <1>4, MapSteps DEF GetOrSpawn

LEMMA MapRefinesInit == Init => Map!MapInit
<1> SUFFICES ASSUME Init PROVE Map!MapInit
  OBVIOUS
<1>1. MadeFor = EmptyTable
  BY DEF Init, MadeFor, EmptyTable
<1>2. Bringing = {} /\ Having = {}
  BY DEF Init, Bringing, Having, Task
<1>3. Range(proxies) = {}
  BY DEF Init, EmptyTable, Range
<1> QED BY <1>1, <1>2, <1>3 DEF Map!MapInit, Map!EmptyTable, EmptyTable

(* What a user does to the map. *)
LEMMA MapUserStep ==
  ASSUME IInv, BringingInv, NEW u \in User,
         (\E i \in Server : Lookup(u, i)) \/ GetOrSpawn(u) \/ Release(u)
  PROVE  \/ \E p \in 1 .. MaxSpawns :
              \/ Map!Put(p) \/ \E i \in Server : Map!Make(p, i)
              \/ \E h \in User : Map!Take(h, p) \/ Map!Drop(h, p)
         \/ UNCHANGED <<MadeFor, Bringing, Range(proxies), Having>>
<1> DEFINE Goal == \/ \E p \in 1 .. MaxSpawns :
                         \/ Map!Put(p) \/ \E i \in Server : Map!Make(p, i)
                         \/ \E h \in User : Map!Take(h, p) \/ Map!Drop(h, p)
                   \/ UNCHANGED <<MadeFor, Bringing, Range(proxies), Having>>
<1> USE DEF Goto, Return, store, adminVars, proxyVars
<1>t. /\ TypeOK /\ ProxiesInv /\ MaxSpawns \in Nat
      /\ DOMAIN pc = Task /\ DOMAIN held = User /\ User \subseteq Task
      /\ spawned \in Seq([id : Server, entry : Entry])
  BY LimitsAssumption DEF IInv, TypeOK, Task
<1>n. \A n \in DOMAIN spawned : n \in 1 .. MaxSpawns
  BY <1>t DEF BringingInv
<1>1. ASSUME NEW i \in Server, Lookup(u, i), i \in DOMAIN proxies PROVE Goal
  <2>1. /\ pc[u] = "idle" /\ pc' = [pc EXCEPT ![u] = "holding"]
        /\ held' = [held EXCEPT ![u] = proxies[i]]
        /\ UNCHANGED <<proxies, spawned>>
    BY <1>1 DEF Lookup
  <2>2. proxies[i] \in Range(proxies) /\ proxies[i] \in 1 .. MaxSpawns
    BY <1>t, <1>n, <1>1 DEF TypeOK, Range
  <2>3. Having' = Having \cup {<<u, proxies[i]>>}
    BY <1>t, <2>1 DEF Having
  <2>4. Bringing' = Bringing
    BY <1>t, <2>1 DEF Bringing
  <2>5. Map!Take(u, proxies[i])
    BY <2>1, <2>2, <2>3, <2>4 DEF Map!Take, MadeFor
  <2> QED BY <2>2, <2>5
<1>2. ASSUME \/ \E i \in Server : Lookup(u, i) /\ i \notin DOMAIN proxies
             \/ ReadEntry(u) \/ (Spawn(u) /\ UNCHANGED spawned)
      PROVE  Goal
  <2>1. /\ UNCHANGED <<proxies, spawned, held>>
        /\ \A v \in User \ {u} : pc'[v] = pc[v]
        /\ pc[u] \notin {"inserting", "holding"}
        /\ pc'[u] \notin {"inserting", "holding"}
    BY <1>2, <1>t DEF Lookup, ReadEntry, Spawn
  <2>2. Bringing' = Bringing /\ Having' = Having
    BY <2>1 DEF Bringing, Having
  <2> QED BY <2>1, <2>2 DEF MadeFor
<1>3. ASSUME Spawn(u), ~UNCHANGED spawned PROVE Goal
  <2> DEFINE n == Len(spawned) + 1
  <2>1. /\ pc[u] = "spawning" /\ pc' = [pc EXCEPT ![u] = "inserting"]
        /\ Len(spawned) < MaxSpawns
        /\ spawned' = Append(spawned, arg[u])
        /\ held' = [held EXCEPT ![u] = Len(spawned')]
        /\ UNCHANGED proxies
    BY <1>3 DEF Spawn
  <2>2. /\ DOMAIN spawned' = DOMAIN spawned \cup {n} /\ n \notin DOMAIN spawned
        /\ spawned'[n] = arg[u] /\ \A m \in DOMAIN spawned : spawned'[m] = spawned[m]
        /\ Len(spawned') = n /\ n \in 1 .. MaxSpawns
    BY <1>t, <2>1
  <2>3. arg[u].id \in Server
    BY <1>t, <2>1 DEF ProxiesInv
  <2> HIDE DEF n
  <2>4. MadeFor' = Insert(MadeFor, n, arg[u].id) /\ n \notin DOMAIN MadeFor
    BY <2>2 DEF MadeFor, Insert
  <2>5. Bringing' = Bringing \cup {n}
    BY <1>t, <2>1, <2>2 DEF Bringing
  <2>6. Having' = Having
    BY <1>t, <2>1 DEF Having
  <2>7. Map!Make(n, arg[u].id)
    BY <2>1, <2>4, <2>5, <2>6 DEF Map!Make, Map!Insert, Insert
  <2> QED BY <2>2, <2>3, <2>7
<1>4. CASE InsertProxy(u)
  <2> DEFINE i == arg[u].id
             n == held[u]
  <2>1. /\ pc[u] = "inserting" /\ pc' = [pc EXCEPT ![u] = "holding"]
        /\ proxies' = Insert(proxies, i, n)
        /\ UNCHANGED <<held, spawned>>
    BY <1>4 DEF InsertProxy
  <2>2. n \in DOMAIN spawned /\ spawned[n].id = i
    BY <1>t, <2>1 DEF TypeOK, ProxiesInv
  <2>3. n \in Bringing /\ Bringing' = Bringing \ {n}
    BY <1>t, <2>1 DEF Bringing, BringingInv
  <2>4. Having' = Having \cup {<<u, n>>}
    BY <1>t, <2>1 DEF Having
  <2>5. Range(proxies') = {q \in Range(proxies) : MadeFor[q] # MadeFor[n]} \cup {n}
    <3>1. \A j \in DOMAIN proxies : MadeFor[proxies[j]] = j
      BY <1>t DEF TypeOK, ProxiesInv, MadeFor
    <3>2. MadeFor[n] = i
      BY <2>2 DEF MadeFor
    <3>3. /\ DOMAIN proxies' = DOMAIN proxies \cup {i} /\ proxies'[i] = n
          /\ \A j \in DOMAIN proxies \ {i} : proxies'[j] = proxies[j]
      BY <2>1 DEF Insert
    <3> HIDE DEF i, n
    <3> QED BY <3>1, <3>2, <3>3 DEF Range
  <2>6. Map!Put(n)
    BY <2>1, <2>3, <2>4, <2>5 DEF Map!Put, MadeFor
  <2> QED BY <1>n, <2>2, <2>6
<1>5. CASE Release(u)
  <2>1. /\ pc[u] = "holding" /\ pc' = [pc EXCEPT ![u] = "idle"]
        /\ held' = [held EXCEPT ![u] = 0]
        /\ UNCHANGED <<proxies, spawned>>
    BY <1>5 DEF Release
  <2>2. Having' = Having \ {<<u, held[u]>>}
    BY <1>t, <2>1 DEF Having
  <2>3. Bringing' = Bringing
    BY <1>t, <2>1 DEF Bringing
  <2>4. held[u] \in 1 .. MaxSpawns
    BY <1>t, <1>n, <2>1 DEF TypeOK, BringingInv
  <2>5. Map!Drop(u, held[u])
    BY <2>1, <2>2, <2>3 DEF Map!Drop, MadeFor
  <2> QED BY <2>4, <2>5
<1>6. ASSUME NEW i \in Server, Lookup(u, i) PROVE Goal
  BY <1>1, <1>2, <1>6
<1>7. CASE ReadEntry(u) \/ Spawn(u)
  BY <1>2, <1>3, <1>7
<1>8. CASE \E i \in Server : Lookup(u, i)
  BY <1>6, <1>8
<1>9. CASE GetOrSpawn(u)
  BY <1>4, <1>7, <1>9 DEF GetOrSpawn
<1> QED BY <1>5, <1>8, <1>9

LEMMA MapRefinesStep ==
  IInv /\ BringingInv /\ [Next]_vars => [Map!MapNext]_(Map!mapVars)
<1> SUFFICES ASSUME IInv, BringingInv, [Next]_vars
             PROVE  Map!MapNext \/ UNCHANGED <<MadeFor, Bringing, Range(proxies), Having>>
  BY DEF Map!mapVars
<1>1. ASSUME NEW u \in User,
             (\E i \in Server : Lookup(u, i)) \/ GetOrSpawn(u) \/ Release(u)
      PROVE  Map!MapNext \/ UNCHANGED <<MadeFor, Bringing, Range(proxies), Having>>
  BY <1>1, MapUserStep DEF Map!MapNext
<1>2. CASE Restart
  <2>1. MadeFor' = MadeFor
    BY <1>2 DEF Restart, MadeFor, proxyVars
  <2>2. Bringing' = {} /\ Having' = {}
    BY <1>2 DEF Restart, Bringing, Having, Task
  <2>3. Range(proxies') = {}
    BY <1>2 DEF Restart, EmptyTable, Range
  <2> QED BY <2>1, <2>2, <2>3 DEF Map!MapNext, Map!Crash
<1>3. CASE /\ UNCHANGED <<held, spawned>>
           /\ \A u \in User : pc'[u] = pc[u]
           /\ Range(proxies') \subseteq Range(proxies)
  <2>1. UNCHANGED <<MadeFor, Bringing, Having>>
    BY <1>3 DEF MadeFor, Bringing, Having
  <2> QED BY <1>3, <2>1 DEF Map!MapNext, Map!LetGo
<1> QED BY <1>1, <1>2, <1>3, MapSteps

(* Whatever users and administrators do, the map keeps what ProxyMap says: *)
(* so that a proxy that was disabled, reloaded away or replaced is never   *)
(* found again.                                                            *)
THEOREM AppStateKeepsTheMap == Spec => MapIsKept
<1>1. Init => BringingInv
  BY LimitsAssumption DEF Init, BringingInv, Task
<1>2. IInv /\ BringingInv /\ [Next]_vars => BringingInv'
  BY BringingStep
<1> QED BY <1>1, <1>2, MapRefinesInit, MapRefinesStep, InvariantHolds, PTL
        DEF Spec, MapIsKept, Map!MapSpec

-----------------------------------------------------------------------------
(* What is changed reaches the file.                                       *)

(* A step of a user, the console or a child changes neither side, nor who  *)
(* is on the way from one to the other.                                    *)
LEMMA AsideSteps ==
  ASSUME IInv,
         \/ \E u \in User : \/ \E i \in Server : Lookup(u, i)
                            \/ GetOrSpawn(u) \/ Release(u)
         \/ \E n \in DOMAIN spawned : ChildExits(n)
         \/ \E a \in Admin : View(a) \/ Reload(a) \/ Viewed(a) \/ Acquire(a)
         \/ List \/ LiveIds \/ PrintServer
         \/ UNCHANGED vars
  PROVE  /\ UNCHANGED <<config, file, astray>>
         /\ \A a \in Admin : ToSave(a) => ToSave(a)'
<1> USE TasksAssumption DEF Task, Goto, Return, store, adminVars, ToSave
<1>p. DOMAIN pc = Task /\ DOMAIN arg = Task
  BY DEF IInv, TypeOK
<1>1. ASSUME NEW u \in User,
             (\E i \in Server : Lookup(u, i)) \/ GetOrSpawn(u) \/ Release(u)
      PROVE  /\ UNCHANGED <<config, file, astray>>
             /\ \A a \in Admin : pc'[a] = pc[a] /\ arg'[a] = arg[a]
  <2>1. \A a \in Admin : a # u
    OBVIOUS
  <2> QED BY <1>1, <1>p, <2>1 DEF Lookup, GetOrSpawn, ReadEntry, Spawn, InsertProxy,
                                  Release
<1>2. ASSUME NEW n \in DOMAIN spawned, ChildExits(n)
      PROVE  UNCHANGED <<config, file, astray, pc, arg>>
  BY <1>2 DEF ChildExits
<1>3. ASSUME NEW a \in Admin, View(a) \/ Reload(a) \/ Viewed(a) \/ Acquire(a)
      PROVE  /\ UNCHANGED <<config, file, astray>> /\ ~ToSave(a)
             /\ \A b \in Admin : b # a => pc'[b] = pc[b] /\ arg'[b] = arg[b]
  <2>1. pc[a] \in {"idle", "reload", "view", "status"}
    <3>1. wants[a] # <<>> => pc[a] \in {"reload", "view", "status"}
      BY DEF IInv, LocksInv
    <3> QED BY <1>3, <3>1 DEF View, Reload, Viewed, Acquire, Ask
  <2> QED BY <1>3, <1>p, <2>1 DEF View, Reload, Viewed, Acquire
<1>4. CASE List \/ LiveIds \/ PrintServer
  <2>1. /\ UNCHANGED <<config, file, astray>>
        /\ pc[Console] \in {"idle", "ids", "list"}
        /\ \A b \in Admin : b # Console => pc'[b] = pc[b] /\ arg'[b] = arg[b]
    BY <1>4, <1>p DEF List, LiveIds, PrintServer, Ask
  <2> QED BY <2>1
<1>5. CASE UNCHANGED vars
  BY <1>5 DEF vars
<1> QED BY <1>1, <1>2, <1>3, <1>4, <1>5

(* An add or a disable that changes the configuration is on its way.       *)
LEMMA ChangeSteps ==
  ASSUME IInv, PersistInv, NEW a \in Admin, NEW i \in Server,
         Disable(a, i) \/ \E e \in Entry : Add(a, i, e)
  PROVE  PersistInv'
<1> USE TasksAssumption DEF Task, Goto
<1>t. config \in Config /\ DOMAIN pc = Task /\ DOMAIN arg = Task
  BY DEF IInv, TypeOK
<1>1. ToSave(a)' \/ config' = config
  <2>1. CASE \E e \in Entry : Add(a, i, e)
    BY <1>t, <2>1 DEF Add, ToSave
  <2>2. CASE Disable(a, i) /\ i \in DOMAIN config
    <3>1. config[i] \in Entry
      BY <1>t, <2>2, ConfigFacts
    <3>2. arg'[a].entry = config[i] /\ pc'[a] = "unproxy"
      BY <1>t, <2>2 DEF Disable
    <3> QED BY <3>1, <3>2, EntryAssumption DEF ToSave
  <2>3. CASE Disable(a, i) /\ i \notin DOMAIN config
    <3>1. config' = [x \in DOMAIN config |-> config[x]]
      BY <2>3 DEF Disable, Remove, Restrict
    <3>2. config = [x \in DOMAIN config |-> config[x]]
      BY <1>t DEF Config
    <3> QED BY <3>1, <3>2
  <2> QED BY <2>1, <2>2, <2>3
<1>2. /\ pc[a] = "idle" /\ UNCHANGED <<file, astray>>
      /\ \A b \in Admin : b # a => pc'[b] = pc[b] /\ arg'[b] = arg[b]
  BY <1>t DEF Disable, Add, Ask
<1>3. ASSUME NEW b \in Admin, ToSave(b) PROVE ToSave(b)'
  BY <1>2, <1>3 DEF ToSave
<1> QED BY <1>1, <1>2, <1>3 DEF PersistInv

(* Every step keeps what is changed on its way to the file. *)
LEMMA PersistStep ==
  ASSUME IInv, PersistInv, [Next]_vars PROVE PersistInv'
<1> USE TasksAssumption DEF Task, Goto
<1>p. DOMAIN pc = Task /\ DOMAIN arg = Task /\ SavesWhatIsConfigured
  BY DEF IInv, TypeOK
<1>1. ASSUME NEW a \in Admin, DropProxy(a) PROVE PersistInv'
  <2>1. /\ UNCHANGED <<config, file, astray>> /\ pc[a] = "unproxy"
        /\ arg[a].entry = NoEntry \/ pc' = [pc EXCEPT ![a] = "save"]
        /\ \A b \in Admin : b # a => pc'[b] = pc[b] /\ arg'[b] = arg[b]
    BY <1>1, <1>p DEF DropProxy, Return
  <2>2. ASSUME NEW b \in Admin, ToSave(b) PROVE ToSave(b)'
    BY <1>p, <2>1, <2>2 DEF ToSave
  <2> QED BY <2>1, <2>2 DEF PersistInv
<1>2. ASSUME NEW a \in Admin, SaveOpen(a) PROVE PersistInv'
  BY <1>2, <1>p DEF SaveOpen, PersistInv, ToSave
<1>3. ASSUME NEW a \in Admin, SaveWrite(a) PROVE PersistInv'
  BY <1>3, <1>p DEF SaveWrite, SavesWhatIsConfigured, PersistInv
<1>4. ASSUME NEW a \in Admin, SaveFails(a) PROVE PersistInv'
  BY <1>4 DEF SaveFails, PersistInv
<1>5. ASSUME NEW a \in Admin, Apply(a) PROVE PersistInv'
  BY <1>5 DEF Apply, PersistInv
<1>6. CASE Edit \/ Restart
  BY <1>6 DEF Edit, Restart, PersistInv
<1>7. ASSUME UNCHANGED <<config, file, astray>>,
             \A a \in Admin : ToSave(a) => ToSave(a)'
      PROVE  PersistInv'
  BY <1>7 DEF PersistInv
<1> QED BY <1>1, <1>2, <1>3, <1>4, <1>5, <1>6, <1>7, AsideSteps, ChangeSteps
        DEF Next, Administer

(* The file is the configuration whenever no change is on its way to it,   *)
(* in whatever order any number of administrators change, reload, save and *)
(* fail to save, and wherever the process ends: except from an edit, from  *)
(* a write that failed or from a reload that a write overtook until the    *)
(* next write, reload or restart.                                          *)
THEOREM ChangesArePersisted == Spec => []PersistedWhenQuiet
<1>1. Init => PersistInv
  BY DEF Init, PersistInv
<1>2. IInv /\ PersistInv /\ [Next]_vars => PersistInv'
  BY PersistStep
<1>3. PersistInv => PersistedWhenQuiet
  BY DEF PersistInv, PersistedWhenQuiet, Quiet, ToSave
<1> QED BY <1>1, <1>2, <1>3, InvariantHolds, PTL DEF Spec
=============================================================================
