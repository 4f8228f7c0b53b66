----------------------------- MODULE McpHostProofs -----------------------------
(***************************************************************************)
(* Proofs about McpHost: that the two sides of the catalog agree, and that *)
(* each tool in it is one of the server that is connected under its name.  *)
(***************************************************************************)
EXTENDS McpHost, WellFoundedInduction, TLAPS

-----------------------------------------------------------------------------
(* The inductive invariant *)

\* main has a connection in hand until it is through with all of them; while it
\* registers one its name is free.
Underway ==
  /\ boot.step \notin {"check", "dead"} => boot.at <= Len(Order)
  /\ boot.step = "register" => conns[NameOf[Current]] = None

\* main's own refresh runs while main waits for it, and there is one.
Starting ==
  \A r \in refreshes : r.id = 0 =>
    /\ boot.step = "refresh" /\ r.conn = Current /\ r.step # "find"
    /\ \A q \in refreshes : q.id = 0 => q = r

\* A refresh that has found its connection works for the one that is registered,
\* unless that was disconnected meanwhile.
Belongs ==
  \A r \in refreshes :
    r.step # "find" /\ NameOf[r.conn] \notin crossed => conns[NameOf[r.conn]] = r.conn

-----------------------------------------------------------------------------
(* Lemmas *)

\* Connections have names, and the one main is at is one of them.
LEMMA Names ==
  /\ \A c \in Conn : NameOf[c] \in Name
  /\ \A i \in 1..Len(Order) : Order[i] \in Conn
  /\ Len(Order) \in Nat
<1>1. Order \in Seq(Conn) /\ DOMAIN NameOf = Conn
  BY HostConstants
<1>2. \A c \in Conn : NameOf[c] \in Name
  BY <1>1 DEF Name, Range
<1>. QED  BY <1>1, <1>2

\* Failed calls are counted up to the bound.
LEMMA FaultType == ASSUME TypeOK, Fault \/ NoFault PROVE faults' \in 0..MaxFaults
<1>1. faults \in 0..MaxFaults /\ MaxFaults \in Nat
  BY HostConstants DEF TypeOK
<1>. QED  BY <1>1 DEF Fault, NoFault

\* What a server lists has names of the catalog.
LEMMA ListsNamed ==
  ASSUME NEW c \in Conn, NEW v \in DOMAIN Lists[c]
  PROVE  /\ Lists[c][v] \in Seq(Tool) /\ v \in Nat
         /\ Named(c, Lists[c][v]) \subseteq Range(Exposed)
<1>1. Lists[c] \in Seq(Seq(Tool))
  BY HostConstants
<1>2. Lists[c][v] \in Seq(Tool) /\ v \in Nat
  BY <1>1
<1>3. \A i \in DOMAIN Lists[c][v] : Lists[c][v][i] \in Tool
  BY <1>2
<1>4. \A i \in DOMAIN Lists[c][v] : <<NameOf[c], Lists[c][v][i]>> \in DOMAIN Exposed
  BY <1>3, Names, HostConstants DEF Name
<1>. QED  BY <1>2, <1>4 DEF Named, Range

\* What goes into the catalog for a list: the names it has that are not taken,
\* for this connection; what is there stays.
LEMMA FilledEffect ==
  ASSUME NEW others, others \in [DOMAIN others -> [conn : Conn, tool : Tool]],
         NEW c \in Conn, NEW list \in Seq(Tool)
  PROVE  /\ DOMAIN Filled(others, c, list) = DOMAIN others \cup Named(c, list)
         /\ \A e \in DOMAIN others : Filled(others, c, list)[e] = others[e]
         /\ \A e \in Named(c, list) \ DOMAIN others :
              Filled(others, c, list)[e] \in [conn : {c}, tool : Tool]
<1>. DEFINE name(i)  == Exposed[<<NameOf[c], list[i]>>]
            first(e) == CHOOSE i \in DOMAIN list :
                          name(i) = e /\ \A j \in DOMAIN list : name(j) = e => i <= j
<1>1. ASSUME NEW e \in Named(c, list)
      PROVE  list[first(e)] \in Tool
  <2>. DEFINE Has == {i \in DOMAIN list : name(i) = e}
  <2>1. PICK i \in DOMAIN list : name(i) = e
    BY DEF Named
  <2>2. Has \subseteq Nat /\ Has # {}
    <3>1. DOMAIN list \subseteq Nat
      OBVIOUS
    <3>. QED  BY <2>1, <3>1
  <2>3. \E k \in Has : \A j \in Has : k <= j
    <3>1. \E k \in Has : \A j \in Has : <<j, k>> \notin OpToRel(<, Nat)
      BY <2>2, NatLessThanWellFounded, WFMin
    <3>2. \A j, k \in Nat : <<j, k>> \notin OpToRel(<, Nat) => k <= j
      BY DEF OpToRel
    <3>. QED  BY <2>2, <3>1, <3>2
  <2>4. first(e) \in DOMAIN list
    BY <2>3
  <2>. QED  BY <2>4
<1>2. Filled(others, c, list) =
        [e \in DOMAIN others \cup Named(c, list) |->
           IF e \in DOMAIN others THEN others[e] ELSE [conn |-> c, tool |-> list[first(e)]]]
  BY DEF Filled
<1>. HIDE DEF first
<1>. QED  BY <1>1, <1>2

-----------------------------------------------------------------------------
(* The shape of the state *)

Record == [id : Nat, conn : Conn, list : Nat \cup {None},
           step : {"find", "resources", "store", "tools", "apply"}]

\* A refresh goes on, or comes to be.
LEMMA MoveEffect ==
  ASSUME TypeOK, NEW r \in refreshes, NEW step \in {"resources", "store", "tools", "apply"},
         NEW list \in Nat \cup {None}, Move(r, step, list),
         step \in {"store", "apply"} => list \in DOMAIN Lists[r.conn]
  PROVE  /\ \E u \in Record :
              /\ refreshes' = (refreshes \ {r}) \cup {u}
              /\ u.id = r.id /\ u.conn = r.conn /\ u.step = step /\ u.list = list
         /\ refreshes' \subseteq Record
         /\ \A q \in refreshes' : q.step \in {"store", "apply"} => q.list \in DOMAIN Lists[q.conn]
<1>. DEFINE u == [r EXCEPT !.step = step, !.list = list]
<1>1. r \in Record /\ refreshes \subseteq Record
      /\ \A q \in refreshes : q.step \in {"store", "apply"} => q.list \in DOMAIN Lists[q.conn]
  BY DEF TypeOK, Record, Holding
<1>2. u \in Record /\ u.id = r.id /\ u.conn = r.conn /\ u.step = step /\ u.list = list
  BY <1>1 DEF Record
<1>3. refreshes' = (refreshes \ {r}) \cup {u}
  BY DEF Move
<1>. HIDE DEF u
<1>. QED  BY <1>1, <1>2, <1>3

\* What a disconnected server had goes.
LEMMA DroppedEffect ==
  ASSUME TypeOK, NEW name \in Name, Dropped(name)
  PROVE  /\ conns' \in [Name -> Conn \cup {None}]
         /\ \A n \in Name : conns'[n] = IF n = name THEN None ELSE conns[n]
         /\ DOMAIN tools' = DOMAIN tools \ byServer[name]
         /\ \A e \in DOMAIN tools' : tools'[e] = tools[e]
         /\ tools' \in [DOMAIN tools' -> [conn : Conn, tool : Tool]]
         /\ byServer' \in [Name -> SUBSET Range(Exposed)]
         /\ \A n \in Name : byServer'[n] = IF n = name THEN {} ELSE byServer[n]
         /\ crossed' \subseteq Name /\ crossed \subseteq crossed'
         /\ \A r \in refreshes : NameOf[r.conn] = name /\ r.step # "find" => name \in crossed'
         /\ crossed' \subseteq crossed \cup {name}
<1>1. tools' = [e \in DOMAIN tools \ byServer[name] |-> tools[e]]
  BY DEF Dropped, Without
<1>2. /\ DOMAIN tools' = DOMAIN tools \ byServer[name]
      /\ \A e \in DOMAIN tools' : tools'[e] = tools[e]
      /\ tools' \in [DOMAIN tools' -> [conn : Conn, tool : Tool]]
  BY <1>1 DEF TypeOK
<1>3. /\ conns' \in [Name -> Conn \cup {None}]
      /\ \A n \in Name : conns'[n] = IF n = name THEN None ELSE conns[n]
  BY DEF Dropped, TypeOK
<1>4. /\ byServer' \in [Name -> SUBSET Range(Exposed)]
      /\ \A n \in Name : byServer'[n] = IF n = name THEN {} ELSE byServer[n]
  BY DEF Dropped, TypeOK
<1>5. /\ crossed' \subseteq Name /\ crossed \subseteq crossed' /\ crossed' \subseteq crossed \cup {name}
      /\ \A r \in refreshes : NameOf[r.conn] = name /\ r.step # "find" => name \in crossed'
  BY DEF Dropped, TypeOK
<1>. QED  BY <1>2, <1>3, <1>4, <1>5

\* A list replaces what its server had in the catalog.
LEMMA ApplyEffect ==
  ASSUME TypeOK, NEW r \in refreshes, Apply(r)
  PROVE  /\ r.conn \in Conn /\ NameOf[r.conn] \in Name
         /\ DOMAIN tools \ byServer[NameOf[r.conn]] \subseteq DOMAIN tools'
         /\ \A e \in DOMAIN tools \ byServer[NameOf[r.conn]] : tools'[e] = tools[e]
         /\ \A e \in DOMAIN tools' \ (DOMAIN tools \ byServer[NameOf[r.conn]]) :
              tools'[e].conn = r.conn
         /\ tools' \in [DOMAIN tools' -> [conn : Conn, tool : Tool]]
         /\ DOMAIN tools' \subseteq Range(Exposed)
         /\ byServer' \in [Name -> SUBSET Range(Exposed)]
         /\ \A n \in Name : byServer'[n] =
              IF n = NameOf[r.conn] THEN DOMAIN tools' \ (DOMAIN tools \ byServer[n])
              ELSE byServer[n]
         /\ skipped' \in [Conn -> SUBSET Range(Exposed)]
<1>. DEFINE c      == r.conn
            list   == Lists[c][r.list]
            others == Cleared(c)
            news   == Named(c, list) \ DOMAIN others
<1>1. r.step = "apply" /\ c \in Conn /\ r.list \in DOMAIN Lists[c]
  BY DEF Apply, TypeOK, Holding
<1>2. NameOf[c] \in Name
  BY <1>1, Names
<1>3. list \in Seq(Tool) /\ Named(c, list) \subseteq Range(Exposed)
  BY <1>1, ListsNamed
<1>4. others = [e \in DOMAIN tools \ byServer[NameOf[c]] |-> tools[e]]
  BY DEF Cleared, Without
<1>5. /\ DOMAIN others = DOMAIN tools \ byServer[NameOf[c]]
      /\ \A e \in DOMAIN others : others[e] = tools[e]
      /\ others \in [DOMAIN others -> [conn : Conn, tool : Tool]]
  BY <1>4 DEF TypeOK
<1>6. /\ tools' = Filled(others, c, list)
      /\ byServer' = [byServer EXCEPT ![NameOf[c]] = DOMAIN tools' \ DOMAIN others]
      /\ skipped' = [skipped EXCEPT ![c] = Named(c, list) \cap DOMAIN others]
  BY DEF Apply
<1>. HIDE DEF others, list
<1>7. /\ DOMAIN tools' = DOMAIN others \cup Named(c, list)
      /\ \A e \in DOMAIN others : tools'[e] = others[e]
      /\ \A e \in news : tools'[e] \in [conn : {c}, tool : Tool]
  <2>1. /\ DOMAIN Filled(others, c, list) = DOMAIN others \cup Named(c, list)
        /\ \A e \in DOMAIN others : Filled(others, c, list)[e] = others[e]
        /\ \A e \in Named(c, list) \ DOMAIN others :
             Filled(others, c, list)[e] \in [conn : {c}, tool : Tool]
    BY <1>1, <1>3, <1>5, FilledEffect
  <2>. QED  BY <1>6, <2>1
<1>8. \A e \in DOMAIN tools' : tools'[e] \in [conn : Conn, tool : Tool]
  BY <1>1, <1>5, <1>7
<1>9. tools' \in [DOMAIN tools' -> [conn : Conn, tool : Tool]]
  <2>1. tools' = [e \in DOMAIN tools' |-> tools'[e]]
    BY <1>6 DEF Filled
  <2>. QED  BY <1>8, <2>1
<1>10. DOMAIN tools' \subseteq Range(Exposed)
  BY <1>3, <1>5, <1>7 DEF TypeOK
<1>11. /\ byServer' \in [Name -> SUBSET Range(Exposed)]
       /\ \A n \in Name : byServer'[n] =
            IF n = NameOf[c] THEN DOMAIN tools' \ DOMAIN others ELSE byServer[n]
  BY <1>2, <1>6, <1>10 DEF TypeOK
<1>12. skipped' \in [Conn -> SUBSET Range(Exposed)]
  BY <1>1, <1>3, <1>6 DEF TypeOK
<1>. QED  BY <1>1, <1>2, <1>5, <1>7, <1>9, <1>10, <1>11, <1>12

\* main gives a connection up.
LEMMA GiveUpEffect ==
  ASSUME TypeOK, boot.at <= Len(Order), GiveUp
  PROVE  /\ boot' \in [at : 1..(Len(Order) + 1),
                       step : {"check", "register", "refresh", "next", "drop", "close", "dead"}]
         /\ boot'.step \in {"check", "dead"}
<1>1. boot.at \in 1..(Len(Order) + 1) /\ Len(Order) \in Nat
  BY Names DEF TypeOK
<1>2. CASE Current \in BuiltIn
  BY <1>2 DEF GiveUp, TypeOK
<1>3. CASE Current \notin BuiltIn
  <2>1. boot' = [at |-> boot.at + 1, step |-> "check"] /\ boot.at + 1 \in 1..(Len(Order) + 1)
    BY <1>1, <1>3 DEF GiveUp
  <2>. QED  BY <2>1
<1>. QED  BY <1>2, <1>3

\* main's own connection, while it has one in hand.
LEMMA CurrentIsOne ==
  ASSUME TypeOK, boot.at <= Len(Order)
  PROVE  Current \in Conn /\ NameOf[Current] \in Name /\ boot.at \in 1..Len(Order)
<1>1. boot.at \in 1..Len(Order)
  BY Names DEF TypeOK
<1>. QED  BY <1>1, Names DEF Current

\* Refreshes keep the shape.
LEMMA RefreshType ==
  ASSUME TypeOK, NEW r \in refreshes,
         RefreshSession(r) \/ ListResources(r) \/ StoreResources(r) \/ ListTools(r) \/ Apply(r)
           \/ ListFails(r)
  PROVE  TypeOK'
<1>. USE DEF catalog, servers, subscriptions, past, NoFault, Fault
<1>r. /\ r \in Record /\ refreshes \subseteq Record
      /\ \A q \in refreshes : q.step \in {"store", "apply"} => q.list \in DOMAIN Lists[q.conn]
  BY DEF TypeOK, Record, Holding
<1>c. r.conn \in Conn
  BY <1>r DEF Record
<1>v. version[r.conn] \in Nat \cup {None} /\ version[r.conn] \in DOMAIN Lists[r.conn]
  BY <1>c DEF TypeOK
<1>0. ASSUME /\ refreshes' \subseteq Record
             /\ \A q \in refreshes' : q.step \in {"store", "apply"} => q.list \in DOMAIN Lists[q.conn]
      PROVE  (/\ refreshes \subseteq [id : Nat, conn : Conn, list : Nat \cup {None},
                         step : {"find", "resources", "store", "tools", "apply"}]
              /\ \A q \in refreshes : Holding(q) => q.list \in DOMAIN Lists[q.conn])'
  BY <1>0 DEF Record, Holding
<1>1. CASE RefreshSession(r)
  <2>1. /\ refreshes' \subseteq Record
        /\ \A q \in refreshes' : q.step \in {"store", "apply"} => q.list \in DOMAIN Lists[q.conn]
    BY <1>1, <1>r, MoveEffect DEF RefreshSession
  <2>. QED  BY <1>0, <1>1, <2>1 DEF RefreshSession, TypeOK
<1>2. CASE ListResources(r)
  <2>1. /\ refreshes' \subseteq Record
        /\ \A q \in refreshes' : q.step \in {"store", "apply"} => q.list \in DOMAIN Lists[q.conn]
    BY <1>2, <1>v, MoveEffect DEF ListResources
  <2>2. overlapped' \subseteq Conn
    BY <1>2, <1>c DEF ListResources, Lagging, TypeOK
  <2>. QED  BY <1>0, <1>2, <2>1, <2>2 DEF ListResources, TypeOK
<1>3. CASE StoreResources(r)
  <2>1. /\ refreshes' \subseteq Record
        /\ \A q \in refreshes' : q.step \in {"store", "apply"} => q.list \in DOMAIN Lists[q.conn]
    BY <1>3, MoveEffect DEF StoreResources
  <2>2. resources' \in [Conn -> Nat]
    <3>1. r.list \in Nat
      BY <1>3, <1>r, <1>c, ListsNamed DEF StoreResources
    <3>. QED  BY <1>3, <3>1 DEF StoreResources, TypeOK
  <2>. QED  BY <1>0, <1>3, <2>1, <2>2 DEF StoreResources, TypeOK
<1>4. CASE ListTools(r)
  <2>1. /\ refreshes' \subseteq Record
        /\ \A q \in refreshes' : q.step \in {"store", "apply"} => q.list \in DOMAIN Lists[q.conn]
    BY <1>4, <1>v, MoveEffect DEF ListTools
  <2>2. overlapped' \subseteq Conn
    BY <1>4, <1>c DEF ListTools, Lagging, TypeOK
  <2>. QED  BY <1>0, <1>4, <2>1, <2>2 DEF ListTools, TypeOK
<1>5. CASE Apply(r)
  <2>1. refreshes' = refreshes \ {r}
        /\ boot' = IF r.id = 0 THEN [boot EXCEPT !.step = "next"] ELSE boot
    BY <1>5 DEF Apply
  <2>2. /\ refreshes' \subseteq Record
        /\ \A q \in refreshes' : q.step \in {"store", "apply"} => q.list \in DOMAIN Lists[q.conn]
    BY <1>r, <2>1
  <2>3. boot' \in [at : 1..(Len(Order) + 1),
                   step : {"check", "register", "refresh", "next", "drop", "close", "dead"}]
    BY <2>1 DEF TypeOK
  <2>4. /\ tools' \in [DOMAIN tools' -> [conn : Conn, tool : Tool]]
        /\ DOMAIN tools' \subseteq Range(Exposed)
        /\ byServer' \in [Name -> SUBSET Range(Exposed)]
        /\ skipped' \in [Conn -> SUBSET Range(Exposed)]
    BY <1>5, ApplyEffect
  <2>5. UNCHANGED <<conns, resources, servers, subscriptions, faults, overlapped, crossed, failed>>
    BY <1>5 DEF Apply
  <2>. QED  BY <1>0, <2>2, <2>3, <2>4, <2>5 DEF TypeOK
<1>6. CASE ListFails(r)
  <2>1. refreshes' = refreshes \ {r} /\ failed' = failed \cup {r.conn}
        /\ boot' = IF r.id = 0 THEN [boot EXCEPT !.step = "drop"] ELSE boot
    BY <1>6 DEF ListFails
  <2>2. /\ refreshes' \subseteq Record
        /\ \A q \in refreshes' : q.step \in {"store", "apply"} => q.list \in DOMAIN Lists[q.conn]
    BY <1>r, <2>1
  <2>3. boot' \in [at : 1..(Len(Order) + 1),
                   step : {"check", "register", "refresh", "next", "drop", "close", "dead"}]
    BY <2>1 DEF TypeOK
  <2>4. faults' \in 0..MaxFaults
    BY <1>6, FaultType DEF ListFails
  <2>5. UNCHANGED <<catalog, servers, subscriptions, skipped, overlapped, crossed>>
    BY <1>6 DEF ListFails
  <2>6. overlapped' \cup failed' \subseteq Conn
    BY <1>c, <2>1, <2>5 DEF TypeOK
  <2>. QED  BY <1>0, <2>2, <2>3, <2>4, <2>5, <2>6 DEF TypeOK
<1>. QED  BY <1>1, <1>2, <1>3, <1>4, <1>5, <1>6

\* So does main.
LEMMA MainType == TypeOK /\ Underway /\ Main => TypeOK'
<1>. SUFFICES ASSUME TypeOK, Underway, Main PROVE TypeOK'
  OBVIOUS
<1>. USE DEF catalog, servers, subscriptions, past, NoFault, Fault
<1>. DEFINE Boots == [at : 1..(Len(Order) + 1),
                       step : {"check", "register", "refresh", "next", "drop", "close", "dead"}]
<1>1. CASE ConnectTwice
  <2>1. boot' \in Boots
    BY <1>1, GiveUpEffect DEF ConnectTwice, Booting
  <2>. QED  BY <1>1, <2>1 DEF ConnectTwice, TypeOK, Holding
<1>2. CASE Connect
  <2>1. boot' \in Boots
    BY <1>2 DEF Connect, TypeOK
  <2>2. live' \subseteq Conn
    BY <1>2, CurrentIsOne DEF Connect, Booting, TypeOK
  <2>. QED  BY <1>2, <2>1, <2>2 DEF Connect, TypeOK, Holding
<1>3. CASE ConnectFails
  <2>1. boot' \in Boots
    BY <1>3, GiveUpEffect DEF ConnectFails, Booting
  <2>2. faults' \in 0..MaxFaults
    BY <1>3, FaultType DEF ConnectFails
  <2>. QED  BY <1>3, <2>1, <2>2 DEF ConnectFails, TypeOK, Holding
<1>4. CASE Register
  <2>0. Current \in Conn /\ NameOf[Current] \in Name
    BY <1>4, CurrentIsOne DEF Register, Booting
  <2>1. boot' \in Boots
    BY <1>4 DEF Register, TypeOK
  <2>2. /\ conns' \in [Name -> Conn \cup {None}]
        /\ \A n \in Name : conns'[n] # None => NameOf[conns'[n]] = n
    BY <1>4, <2>0 DEF Register, TypeOK
  <2>3. /\ refreshes' \subseteq Record
        /\ \A q \in refreshes' : q.step \in {"store", "apply"} => q.list \in DOMAIN Lists[q.conn]
    <3>. DEFINE u == [id |-> 0, conn |-> Current, step |-> "resources", list |-> None]
    <3>1. u \in Record /\ u.step = "resources" /\ refreshes' = refreshes \cup {u}
      BY <1>4, <2>0 DEF Register, Record
    <3>2. /\ refreshes \subseteq Record
          /\ \A q \in refreshes : q.step \in {"store", "apply"} => q.list \in DOMAIN Lists[q.conn]
      BY DEF TypeOK, Record, Holding
    <3>. HIDE DEF u
    <3>. QED  BY <3>1, <3>2
  <2>. QED  BY <1>4, <2>1, <2>2, <2>3 DEF Register, TypeOK, Holding, Record
<1>5. CASE Connected
  <2>0. boot.at \in 1..Len(Order) /\ Len(Order) \in Nat /\ Current \in Conn
    BY <1>5, CurrentIsOne, Names DEF Connected, Booting
  <2>1. boot' \in Boots
    <3>1. boot' = [at |-> boot.at + 1, step |-> "check"] /\ boot.at + 1 \in 1..(Len(Order) + 1)
      BY <1>5, <2>0 DEF Connected
    <3>. QED  BY <3>1
  <2>2. source' \in [Conn -> [step : {"none", "waiting", "subscribing", "on", "ended"}, todo : SUBSET Uri]]
    <3>1. Waiting \in [step : {"none", "waiting", "subscribing", "on", "ended"}, todo : SUBSET Uri]
      BY DEF Waiting
    <3>2. source' = source \/ source' = [source EXCEPT ![Current] = Waiting]
      BY <1>5 DEF Connected
    <3>. QED  BY <3>1, <3>2 DEF TypeOK
  <2>. QED  BY <1>5, <2>1, <2>2 DEF Connected, TypeOK, Holding
<1>6. CASE LogRaces
  <2>1. boot' \in Boots
    BY <1>6 DEF LogRaces, TypeOK
  <2>. QED  BY <1>6, <2>1 DEF LogRaces, TypeOK, Holding
<1>7. ASSUME NEW name \in Name, Dropped(name)
      PROVE  /\ conns' \in [Name -> Conn \cup {None}]
             /\ \A n \in Name : conns'[n] # None => NameOf[conns'[n]] = n
             /\ tools' \in [DOMAIN tools' -> [conn : Conn, tool : Tool]]
             /\ DOMAIN tools' \subseteq Range(Exposed)
             /\ byServer' \in [Name -> SUBSET Range(Exposed)]
             /\ crossed' \subseteq Name
  <2>1. /\ conns' \in [Name -> Conn \cup {None}]
        /\ \A n \in Name : conns'[n] = IF n = name THEN None ELSE conns[n]
        /\ tools' \in [DOMAIN tools' -> [conn : Conn, tool : Tool]]
        /\ DOMAIN tools' \subseteq DOMAIN tools
        /\ byServer' \in [Name -> SUBSET Range(Exposed)]
        /\ crossed' \subseteq Name
    BY <1>7, DroppedEffect
  <2>. QED  BY <2>1 DEF TypeOK
<1>8. CASE Drop
  <2>0. Current \in Conn /\ NameOf[Current] \in Name
    BY <1>8, CurrentIsOne DEF Drop, Booting
  <2>1. boot' \in Boots /\ closing' \in Conn \cup {None}
    BY <1>8, <2>0 DEF Drop, TypeOK
  <2>2. Dropped(NameOf[Current])
        /\ UNCHANGED <<resources, refreshes, live, version, stopping, subscriptions, faults, skipped, overlapped, failed>>
    BY <1>8 DEF Drop
  <2>. QED  BY <1>7, <2>0, <2>1, <2>2 DEF TypeOK, Holding
<1>9. CASE CloseSession
  <2>1. boot' \in Boots
    <3>1. CASE boot.step = "close"
      BY <1>9, <3>1, GiveUpEffect DEF CloseSession, Underway
    <3>2. CASE boot.step # "close"
      BY <1>9, <3>2 DEF CloseSession, TypeOK
    <3>. QED  BY <3>1, <3>2
  <2>. QED  BY <1>9, <2>1 DEF CloseSession, TypeOK, Holding
<1>10. ASSUME NEW n \in Name, Close(n) PROVE TypeOK'
  <2>1. /\ Dropped(n) /\ closing' = conns[n]
        /\ UNCHANGED <<resources, boot, refreshes, live, version, stopping, subscriptions, faults, skipped, overlapped, failed>>
    BY <1>10 DEF Close
  <2>2. closing' \in Conn \cup {None}
    BY <2>1 DEF TypeOK
  <2>. QED  BY <1>7, <2>1, <2>2 DEF TypeOK, Holding
<1>. QED  BY <1>1, <1>2, <1>3, <1>4, <1>5, <1>6, <1>8, <1>9, <1>10 DEF Main

\* So do the sources, ...
LEMMA SourcesType == TypeOK /\ Sources => TypeOK'
<1>. SUFFICES ASSUME TypeOK, NEW c \in Conn,
                     Watch(c) \/ (\E u \in Uri : Subscribe(c, u)) \/ SubscribeFails(c) \/ SourceStops(c)
              PROVE  TypeOK'
  BY DEF Sources
<1>. DEFINE Does == [step : {"none", "waiting", "subscribing", "on", "ended"}, todo : SUBSET Uri]
<1>0. NameOf[c] \in Name
  BY Names
<1>1. ASSUME NEW step \in {"waiting", "subscribing", "on", "ended"}, NEW todo \in SUBSET Uri,
             Sourced(c, step, todo)
      PROVE  source' \in [Conn -> Does]
  BY <1>1 DEF Sourced, TypeOK
<1>2. ASSUME StillSourced, source' \in [Conn -> Does], watchers' \subseteq Name,
             subscribed' \subseteq Uri, missed' \subseteq Uri, faults' \in 0..MaxFaults
      PROVE  TypeOK'
  BY <1>2 DEF StillSourced, catalog, servers, past, TypeOK, Holding
<1>3. CASE Watch(c)
  <2>1. source' \in [Conn -> Does]
    BY <1>1, <1>3 DEF Watch, UrisOf
  <2>. QED  BY <1>0, <1>2, <1>3, <2>1 DEF Watch, Routed, NoFault, TypeOK
<1>4. ASSUME NEW u \in Uri, Subscribe(c, u) PROVE TypeOK'
  <2>1. source[c].todo \ {u} \in SUBSET Uri
    BY DEF TypeOK
  <2>2. source' \in [Conn -> Does]
    BY <1>1, <1>4, <2>1 DEF Subscribe
  <2>. QED  BY <1>2, <1>4, <2>2 DEF Subscribe, NoFault, TypeOK
<1>5. CASE SubscribeFails(c)
  <2>1. source' \in [Conn -> Does]
    BY <1>1, <1>5 DEF SubscribeFails
  <2>2. faults' \in 0..MaxFaults
    BY <1>5, FaultType DEF SubscribeFails
  <2>. QED  BY <1>2, <1>5, <2>1, <2>2 DEF SubscribeFails, Unrouted, UrisOf, TypeOK
<1>6. CASE SourceStops(c)
  <2>1. source' \in [Conn -> Does]
    BY <1>1, <1>6 DEF SourceStops
  <2>. QED  BY <1>2, <1>6, <2>1 DEF SourceStops, Unrouted, NoFault, TypeOK
<1>. QED  BY <1>3, <1>4, <1>5, <1>6

\* ... the goroutines that read back, ...
LEMMA NotifiedType == TypeOK /\ Notified => TypeOK'
<1>. SUFFICES ASSUME TypeOK, NEW n \in updates,
                     ResourceUpdated(n) \/ ReadBack(n) \/ ReadBackFails(n) \/ Emit(n)
              PROVE  TypeOK'
  BY DEF Notified
<1>. DEFINE Update == [uri : Uri, id : Nat, step : {"sent", "read", "emit"}, got : Nat]
<1>1. n \in Update /\ updates \subseteq Update
  BY DEF TypeOK
<1>2. ASSUME NEW now, now \subseteq Update, Handled(n, now),
             missed' \subseteq Uri, faults' \in 0..MaxFaults
      PROVE  TypeOK'
  <2>1. updates' \subseteq Update
    BY <1>1, <1>2 DEF Handled
  <2>. QED  BY <1>2, <2>1 DEF Handled, catalog, servers, past, TypeOK, Holding
<1>3. CASE ResourceUpdated(n)
  <2>1. {[n EXCEPT !.step = "read"]} \subseteq Update
    BY <1>1
  <2>. QED  BY <1>2, <1>3, <2>1 DEF ResourceUpdated, TypeOK
<1>4. CASE ReadBack(n)
  <2>1. rev[n.uri] \in Nat
    BY <1>1 DEF TypeOK
  <2>2. {[n EXCEPT !.step = "emit", !.got = rev[n.uri]]} \subseteq Update
    BY <1>1, <2>1
  <2>. QED  BY <1>2, <1>4, <2>2 DEF ReadBack, TypeOK
<1>5. CASE ReadBackFails(n)
  <2>1. faults' \in 0..MaxFaults
    BY <1>5, FaultType DEF ReadBackFails
  <2>2. missed' \subseteq Uri
    BY <1>1, <1>5 DEF ReadBackFails, TypeOK
  <2>. QED  BY <1>2, <1>5, <2>1, <2>2 DEF ReadBackFails
<1>6. CASE Emit(n)
  BY <1>2, <1>6 DEF Emit, TypeOK
<1>. QED  BY <1>3, <1>4, <1>5, <1>6

\* ... and what happens outside.
LEMMA OutsideType == TypeOK /\ Outside => TypeOK'
<1>. SUFFICES ASSUME TypeOK, Outside PROVE TypeOK'
  OBVIOUS
<1>1. ASSUME NEW c \in Conn, ListChanged(c) PROVE TypeOK'
  <2>. DEFINE u == [id |-> version[c], conn |-> c, step |-> "find", list |-> None]
  <2>1. version[c] \in Nat /\ version[c] < Len(Lists[c]) /\ version[c] + 1 \in DOMAIN Lists[c]
    <3>1. Lists[c] \in Seq(Seq(Tool)) /\ version[c] \in Nat /\ version[c] < Len(Lists[c])
      BY <1>1, HostConstants DEF ListChanged, TypeOK
    <3>. QED  BY <3>1
  <2>2. /\ version' \in [Conn -> Nat]
        /\ \A d \in Conn : version'[d] \in DOMAIN Lists[d]
    <3>1. version' = [version EXCEPT ![c] = version[c] + 1] /\ version \in [Conn -> Nat]
      BY <1>1 DEF ListChanged, TypeOK
    <3>2. \A d \in Conn : version'[d] = IF d = c THEN version[c] + 1 ELSE version[d]
      BY <3>1
    <3>3. \A d \in Conn : version[d] \in DOMAIN Lists[d]
      BY DEF TypeOK
    <3>. QED  BY <2>1, <3>1, <3>2, <3>3
  <2>3. refreshes' = refreshes \cup {u} /\ u \in Record /\ u.step = "find"
    BY <1>1, <2>1 DEF ListChanged, Record
  <2>. HIDE DEF u
  <2>4. /\ refreshes' \subseteq Record
        /\ \A q \in refreshes' : q.step \in {"store", "apply"} => q.list \in DOMAIN Lists[q.conn]
    BY <2>3 DEF TypeOK, Record, Holding
  <2>. QED  BY <1>1, <2>2, <2>4 DEF ListChanged, catalog, subscriptions, past, TypeOK, Holding, Record
<1>2. ASSUME NEW u \in Uri, Changed(u) PROVE TypeOK'
  <2>1. rev' \in [Uri -> Nat]
    BY <1>2 DEF Changed, TypeOK
  <2>2. updates' \subseteq [uri : Uri, id : Nat, step : {"sent", "read", "emit"}, got : Nat]
    BY <1>2, <2>1 DEF Changed, TypeOK
  <2>. QED  BY <1>2, <2>1, <2>2 DEF Changed, catalog, servers, past, TypeOK, Holding
<1>3. CASE Stop
  BY <1>3 DEF Stop, catalog, past, TypeOK, Holding
<1>. QED  BY <1>1, <1>2, <1>3 DEF Outside

\* Every step keeps the shape.
LEMMA TypeStep == TypeOK /\ Underway /\ [Next]_vars => TypeOK'
<1>1. TypeOK /\ Refresh => TypeOK'
  BY RefreshType DEF Refresh
<1>2. TypeOK /\ UNCHANGED vars => TypeOK'
  BY DEF vars, catalog, servers, subscriptions, past, TypeOK, Holding
<1>. QED  BY <1>1, <1>2, MainType, SourcesType, NotifiedType, OutsideType DEF Next

-----------------------------------------------------------------------------
(* The kinds of steps there are for refreshes *)

\* One goes on; the first thing it does is to look for its connection.
GoesOn ==
  /\ \E r \in refreshes, u \in Record :
       /\ refreshes' = (refreshes \ {r}) \cup {u}
       /\ u.id = r.id /\ u.conn = r.conn /\ u.step # "find"
       /\ r.step = "find" => conns[NameOf[r.conn]] = r.conn
  /\ UNCHANGED <<conns, crossed, boot>>

\* One is through; if it is main's own, main goes on.
Ends ==
  /\ \E r \in refreshes :
       /\ refreshes' = refreshes \ {r}
       /\ IF r.id = 0 THEN \E step \in {"next", "drop"} : boot' = [boot EXCEPT !.step = step]
          ELSE boot' = boot
  /\ UNCHANGED <<conns, crossed>>

\* One begins, for a notification.
Begins ==
  /\ \E u \in Record : refreshes' = refreshes \cup {u} /\ u.step = "find" /\ u.id # 0
  /\ UNCHANGED <<conns, crossed, boot>>

\* A connection goes.
Disconnects ==
  /\ \E n \in Name : Dropped(n)
  /\ \/ boot' = boot
     \/ boot.step = "drop" /\ boot' = [boot EXCEPT !.step = "close"]
  /\ UNCHANGED refreshes

\* None has a part in it.
Elsewhere ==
  /\ \/ boot' = boot
     \/ boot.step # "refresh" /\ boot'.step \in {"check", "dead"}
     \/ /\ boot.step = "check" /\ boot.at <= Len(Order) /\ conns[NameOf[Current]] = None
        /\ boot' = [boot EXCEPT !.step = "register"]
  /\ UNCHANGED <<refreshes, conns, crossed>>

\* There are no others.
LEMMA StepKinds ==
  ASSUME TypeOK, Underway, Starting, [Next]_vars
  PROVE  GoesOn \/ Ends \/ Begins \/ Register \/ Disconnects \/ Elsewhere
<1>. USE DEF catalog, servers, past
<1>0. \A r \in refreshes : r \in Record
  BY DEF TypeOK, Record
<1>m. ASSUME NEW r \in refreshes, NEW step \in {"resources", "store", "tools", "apply"},
             NEW list \in Nat \cup {None}, Move(r, step, list),
             step \in {"store", "apply"} => list \in DOMAIN Lists[r.conn],
             r.step = "find" => conns[NameOf[r.conn]] = r.conn,
             UNCHANGED <<conns, crossed, boot>>
      PROVE  GoesOn
  <2>1. \E u \in Record : /\ refreshes' = (refreshes \ {r}) \cup {u}
                          /\ u.id = r.id /\ u.conn = r.conn /\ u.step = step
    BY <1>m, MoveEffect
  <2>. QED  BY <1>m, <2>1 DEF GoesOn
<1>1. ASSUME NEW r \in refreshes, RefreshSession(r) PROVE GoesOn \/ Ends
  <2>0. r.step = "find" /\ UNCHANGED <<conns, crossed, boot>>
    BY <1>1 DEF RefreshSession
  <2>1. CASE conns[NameOf[r.conn]] = r.conn
    BY <1>1, <1>m, <2>0, <2>1 DEF RefreshSession
  <2>2. CASE conns[NameOf[r.conn]] # r.conn
    <3>1. r.id # 0
      BY <2>0 DEF Starting
    <3>. QED  BY <1>1, <2>0, <2>2, <3>1 DEF RefreshSession, Ends
  <2>. QED  BY <2>1, <2>2
<1>2. ASSUME NEW r \in refreshes, ListResources(r) \/ ListTools(r) PROVE GoesOn
  <2>1. version[r.conn] \in Nat \cup {None} /\ version[r.conn] \in DOMAIN Lists[r.conn]
    BY <1>0 DEF TypeOK, Record
  <2>. QED  BY <1>2, <1>m, <2>1 DEF ListResources, ListTools
<1>3. ASSUME NEW r \in refreshes, StoreResources(r) PROVE GoesOn
  BY <1>3, <1>m DEF StoreResources
<1>4. ASSUME NEW r \in refreshes, Apply(r) \/ ListFails(r) PROVE Ends
  <2>1. refreshes' = refreshes \ {r} /\ UNCHANGED <<conns, crossed>>
    BY <1>4 DEF Apply, ListFails
  <2>2. \E step \in {"next", "drop"} : boot' = IF r.id = 0 THEN [boot EXCEPT !.step = step] ELSE boot
    BY <1>4 DEF Apply, ListFails
  <2>. QED  BY <2>1, <2>2 DEF Ends
<1>5. CASE Refresh
  BY <1>1, <1>2, <1>3, <1>4, <1>5 DEF Refresh
<1>6. CASE ConnectTwice \/ ConnectFails
  <2>1. boot.step = "check" /\ boot.at <= Len(Order) /\ GiveUp /\ UNCHANGED <<refreshes, conns, crossed>>
    BY <1>6 DEF ConnectTwice, ConnectFails, Booting
  <2>. QED  BY <2>1, GiveUpEffect DEF Elsewhere
<1>7. CASE Connect
  BY <1>7 DEF Connect, Booting, Elsewhere
<1>8. CASE Connected \/ LogRaces
  <2>1. boot.step = "next" /\ boot'.step \in {"check", "dead"} /\ UNCHANGED <<refreshes, conns, crossed>>
    BY <1>8 DEF Connected, LogRaces, Booting, TypeOK
  <2>. QED  BY <2>1 DEF Elsewhere
<1>9. CASE Drop
  <2>1. NameOf[Current] \in Name
    BY <1>9, CurrentIsOne DEF Drop, Booting
  <2>. QED  BY <1>9, <2>1 DEF Drop, Booting, Disconnects
<1>10. CASE CloseSession
  <2>1. UNCHANGED <<refreshes, conns, crossed>>
    BY <1>10 DEF CloseSession
  <2>2. CASE boot.step = "close"
    BY <1>10, <2>1, <2>2, GiveUpEffect DEF CloseSession, Underway, Elsewhere
  <2>3. CASE boot.step # "close"
    BY <1>10, <2>1, <2>3 DEF CloseSession, Elsewhere
  <2>. QED  BY <2>2, <2>3
<1>11. ASSUME NEW n \in Name, Close(n) PROVE Disconnects
  BY <1>11 DEF Close, Disconnects
<1>12. CASE Sources
  BY <1>12 DEF Sources, Watch, Subscribe, SubscribeFails, SourceStops, StillSourced, Elsewhere
<1>13. CASE Notified
  BY <1>13 DEF Notified, ResourceUpdated, ReadBack, ReadBackFails, Emit, Handled, Elsewhere
<1>14. ASSUME NEW c \in Conn, ListChanged(c) PROVE Begins
  <2>. DEFINE u == [id |-> version[c], conn |-> c, step |-> "find", list |-> None]
  <2>1. version[c] \in Nat /\ version[c] # 0
    <3>1. Lists[c] \in Seq(Seq(Tool)) /\ version[c] \in DOMAIN Lists[c]
      BY HostConstants DEF TypeOK
    <3>. QED  BY <3>1
  <2>2. u \in Record /\ u.step = "find" /\ u.id # 0
    BY <2>1 DEF Record
  <2>3. refreshes' = refreshes \cup {u} /\ UNCHANGED <<conns, crossed, boot>>
    BY <1>14 DEF ListChanged
  <2>. HIDE DEF u
  <2>. QED  BY <2>2, <2>3 DEF Begins
<1>15. CASE (\E u \in Uri : Changed(u)) \/ Stop
  BY <1>15 DEF Changed, Stop, Elsewhere
<1>16. CASE UNCHANGED vars
  BY <1>16 DEF vars, Elsewhere
<1>. QED
  BY <1>5, <1>6, <1>7, <1>8, <1>9, <1>10, <1>11, <1>12, <1>13, <1>14, <1>15, <1>16
     DEF Next, Main, Outside

-----------------------------------------------------------------------------
(* The invariants *)

\* What registering a connection does.
LEMMA RegisterEffect ==
  ASSUME TypeOK, Underway, Register
  PROVE  /\ boot.step = "register" /\ boot.at <= Len(Order)
         /\ boot'.step = "refresh" /\ boot'.at = boot.at
         /\ Current \in Conn /\ NameOf[Current] \in Name
         /\ conns[NameOf[Current]] = None
         /\ \A n \in Name : conns'[n] = IF n = NameOf[Current] THEN Current ELSE conns[n]
         /\ \E u \in Record : /\ refreshes' = refreshes \cup {u}
                              /\ u.id = 0 /\ u.conn = Current /\ u.step = "resources"
         /\ UNCHANGED <<tools, byServer, crossed>>
<1>1. boot.step = "register" /\ boot.at <= Len(Order) /\ Current \in Conn /\ NameOf[Current] \in Name
  BY CurrentIsOne DEF Register, Booting
<1>2. boot'.step = "refresh" /\ boot'.at = boot.at
  BY DEF Register, TypeOK
<1>3. conns[NameOf[Current]] = None
  BY <1>1 DEF Underway
<1>4. \A n \in Name : conns'[n] = IF n = NameOf[Current] THEN Current ELSE conns[n]
  BY DEF Register, TypeOK
<1>5. \E u \in Record : /\ refreshes' = refreshes \cup {u}
                        /\ u.id = 0 /\ u.conn = Current /\ u.step = "resources"
  <2>. DEFINE u == [id |-> 0, conn |-> Current, step |-> "resources", list |-> None]
  <2>1. u \in Record /\ u.id = 0 /\ u.conn = Current /\ u.step = "resources"
    BY <1>1 DEF Record
  <2>2. refreshes' = refreshes \cup {u}
    BY DEF Register
  <2>. HIDE DEF u
  <2>. QED  BY <2>1, <2>2
<1>6. UNCHANGED <<tools, byServer, crossed>>
  BY DEF Register, past
<1>. QED  BY <1>1, <1>2, <1>3, <1>4, <1>5, <1>6

\* main keeps to its order.
LEMMA UnderwayStep == TypeOK /\ Underway /\ Starting /\ [Next]_vars => Underway'
<1>. SUFFICES ASSUME TypeOK, Underway, Starting, [Next]_vars PROVE Underway'
  OBVIOUS
<1>1. GoesOn \/ Ends \/ Begins \/ Register \/ Disconnects \/ Elsewhere
  BY StepKinds
<1>2. CASE GoesOn \/ Begins
  BY <1>2 DEF GoesOn, Begins, Underway, Current
<1>3. CASE Ends
  <2>1. CASE boot' = boot
    BY <1>3, <2>1 DEF Ends, Underway, Current
  <2>2. CASE boot' # boot
    <3>1. /\ \E r \in refreshes : r.id = 0
          /\ \E step \in {"next", "drop"} : boot' = [boot EXCEPT !.step = step]
      BY <1>3, <2>2 DEF Ends
    <3>2. boot.step = "refresh" /\ boot.at <= Len(Order)
      BY <3>1 DEF Starting, Underway
    <3>3. boot'.at = boot.at /\ boot'.step # "register"
      BY <3>1 DEF TypeOK
    <3>. QED  BY <3>2, <3>3 DEF Underway
  <2>. QED  BY <2>1, <2>2
<1>4. CASE Register
  BY <1>4, RegisterEffect DEF Underway
<1>5. CASE Disconnects
  <2>1. CASE boot' = boot
    <3>1. \A n \in Name : conns[n] = None => conns'[n] = None
      BY <1>5, DroppedEffect DEF Disconnects
    <3>2. boot.step = "register" => NameOf[Current] \in Name
      BY CurrentIsOne DEF Underway
    <3>. QED  BY <2>1, <3>1, <3>2 DEF Underway, Current
  <2>2. CASE boot' # boot
    <3>1. boot.step = "drop" /\ boot'.step = "close" /\ boot'.at = boot.at
      BY <1>5, <2>2 DEF Disconnects, TypeOK
    <3>. QED  BY <3>1 DEF Underway
  <2>. QED  BY <2>1, <2>2
<1>6. CASE Elsewhere
  <2>1. CASE boot' = boot \/ boot'.step \in {"check", "dead"}
    BY <1>6, <2>1 DEF Elsewhere, Underway, Current
  <2>2. CASE ~(boot' = boot \/ boot'.step \in {"check", "dead"})
    <3>1. /\ boot.at <= Len(Order) /\ conns[NameOf[Current]] = None
          /\ boot'.at = boot.at /\ conns' = conns
      BY <1>6, <2>2 DEF Elsewhere, TypeOK
    <3>. QED  BY <3>1 DEF Underway, Current
  <2>. QED  BY <2>1, <2>2
<1>. QED  BY <1>1, <1>2, <1>3, <1>4, <1>5, <1>6

\* main waits for its own refresh.
LEMMA StartingStep == TypeOK /\ Underway /\ Starting /\ [Next]_vars => Starting'
<1>. SUFFICES ASSUME TypeOK, Underway, Starting, [Next]_vars PROVE Starting'
  OBVIOUS
<1>1. GoesOn \/ Ends \/ Begins \/ Register \/ Disconnects \/ Elsewhere
  BY StepKinds
<1>0. ASSUME boot' = boot, \A q \in refreshes' : q.id = 0 => q \in refreshes
      PROVE  Starting'
  BY <1>0 DEF Starting, Current
<1>n. ASSUME \A q \in refreshes' : q.id # 0 PROVE Starting'
  BY <1>n DEF Starting
<1>2. CASE GoesOn
  <2>1. PICK r \in refreshes, u \in Record :
          /\ refreshes' = (refreshes \ {r}) \cup {u}
          /\ u.id = r.id /\ u.conn = r.conn /\ u.step # "find"
    BY <1>2 DEF GoesOn
  <2>2. boot' = boot
    BY <1>2 DEF GoesOn
  <2>3. CASE r.id # 0
    BY <1>0, <2>1, <2>2, <2>3
  <2>4. CASE r.id = 0
    <3>1. boot.step = "refresh" /\ u.conn = Current /\ \A q \in refreshes : q.id = 0 => q = r
      BY <2>1, <2>4 DEF Starting
    <3>. QED  BY <2>1, <2>2, <3>1 DEF Starting, Current
  <2>. QED  BY <2>3, <2>4
<1>3. CASE Ends
  <2>1. PICK r \in refreshes :
          /\ refreshes' = refreshes \ {r}
          /\ r.id # 0 => boot' = boot
    BY <1>3 DEF Ends
  <2>2. CASE r.id # 0
    BY <1>0, <2>1, <2>2
  <2>3. CASE r.id = 0
    <3>1. \A q \in refreshes : q.id = 0 => q = r
      BY <2>3 DEF Starting
    <3>. QED  BY <1>n, <2>1, <3>1
  <2>. QED  BY <2>2, <2>3
<1>4. CASE Begins
  BY <1>0, <1>4 DEF Begins
<1>5. CASE Register
  <2>1. PICK u \in Record : /\ refreshes' = refreshes \cup {u}
                            /\ u.id = 0 /\ u.conn = Current /\ u.step = "resources"
    BY <1>5, RegisterEffect
  <2>2. boot.step = "register" /\ boot'.step = "refresh" /\ boot'.at = boot.at
    BY <1>5, RegisterEffect
  <2>3. \A q \in refreshes : q.id # 0
    BY <2>2 DEF Starting
  <2>4. Current' = Current
    BY <2>2 DEF Current
  <2>. QED  BY <2>1, <2>2, <2>3, <2>4 DEF Starting
<1>6. CASE Disconnects
  <2>1. refreshes' = refreshes /\ (boot' = boot \/ boot.step = "drop")
    BY <1>6 DEF Disconnects
  <2>2. boot.step = "drop" => \A q \in refreshes : q.id # 0
    BY DEF Starting
  <2>. QED  BY <1>0, <1>n, <2>1, <2>2
<1>7. CASE Elsewhere
  <2>1. refreshes' = refreshes /\ (boot' = boot \/ boot.step # "refresh")
    BY <1>7 DEF Elsewhere
  <2>2. boot.step # "refresh" => \A q \in refreshes : q.id # 0
    BY DEF Starting
  <2>. QED  BY <1>0, <1>n, <2>1, <2>2
<1>. QED  BY <1>1, <1>2, <1>3, <1>4, <1>5, <1>6, <1>7

\* A refresh under way stays one of the connection that is registered.
LEMMA BelongsStep == TypeOK /\ Underway /\ Starting /\ Belongs /\ [Next]_vars => Belongs'
<1>. SUFFICES ASSUME TypeOK, Underway, Starting, Belongs, [Next]_vars PROVE Belongs'
  OBVIOUS
<1>1. GoesOn \/ Ends \/ Begins \/ Register \/ Disconnects \/ Elsewhere
  BY StepKinds
<1>r. \A r \in refreshes : r.conn \in Conn /\ NameOf[r.conn] \in Name
  BY Names DEF TypeOK
<1>2. CASE GoesOn
  <2>1. PICK r \in refreshes, u \in Record :
          /\ refreshes' = (refreshes \ {r}) \cup {u}
          /\ u.id = r.id /\ u.conn = r.conn /\ u.step # "find"
          /\ r.step = "find" => conns[NameOf[r.conn]] = r.conn
    BY <1>2 DEF GoesOn
  <2>2. UNCHANGED <<conns, crossed>>
    BY <1>2 DEF GoesOn
  <2>3. NameOf[u.conn] \notin crossed => conns[NameOf[u.conn]] = u.conn
    BY <2>1 DEF Belongs
  <2>. QED  BY <2>1, <2>2, <2>3 DEF Belongs
<1>3. CASE Ends \/ Elsewhere
  BY <1>3 DEF Ends, Elsewhere, Belongs
<1>4. CASE Begins
  BY <1>4 DEF Begins, Belongs
<1>5. CASE Register
  <2>1. PICK u \in Record : /\ refreshes' = refreshes \cup {u}
                            /\ u.id = 0 /\ u.conn = Current /\ u.step = "resources"
    BY <1>5, RegisterEffect
  <2>2. /\ conns[NameOf[Current]] = None /\ crossed' = crossed /\ NameOf[Current] \in Name
        /\ \A n \in Name : conns'[n] = IF n = NameOf[Current] THEN Current ELSE conns[n]
    BY <1>5, RegisterEffect
  <2>3. \A r \in refreshes : r.step # "find" /\ NameOf[r.conn] \notin crossed' =>
          conns'[NameOf[r.conn]] = r.conn
    BY <1>r, <2>2, HostConstants DEF Belongs
  <2>. QED  BY <2>1, <2>2, <2>3 DEF Belongs
<1>6. CASE Disconnects
  <2>1. PICK n \in Name : Dropped(n)
    BY <1>6 DEF Disconnects
  <2>2. /\ \A m \in Name : conns'[m] = IF m = n THEN None ELSE conns[m]
        /\ crossed \subseteq crossed'
        /\ \A r \in refreshes : NameOf[r.conn] = n /\ r.step # "find" => n \in crossed'
    BY <2>1, DroppedEffect
  <2>3. refreshes' = refreshes
    BY <1>6 DEF Disconnects
  <2>. QED  BY <1>r, <2>2, <2>3 DEF Belongs
<1>. QED  BY <1>1, <1>2, <1>3, <1>4, <1>5, <1>6

-----------------------------------------------------------------------------
(* The catalog *)

\* Only four kinds of steps change it.
LEMMA CatalogSteps ==
  ASSUME TypeOK, Underway, [Next]_vars
  PROVE  \/ \E r \in refreshes : Apply(r)
         \/ Register
         \/ \E n \in Name : Dropped(n)
         \/ UNCHANGED <<conns, tools, byServer, crossed>>
<1>. USE DEF catalog, past
<1>1. CASE Refresh
  BY <1>1 DEF Refresh, RefreshSession, ListResources, StoreResources, ListTools, ListFails
<1>2. CASE Main
  <2>1. Drop => \E n \in Name : Dropped(n)
    BY CurrentIsOne DEF Drop, Booting
  <2>2. \A n \in Name : Close(n) => Dropped(n)
    BY DEF Close
  <2>3. ConnectTwice \/ Connect \/ ConnectFails \/ Connected \/ LogRaces \/ CloseSession =>
          UNCHANGED <<conns, tools, byServer, crossed>>
    BY DEF ConnectTwice, Connect, ConnectFails, Connected, LogRaces, CloseSession
  <2>. QED  BY <1>2, <2>1, <2>2, <2>3 DEF Main
<1>3. CASE Sources
  BY <1>3 DEF Sources, Watch, Subscribe, SubscribeFails, SourceStops, StillSourced
<1>4. CASE Notified
  BY <1>4 DEF Notified, ResourceUpdated, ReadBack, ReadBackFails, Emit, Handled
<1>5. CASE Outside
  BY <1>5 DEF Outside, ListChanged, Changed, Stop
<1>6. CASE UNCHANGED vars
  BY <1>6 DEF vars
<1>. QED  BY <1>1, <1>2, <1>3, <1>4, <1>5, <1>6 DEF Next

\* Each of them keeps its two sides alike, and its tools with their servers.
LEMMA CatalogStep ==
  TypeOK /\ Underway /\ Belongs /\ CatalogConsistent /\ [Next]_vars => CatalogConsistent'
<1>. SUFFICES ASSUME TypeOK, Underway, Belongs, CatalogConsistent, [Next]_vars
              PROVE  CatalogConsistent'
  OBVIOUS
<1>t. \A e \in DOMAIN tools : tools[e].conn \in Conn /\ NameOf[tools[e].conn] \in Name
  BY Names DEF TypeOK
<1>c. /\ \A n \in Name : byServer[n] \subseteq DOMAIN tools
      /\ \A e \in DOMAIN tools, n \in Name : e \in byServer[n] <=> NameOf[tools[e].conn] = n
      /\ \A e \in DOMAIN tools : NameOf[tools[e].conn] \notin crossed =>
           tools[e].conn = conns[NameOf[tools[e].conn]]
  <2>1. \A n \in Name : byServer[n] = Of(n)
    BY DEF CatalogConsistent
  <2>2. \A n \in Name : \A e \in Of(n) : n \notin crossed => tools[e].conn = conns[n]
    BY DEF CatalogConsistent
  <2>. QED  BY <1>t, <2>1, <2>2 DEF Of
<1>0. ASSUME \A n \in Name : byServer'[n] \subseteq DOMAIN tools',
             \A e \in DOMAIN tools', n \in Name : e \in byServer'[n] <=> NameOf[tools'[e].conn] = n,
             \A e \in DOMAIN tools' : NameOf[tools'[e].conn] \notin crossed' =>
               tools'[e].conn = conns'[NameOf[tools'[e].conn]]
      PROVE  CatalogConsistent'
  <2>1. \A n \in Name : byServer'[n] = {e \in DOMAIN tools' : NameOf[tools'[e].conn] = n}
    BY <1>0
  <2>. QED  BY <1>0, <2>1 DEF CatalogConsistent, Of
<1>1. ASSUME NEW r \in refreshes, Apply(r) PROVE CatalogConsistent'
  <2>. DEFINE others == DOMAIN tools \ byServer[NameOf[r.conn]]
  <2>1. /\ r.conn \in Conn /\ NameOf[r.conn] \in Name
        /\ others \subseteq DOMAIN tools'
        /\ \A e \in others : tools'[e] = tools[e]
        /\ \A e \in DOMAIN tools' \ others : tools'[e].conn = r.conn
        /\ \A n \in Name : byServer'[n] =
             IF n = NameOf[r.conn] THEN DOMAIN tools' \ (DOMAIN tools \ byServer[n])
             ELSE byServer[n]
    BY <1>1, ApplyEffect
  <2>2. conns' = conns /\ crossed' = crossed /\ r.step = "apply"
    BY <1>1 DEF Apply
  <2>3. NameOf[r.conn] \notin crossed => conns[NameOf[r.conn]] = r.conn
    BY <2>2 DEF Belongs
  <2>4. \A e \in others : NameOf[tools[e].conn] # NameOf[r.conn]
    BY <1>c, <2>1
  <2>5. \A n \in Name : byServer'[n] \subseteq DOMAIN tools'
    <3>1. \A n \in Name : n # NameOf[r.conn] => byServer[n] \subseteq others
      BY <1>c, <2>1
    <3>. QED  BY <2>1, <3>1
  <2>6. ASSUME NEW e \in DOMAIN tools', NEW n \in Name
        PROVE  e \in byServer'[n] <=> NameOf[tools'[e].conn] = n
    <3>1. CASE e \in others
      <4>1. e \in DOMAIN tools /\ tools'[e].conn = tools[e].conn
        BY <2>1, <3>1
      <4>2. e \in byServer[n] <=> NameOf[tools[e].conn] = n
        BY <1>c, <4>1
      <4>3. CASE n = NameOf[r.conn]
        BY <2>1, <2>4, <3>1, <4>1, <4>3
      <4>4. CASE n # NameOf[r.conn]
        BY <2>1, <4>1, <4>2, <4>4
      <4>. QED  BY <4>3, <4>4
    <3>2. CASE e \notin others
      <4>1. tools'[e].conn = r.conn
        BY <2>1, <3>2
      <4>2. n # NameOf[r.conn] => e \notin byServer[n]
        BY <1>c, <2>1, <3>2
      <4>. QED  BY <2>1, <3>2, <4>1, <4>2
    <3>. QED  BY <3>1, <3>2
  <2>7. \A e \in DOMAIN tools' : NameOf[tools'[e].conn] \notin crossed' =>
               tools'[e].conn = conns'[NameOf[tools'[e].conn]]
    BY <1>c, <2>1, <2>2, <2>3
  <2>. QED  BY <1>0, <2>5, <2>6, <2>7
<1>2. CASE Register
  <2>1. /\ conns[NameOf[Current]] = None /\ UNCHANGED <<tools, byServer, crossed>>
        /\ \A n \in Name : conns'[n] = IF n = NameOf[Current] THEN Current ELSE conns[n]
    BY <1>2, RegisterEffect
  <2>2. ASSUME NEW e \in DOMAIN tools', NameOf[tools'[e].conn] \notin crossed'
        PROVE  tools'[e].conn = conns'[NameOf[tools'[e].conn]]
    <3>. DEFINE n == NameOf[tools[e].conn]
    <3>1. tools[e].conn \in Conn /\ n \in Name /\ tools[e].conn = conns[n]
      BY <1>c, <1>t, <2>1, <2>2
    <3>2. None \notin Conn
      BY HostConstants
    <3>3. n # NameOf[Current]
      BY <2>1, <3>1, <3>2
    <3>. QED  BY <2>1, <3>1, <3>3
  <2>. QED  BY <1>0, <1>c, <2>1, <2>2
<1>3. ASSUME NEW name \in Name, Dropped(name) PROVE CatalogConsistent'
  <2>1. /\ \A n \in Name : conns'[n] = IF n = name THEN None ELSE conns[n]
        /\ DOMAIN tools' = DOMAIN tools \ byServer[name]
        /\ \A e \in DOMAIN tools' : tools'[e] = tools[e]
        /\ \A n \in Name : byServer'[n] = IF n = name THEN {} ELSE byServer[n]
        /\ crossed \subseteq crossed'
    BY <1>3, DroppedEffect
  <2>2. \A e \in DOMAIN tools' : NameOf[tools'[e].conn] # name
    BY <1>c, <2>1
  <2>3. \A n \in Name : byServer'[n] \subseteq DOMAIN tools'
    BY <1>c, <2>1
  <2>4. \A e \in DOMAIN tools', n \in Name : e \in byServer'[n] <=> NameOf[tools'[e].conn] = n
    BY <1>c, <2>1, <2>2
  <2>5. \A e \in DOMAIN tools' : NameOf[tools'[e].conn] \notin crossed' =>
               tools'[e].conn = conns'[NameOf[tools'[e].conn]]
    BY <1>c, <1>t, <2>1, <2>2
  <2>. QED  BY <1>0, <2>3, <2>4, <2>5
<1>4. CASE UNCHANGED <<conns, tools, byServer, crossed>>
  BY <1>0, <1>c, <1>4
<1>. QED  BY <1>1, <1>2, <1>3, <1>4, CatalogSteps

\* At first there is nothing.
LEMMA InitHolds == Init => TypeOK /\ Underway /\ Starting /\ Belongs /\ CatalogConsistent
<1>. SUFFICES ASSUME Init PROVE TypeOK /\ Underway /\ Starting /\ Belongs /\ CatalogConsistent
  OBVIOUS
<1>1. Len(Order) \in Nat /\ MaxFaults \in Nat
  BY HostConstants
<1>2. \A c \in Conn : 1 \in DOMAIN Lists[c]
  <2>. SUFFICES ASSUME NEW c \in Conn PROVE 1 \in DOMAIN Lists[c]
    OBVIOUS
  <2>1. Lists[c] \in Seq(Seq(Tool)) /\ Lists[c] # <<>>
    BY HostConstants
  <2>. QED  BY <2>1
<1>3. /\ conns = [n \in Name |-> None] /\ DOMAIN tools = {} /\ tools = [e \in {} |-> None]
      /\ byServer = [n \in Name |-> {}] /\ refreshes = {}
      /\ boot = [at |-> 1, step |-> "check"]
  BY DEF Init
<1>4. TypeOK
  <2>1. /\ conns \in [Name -> Conn \cup {None}] /\ \A n \in Name : conns[n] = None
        /\ tools \in [DOMAIN tools -> [conn : Conn, tool : Tool]] /\ DOMAIN tools \subseteq Range(Exposed)
        /\ byServer \in [Name -> SUBSET Range(Exposed)]
    BY <1>3
  <2>2. boot \in [at : 1..(Len(Order) + 1),
                  step : {"check", "register", "refresh", "next", "drop", "close", "dead"}]
    BY <1>1, <1>3
  <2>3. /\ version = [c \in Conn |-> 1] /\ resources = [c \in Conn |-> 0]
        /\ rev = [u \in Uri |-> 1] /\ skipped = [c \in Conn |-> {}]
        /\ source = [c \in Conn |-> [step |-> "none", todo |-> {}]]
        /\ faults = 0 /\ closing = None /\ stopping = FALSE
        /\ live = {} /\ watchers = {} /\ subscribed = {} /\ updates = {} /\ missed = {}
        /\ overlapped = {} /\ crossed = {} /\ failed = {}
    BY DEF Init
  <2>4. source \in [Conn -> [step : {"none", "waiting", "subscribing", "on", "ended"}, todo : SUBSET Uri]]
    BY <2>3
  <2>5. /\ resources \in [Conn -> Nat] /\ version \in [Conn -> Nat] /\ rev \in [Uri -> Nat]
        /\ skipped \in [Conn -> SUBSET Range(Exposed)] /\ faults \in 0..MaxFaults
        /\ \A c \in Conn : version[c] \in DOMAIN Lists[c]
    BY <1>1, <1>2, <2>3
  <2>. QED  BY <1>3, <2>1, <2>2, <2>3, <2>4, <2>5 DEF TypeOK
<1>5. Underway /\ Starting /\ Belongs
  BY <1>3 DEF Underway, Starting, Belongs
<1>6. CatalogConsistent
  BY <1>3 DEF CatalogConsistent, Of
<1>. QED  BY <1>4, <1>5, <1>6

\* The state of the connections, the catalog, the refreshes and the sources has
\* the declared shape (Host and ResourceSource).
THEOREM TypeCorrect == Spec => []TypeOK
<1>1. Init => TypeOK /\ Underway /\ Starting
  BY InitHolds
<1>2. TypeOK /\ Underway /\ Starting /\ [Next]_vars => (TypeOK /\ Underway /\ Starting)'
  BY TypeStep, UnderwayStep, StartingStep
<1>. QED  BY <1>1, <1>2, PTL DEF Spec

\* Host.tools and Host.byServer agree and name only tools of servers that are
\* connected, but for a server disconnected while it was refreshed, whatever
\* names clash and however many refreshes overlap (refresh, Disconnect).
THEOREM CatalogIsConsistent == Spec => []CatalogConsistent
<1>1. Init => TypeOK /\ Underway /\ Starting /\ Belongs /\ CatalogConsistent
  BY InitHolds
<1>2. TypeOK /\ Underway /\ Starting /\ Belongs /\ CatalogConsistent /\ [Next]_vars
        => (TypeOK /\ Underway /\ Starting /\ Belongs /\ CatalogConsistent)'
  BY TypeStep, UnderwayStep, StartingStep, BelongsStep, CatalogStep
<1>. QED  BY <1>1, <1>2, PTL DEF Spec
===============================================================================
