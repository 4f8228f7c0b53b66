------------------------------- MODULE McpHost -------------------------------
(***************************************************************************)
(* mcphost: the connections to the servers, the catalog of their tools,    *)
(* and the source that turns resources/updated notifications into tasks.   *)
(*                                                                         *)
(* main connects the servers one after the other.  A server may say at any *)
(* time that its lists have changed; each such notification starts a       *)
(* goroutine that lists resources and tools with nothing locked and puts   *)
(* what it got into the catalog under the lock.  Any call may fail, up to  *)
(* a bound; that a server is gone for good is not modelled.                *)
(***************************************************************************)
EXTENDS Integers, Sequences, FiniteSets, SequencesExt

CONSTANTS
  Conn,      \* connections that main makes
  Order,     \* ... in this order
  NameOf,    \* the names of their servers; two may be given the same
  BuiltIn,   \* those without which main gives up
  Tool,      \* what servers call their tools
  Exposed,   \* <<server name, tool>> -> name in the catalog
  Lists,     \* bound: the lists of tools a server has, one after the other
  Uri,       \* resources that are subscribed to ...
  ServedBy,  \* ... and their connections
  Values,    \* bound: the contents a resource has, one after the other
  MaxFaults, \* bound: calls that fail
  None

ASSUME HostConstants ==
  /\ BuiltIn \subseteq Conn /\ None \notin Conn
  /\ Order \in Seq(Conn) /\ Range(Order) = Conn /\ Len(Order) = Cardinality(Conn)
  /\ DOMAIN NameOf = Conn /\ DOMAIN Exposed = Range(NameOf) \X Tool
  /\ Lists \in [Conn -> Seq(Seq(Tool)) \ {<<>>}]
  /\ ServedBy \in [Uri -> Conn \ BuiltIn] /\ DOMAIN Values = Uri
  /\ MaxFaults \in Nat

Name == Range(NameOf)

VARIABLES
  conns,      \* server name -> connection, or None
  tools,      \* catalog name -> connection and tool
  byServer,   \* server name -> catalog names
  resources,  \* the list of resources a connection was last stored with
  boot,       \* where main is: [at, step]
  refreshes,  \* goroutines in refresh; main's own has the number 0
  live,       \* sessions that are open
  version,    \* which of its lists a server has
  closing,    \* the connection whose session Disconnect is about to close
  stopping,   \* the process was told to stop
  source,     \* what the resource source of a connection does: [step, todo]
  watchers,   \* server names whose updates are routed to their source
  subscribed, \* resources whose server has the subscription
  rev,        \* which of its contents a resource has
  updates,    \* notifications that wait, and goroutines that read back
  seen,       \* what the ingest engine was given: [uri, value]
  faults,
  \* history
  skipped,    \* a connection's names that somebody else had when it was stored
  overlapped, \* connections of which two goroutines held a list at once
  crossed,    \* server names disconnected while a refresh of theirs ran
  failed,     \* connections of which a list could not be had
  missed      \* resources of which an update may have been missed

catalog == <<conns, tools, byServer, resources>>
servers == <<live, version, closing, stopping>>
subscriptions == <<source, watchers, subscribed, rev, updates, seen, missed>>
past == <<skipped, overlapped, crossed, failed>>
vars == <<catalog, boot, refreshes, servers, subscriptions, faults, past>>

NoFault == UNCHANGED faults
Fault   == faults < MaxFaults /\ faults' = faults + 1
UrisOf(c) == {u \in Uri : ServedBy[u] = c}

-----------------------------------------------------------------------------
(* refresh *)

Move(r, step, list) ==
  refreshes' = (refreshes \ {r}) \cup {[r EXCEPT !.step = step, !.list = list]}

\* A list is held from when the server gave it until it is stored.
Holding(r) == r.step \in {"store", "apply"}
Lagging(r) ==
  overlapped' = overlapped \cup
    {c \in {r.conn} : \E q \in refreshes \ {r} : q.conn = c /\ Holding(q)}

\* The server changes its lists and says so.  The notification is handled by a
\* goroutine of its own, since the session's read loop must not wait.
ListChanged(c) ==
  /\ c \in live /\ version[c] < Len(Lists[c])
  /\ version' = [version EXCEPT ![c] = @ + 1]
  /\ refreshes' = refreshes \cup {[id |-> version[c], conn |-> c, step |-> "find", list |-> None]}
  /\ UNCHANGED <<catalog, boot, live, closing, stopping, subscriptions, faults, past>>

\* Mutant: a refresh that runs already will do.
RefreshSessionOnce(r) ==
  /\ r.step = "find"
  /\ IF conns[NameOf[r.conn]] = r.conn /\ \A q \in refreshes \ {r} : q.conn # r.conn
     THEN Move(r, "resources", None)
     ELSE refreshes' = refreshes \ {r}
  /\ UNCHANGED <<catalog, boot, servers, subscriptions, faults, past>>

\* refreshSession: a session that is not, or no longer, registered is ignored.
RefreshSession(r) ==
  /\ r.step = "find"
  /\ IF conns[NameOf[r.conn]] = r.conn THEN Move(r, "resources", None)
     ELSE refreshes' = refreshes \ {r}
  /\ UNCHANGED <<catalog, boot, servers, subscriptions, faults, past>>

\* refreshResources lists first and locks then ...
ListResources(r) ==
  /\ r.step = "resources" /\ r.conn \in live
  /\ Move(r, "store", version[r.conn]) /\ Lagging(r)
  /\ UNCHANGED <<catalog, boot, servers, subscriptions, faults, skipped, crossed, failed>>

StoreResources(r) ==
  /\ r.step = "store"
  /\ resources' = [resources EXCEPT ![r.conn] = r.list]
  /\ Move(r, "tools", None)
  /\ UNCHANGED <<conns, tools, byServer, boot, servers, subscriptions, faults, past>>

\* ... and so does refresh.
ListTools(r) ==
  /\ r.step = "tools" /\ r.conn \in live
  /\ Move(r, "apply", version[r.conn]) /\ Lagging(r)
  /\ UNCHANGED <<catalog, boot, servers, subscriptions, faults, skipped, crossed, failed>>

\* A list cannot be had: the rest of the refresh is left out.
ListFails(r) ==
  /\ r.step \in {"resources", "tools"}
  /\ IF r.conn \in live THEN Fault ELSE NoFault
  /\ refreshes' = refreshes \ {r}
  /\ boot' = IF r.id = 0 THEN [boot EXCEPT !.step = "drop"] ELSE boot
  /\ failed' = failed \cup {r.conn}
  /\ UNCHANGED <<catalog, servers, subscriptions, skipped, overlapped, crossed>>

Without(names) == [e \in DOMAIN tools \ names |-> tools[e]]

Named(c, list) == {Exposed[<<NameOf[c], list[i]>>] : i \in DOMAIN list}

\* The tools of a list go in in their order; a name that is taken is skipped, so
\* that the first tool of a name has it.
Filled(others, c, list) ==
  LET name(i)  == Exposed[<<NameOf[c], list[i]>>]
      first(e) == CHOOSE i \in DOMAIN list :
                    name(i) = e /\ \A j \in DOMAIN list : name(j) = e => i <= j
  IN  [e \in DOMAIN others \cup Named(c, list) |->
         IF e \in DOMAIN others THEN others[e] ELSE [conn |-> c, tool |-> list[first(e)]]]

\* Mutant: what the server had stays.
ClearedNothing(c) == tools

\* What a server had is taken out before what it has now is put in.
Cleared(c) == Without(byServer[NameOf[c]])

Apply(r) ==
  LET c      == r.conn
      list   == Lists[c][r.list]
      others == Cleared(c)
  IN
  /\ r.step = "apply"
  /\ tools' = Filled(others, c, list)
  /\ byServer' = [byServer EXCEPT ![NameOf[c]] = DOMAIN tools' \ DOMAIN others]
  /\ skipped' = [skipped EXCEPT ![c] = Named(c, list) \cap DOMAIN others]
  /\ refreshes' = refreshes \ {r}
  /\ boot' = IF r.id = 0 THEN [boot EXCEPT !.step = "next"] ELSE boot
  /\ UNCHANGED <<conns, resources, servers, subscriptions, faults, overlapped, crossed, failed>>

-----------------------------------------------------------------------------
(* connect and Disconnect *)

Waiting == [step |-> "waiting", todo |-> {}]

Current == Order[boot.at]
Booting(step) == boot.at <= Len(Order) /\ boot.step = step
Booted  == boot.at > Len(Order) /\ boot.step = "check"

\* A built-in server that cannot be connected ends the process, an external
\* one is left out.
GiveUp == boot' = IF Current \in BuiltIn THEN [boot EXCEPT !.step = "dead"]
                  ELSE [at |-> boot.at + 1, step |-> "check"]

\* A server of that name is there already.
ConnectTwice ==
  /\ Booting("check") /\ conns[NameOf[Current]] # None
  /\ GiveUp
  /\ UNCHANGED <<catalog, refreshes, servers, subscriptions, faults, past>>

\* The session is open before it is registered ...
Connect ==
  /\ Booting("check") /\ conns[NameOf[Current]] = None
  /\ live' = live \cup {Current}
  /\ boot' = [boot EXCEPT !.step = "register"]
  /\ UNCHANGED <<catalog, refreshes, version, closing, stopping, subscriptions, faults, past>>

ConnectFails ==
  /\ Booting("check") /\ conns[NameOf[Current]] = None
  /\ Fault /\ GiveUp
  /\ UNCHANGED <<catalog, refreshes, servers, subscriptions, past>>

\* ... and registered before its lists are there.
Register ==
  /\ Booting("register")
  /\ conns' = [conns EXCEPT ![NameOf[Current]] = Current]
  /\ boot' = [boot EXCEPT !.step = "refresh"]
  /\ refreshes' = refreshes \cup {[id |-> 0, conn |-> Current, step |-> "resources", list |-> None]}
  /\ UNCHANGED <<tools, byServer, resources, servers, subscriptions, faults, past>>

\* The first refresh is done: next, with a source if there are subscriptions.
Connected ==
  /\ Booting("next")
  /\ boot' = [at |-> boot.at + 1, step |-> "check"]
  /\ source' = IF UrisOf(Current) # {} THEN [source EXCEPT ![Current] = Waiting] ELSE source
  /\ UNCHANGED <<catalog, refreshes, servers, watchers, subscribed, rev, updates, seen, missed, faults, past>>

\* The log line of connect reads byServer without the lock: the runtime may
\* find it being written by a refresh at that moment, and ends the process.
LogRaces ==
  /\ Booting("next") /\ \E r \in refreshes : r.step = "apply"
  /\ boot' = [boot EXCEPT !.step = "dead"]
  /\ UNCHANGED <<catalog, refreshes, servers, subscriptions, faults, past>>

\* What Disconnect does under the lock.
Dropped(name) ==
  /\ conns' = [conns EXCEPT ![name] = None]
  /\ tools' = Without(byServer[name])
  /\ byServer' = [byServer EXCEPT ![name] = {}]
  /\ crossed' = crossed \cup
       {n \in {name} : \E r \in refreshes : NameOf[r.conn] = n /\ r.step # "find"}

\* The first refresh has failed.
Drop ==
  /\ Booting("drop")
  /\ Dropped(NameOf[Current])
  /\ boot' = [boot EXCEPT !.step = "close"] /\ closing' = Current
  /\ UNCHANGED <<resources, refreshes, live, version, stopping, subscriptions, faults, skipped, overlapped, failed>>

\* The session is closed when the lock is free again.
CloseSession ==
  /\ closing # None
  /\ live' = live \ {closing} /\ closing' = None
  /\ IF boot.step = "close" THEN GiveUp ELSE UNCHANGED boot
  /\ UNCHANGED <<catalog, refreshes, version, stopping, subscriptions, faults, past>>

-----------------------------------------------------------------------------
(* ResourceSource *)

Sourced(c, step, todo) == source' = [source EXCEPT ![c] = [step |-> step, todo |-> todo]]
StillSourced == UNCHANGED <<catalog, boot, refreshes, servers, rev, updates, seen, past>>

\* watch: a server's updates go to its source, or nowhere.
Routed(c)   == watchers' = watchers \cup {NameOf[c]}
Unrouted(c) == watchers' = watchers \ {NameOf[c]}

\* Run routes the updates to itself before it subscribes.
Watch(c) ==
  /\ Booted /\ ~stopping /\ source[c].step = "waiting"
  /\ Sourced(c, "subscribing", UrisOf(c))
  /\ Routed(c)
  /\ StillSourced /\ UNCHANGED <<subscribed, missed>> /\ NoFault

Subscribe(c, u) ==
  /\ source[c].step = "subscribing" /\ u \in source[c].todo /\ ~stopping
  /\ subscribed' = subscribed \cup {u}
  /\ Sourced(c, IF source[c].todo = {u} THEN "on" ELSE "subscribing", source[c].todo \ {u})
  /\ StillSourced /\ UNCHANGED <<watchers, missed>> /\ NoFault

\* Run ends, the routing with it, and the engine starts it again later.  What
\* is subscribed by then stays so at the server.
SubscribeFails(c) ==
  /\ source[c].step = "subscribing" /\ ~stopping
  /\ Sourced(c, "waiting", {})
  /\ Unrouted(c)
  /\ missed' = missed \cup UrisOf(c)
  /\ StillSourced /\ UNCHANGED subscribed /\ Fault

\* The process stops; a source that is on withdraws its subscriptions.
SourceStops(c) ==
  /\ stopping /\ source[c].step \in {"waiting", "subscribing", "on"}
  /\ Sourced(c, "ended", {})
  /\ Unrouted(c)
  /\ subscribed' = IF source[c].step = "on" THEN subscribed \ UrisOf(c) ELSE subscribed
  /\ StillSourced /\ UNCHANGED missed /\ NoFault

\* Somebody changes the resource; who has subscribed to it is told.
Changed(u) ==
  /\ ServedBy[u] \in live /\ rev[u] < Len(Values[u])
  /\ rev' = [rev EXCEPT ![u] = @ + 1]
  /\ updates' = updates \cup {[uri |-> x, id |-> rev'[x], step |-> "sent", got |-> 0] : x \in {u} \cap subscribed}
  /\ UNCHANGED <<catalog, boot, refreshes, servers, source, watchers, subscribed, seen, missed, faults, past>>

Handled(n, now) ==
  /\ updates' = (updates \ {n}) \cup now
  /\ UNCHANGED <<catalog, boot, refreshes, servers, source, watchers, subscribed, rev, past>>

\* resourceUpdated: a goroutine that reads the resource, if there is a route.
ResourceUpdated(n) ==
  /\ n.step = "sent"
  /\ IF conns[NameOf[ServedBy[n.uri]]] = ServedBy[n.uri] /\ NameOf[ServedBy[n.uri]] \in watchers
     THEN Handled(n, {[n EXCEPT !.step = "read"]})
     ELSE Handled(n, {})
  /\ UNCHANGED <<seen, missed, faults>>

ReadBack(n) ==
  /\ n.step = "read" /\ ~stopping
  /\ Handled(n, {[n EXCEPT !.step = "emit", !.got = rev[n.uri]]})
  /\ UNCHANGED <<seen, missed, faults>>

\* The read fails, as every read does once the process is stopping.
ReadBackFails(n) ==
  /\ n.step = "read"
  /\ IF stopping THEN NoFault ELSE Fault
  /\ Handled(n, {})
  /\ missed' = missed \cup {n.uri}
  /\ UNCHANGED seen

\* Mutant: an event is told from others by its resource alone.
EventOfResource(n) == [uri |-> n.uri, value |-> None]

\* The identity of an event is the resource and its contents.
EventOf(n) == [uri |-> n.uri, value |-> Values[n.uri][n.got]]

Emit(n) ==
  /\ n.step = "emit"
  /\ Handled(n, {})
  /\ seen' = seen \cup {EventOf(n)}
  /\ UNCHANGED <<missed, faults>>

-----------------------------------------------------------------------------
(* The end of the process *)

Stop ==
  /\ Booted /\ ~stopping
  /\ stopping' = TRUE
  /\ missed' = Uri
  /\ UNCHANGED <<catalog, boot, refreshes, live, version, closing, source, watchers, subscribed, rev, updates, seen, faults, past>>

\* Close, when the engine has waited for its sources.
Close(name) ==
  /\ stopping /\ \A c \in Conn : source[c].step \in {"none", "ended"}
  /\ closing = None /\ conns[name] # None
  /\ Dropped(name) /\ closing' = conns[name]
  /\ UNCHANGED <<resources, boot, refreshes, live, version, stopping, subscriptions, faults, skipped, overlapped, failed>>

-----------------------------------------------------------------------------
Init ==
  /\ conns = [n \in Name |-> None] /\ tools = [e \in {} |-> None]
  /\ byServer = [n \in Name |-> {}] /\ resources = [c \in Conn |-> 0]
  /\ boot = [at |-> 1, step |-> "check"] /\ refreshes = {}
  /\ live = {} /\ version = [c \in Conn |-> 1] /\ closing = None /\ stopping = FALSE
  /\ source = [c \in Conn |-> [step |-> "none", todo |-> {}]]
  /\ watchers = {} /\ subscribed = {} /\ rev = [u \in Uri |-> 1] /\ updates = {} /\ seen = {}
  /\ missed = {} /\ faults = 0 /\ skipped = [c \in Conn |-> {}]
  /\ overlapped = {} /\ crossed = {} /\ failed = {}

Refresh ==
  \E r \in refreshes :
    \/ RefreshSession(r) \/ ListResources(r) \/ StoreResources(r) \/ ListTools(r) \/ Apply(r)
    \/ ListFails(r)

Notified ==
  \E n \in updates : ResourceUpdated(n) \/ ReadBack(n) \/ ReadBackFails(n) \/ Emit(n)

Main ==
  \/ ConnectTwice \/ Connect \/ ConnectFails \/ Register \/ Connected \/ LogRaces \/ Drop
  \/ CloseSession
  \/ \E n \in Name : Close(n)

Sources ==
  \E c \in Conn : \/ Watch(c) \/ (\E u \in Uri : Subscribe(c, u)) \/ SubscribeFails(c)
                  \/ SourceStops(c)

Outside == (\E c \in Conn : ListChanged(c)) \/ (\E u \in Uri : Changed(u)) \/ Stop

Next == boot.step # "dead" /\ (Refresh \/ Notified \/ Main \/ Sources \/ Outside)

Spec == Init /\ [][Next]_vars

\* The process's own goroutines go on, and calls are answered or fail; but main
\* waits for an external server's answer to initialize for as long as it takes
\* (host.go:142 is given no deadline).
Fairness ==
  LET Smooth(A) == boot.step # "dead" /\ A /\ NoFault IN
  /\ WF_vars(Smooth(Refresh)) /\ WF_vars(Smooth(Notified)) /\ WF_vars(Smooth(Sources))
  /\ WF_vars(Smooth(Main /\ (Booting("check") => Current \in BuiltIn)))

FairSpec == Spec /\ Fairness
-----------------------------------------------------------------------------
(* Properties *)

\* The shape of the state.
TypeOK ==
  /\ conns \in [Name -> Conn \cup {None}] /\ \A n \in Name : conns[n] # None => NameOf[conns[n]] = n
  /\ tools \in [DOMAIN tools -> [conn : Conn, tool : Tool]] /\ DOMAIN tools \subseteq Range(Exposed)
  /\ byServer \in [Name -> SUBSET Range(Exposed)]
  /\ resources \in [Conn -> Nat] /\ version \in [Conn -> Nat]
  /\ \A c \in Conn : version[c] \in DOMAIN Lists[c]
  /\ boot \in [at : 1..(Len(Order) + 1),
               step : {"check", "register", "refresh", "next", "drop", "close", "dead"}]
  /\ refreshes \subseteq [id : Nat, conn : Conn, list : Nat \cup {None},
                         step : {"find", "resources", "store", "tools", "apply"}]
  /\ \A r \in refreshes : Holding(r) => r.list \in DOMAIN Lists[r.conn]
  /\ live \subseteq Conn /\ closing \in Conn \cup {None} /\ stopping \in BOOLEAN
  /\ source \in [Conn -> [step : {"none", "waiting", "subscribing", "on", "ended"}, todo : SUBSET Uri]]
  /\ watchers \subseteq Name /\ subscribed \subseteq Uri /\ missed \subseteq Uri
  /\ rev \in [Uri -> Nat]
  /\ updates \subseteq [uri : Uri, id : Nat, step : {"sent", "read", "emit"}, got : Nat]
  /\ faults \in 0..MaxFaults
  /\ skipped \in [Conn -> SUBSET Range(Exposed)] /\ crossed \subseteq Name
  /\ overlapped \cup failed \subseteq Conn

Of(name) == {e \in DOMAIN tools : NameOf[tools[e].conn] = name}

\* The two sides of the catalog agree, each tool is under the name of its own
\* server, and a server that is not connected has none: except when it was
\* disconnected while a refresh of it ran, which puts them back.
CatalogConsistent ==
  \A n \in Name :
    /\ byServer[n] = Of(n)
    /\ n \notin crossed => \A e \in Of(n) : tools[e].conn = conns[n]

\* A connection shows what its server has now, but for the names that others
\* had when it was looked at.
UpToDate(c) ==
  /\ resources[c] = version[c]
  /\ byServer[NameOf[c]] = Named(c, Lists[c][version[c]]) \ skipped[c]

\* The process runs, and nothing went wrong with the refreshes of c.
Followed(c) ==
  /\ boot.step # "dead" /\ conns[NameOf[c]] = c
  /\ c \notin overlapped \cup failed /\ NameOf[c] \notin crossed

\* A catalog that was told of a change catches up with it, unless a list could
\* not be had or two refreshes of one server overlapped, of which either may be
\* the last to store (host.go:54: "refreshed on resources/list_changed").
CatalogSettles ==
  \A c \in Conn :
    <>[](Followed(c) => UpToDate(c))

\* What a notification of a subscribed resource is about gets to the ingest
\* engine, in this content or a later one, unless it cannot be read, a
\* subscription failed, or the process stops (resource_source.go:40-53).
UpdatesAnnounced ==
  \A u \in Uri : \A k \in DOMAIN Values[u] :
    (\E n \in updates : n.uri = u /\ n.id = k) ~>
      (u \in missed \/ \E j \in k..Len(Values[u]) : [uri |-> u, value |-> Values[u][j]] \in seen)

\* "tools left after disconnect" (host_test.go:139): a server that is not
\* connected has no tools in the catalog.
NoGhostTools == \A e \in DOMAIN tools : conns[NameOf[tools[e].conn]] = tools[e].conn

\* "each resources/updated notification on a subscribed URI becomes a task"
\* (.env.example:84): the engine takes none for one it has seen.
EachUpdateIsNew ==
  [][\A n \in updates : n.step = "emit" /\ n \notin updates' => EventOf(n) \notin seen]_vars

\* "A third-party server being down is not a reason to stay down." (main.go)
BootEnds == <>(Booted \/ boot.step = "dead")

\* A name that was taken when a server was listed, and is not any more, is that
\* server's now.
FreedNamesAreTaken ==
  \A c \in Conn :
    <>[](Followed(c) => Named(c, Lists[c][version[c]]) \subseteq DOMAIN tools)
=============================================================================
