------------------------------ MODULE EventBus ------------------------------
(***************************************************************************)
(* The hub that carries the panel's events to its browsers.  Every browser *)
(* has a handler of its own and every event a task of its own; all of them *)
(* take turns on the event loop, and a task that sends an event waits for  *)
(* each browser in turn while others come, go and are sent other events.   *)
(* The table of clients is only touched under a lock that is never held    *)
(* across a send, so what is done under it is one step here.  A browser    *)
(* takes part in every channel: ws_events asks for none.                   *)
(***************************************************************************)
EXTENDS PanelThreads, FiniteSets

CONSTANTS
    Sockets,     \* the connections browsers make; each is made once
    MaxEvents    \* bound: events ever published

VARIABLES
    socket,      \* per connection: "new", "open" or "closed", as the browser has it
    handler,     \* per connection, the handler: "none", "accepted", "serves", "leaves", "over"
    idOf,        \* per connection, the handler's client_id
    clients,     \* the table: client ids and their connections
    nextId,      \* _next_id
    sends,       \* tasks of publish under way: [left, dead]
    events,      \* events published so far
    broken       \* history: connections on which a send raised

busVars == <<socket, handler, idOf, clients, nextId, sends, events, broken>>

BusInit ==
    /\ socket = [s \in Sockets |-> "new"]
    /\ handler = [s \in Sockets |-> "none"]
    /\ idOf = [s \in Sockets |-> -1]
    /\ clients = {} /\ nextId = 0
    /\ sends = <<>> /\ events = 0 /\ broken = {}
-----------------------------------------------------------------------------
(* Browsers and their handlers. *)

\* ws_events: the session is valid and the connection accepted.
Accepts(s) ==
    /\ socket[s] = "new"
    /\ socket' = [socket EXCEPT ![s] = "open"]
    /\ handler' = [handler EXCEPT ![s] = "accepted"]
    /\ UNCHANGED <<idOf, clients, nextId, sends, events, broken>>

\* Mutant: the number of clients is the next id.
CountsClients(s) ==
    /\ handler[s] = "accepted"
    /\ LET id == Cardinality(clients)
       IN  /\ clients' = {c \in clients : c.id # id} \cup {[id |-> id, ws |-> s]}
           /\ idOf' = [idOf EXCEPT ![s] = id]
    /\ handler' = [handler EXCEPT ![s] = "serves"]
    /\ UNCHANGED <<socket, nextId, sends, events, broken>>

\* EventBus.connect.
Connects(s) ==
    /\ handler[s] = "accepted"
    /\ clients' = clients \cup {[id |-> nextId, ws |-> s]}
    /\ idOf' = [idOf EXCEPT ![s] = nextId]
    /\ nextId' = nextId + 1
    /\ handler' = [handler EXCEPT ![s] = "serves"]
    /\ UNCHANGED <<socket, sends, events, broken>>

BrowserCloses(s) ==
    /\ socket[s] = "open"
    /\ socket' = [socket EXCEPT ![s] = "closed"]
    /\ UNCHANGED <<handler, idOf, clients, nextId, sends, events, broken>>

\* receive_text raises on a closed connection; the handler leaves its loop.
Leaves(s) ==
    /\ handler[s] = "serves" /\ socket[s] = "closed"
    /\ handler' = [handler EXCEPT ![s] = "leaves"]
    /\ UNCHANGED <<socket, idOf, clients, nextId, sends, events, broken>>

\* EventBus.disconnect in the handler's finally.
Disconnects(s) ==
    /\ handler[s] = "leaves"
    /\ clients' = {c \in clients : c.id # idOf[s]}
    /\ handler' = [handler EXCEPT ![s] = "over"]
    /\ UNCHANGED <<socket, idOf, nextId, sends, events, broken>>
-----------------------------------------------------------------------------
(* Events. *)

\* publish up to its first send: the targets are those of this moment, oldest first.
Publishes ==
    /\ events < MaxEvents
    /\ events' = events + 1
    /\ sends' = Append(sends, [left |-> clients, dead |-> {}])
    /\ UNCHANGED <<socket, handler, idOf, clients, nextId, broken>>

Nearest(left) == CHOOSE c \in left : \A d \in left : c.id <= d.id

\* One send_json: it arrives, or it raises, as it must on a closed connection
\* and may on an open one.
Sends(n) ==
    /\ sends[n].left # {}
    /\ \E raises \in BOOLEAN :
          LET c    == Nearest(sends[n].left)
              dead == IF raises THEN {c.id} ELSE {}
          IN  /\ socket[c.ws] = "closed" => raises
              /\ sends' = [sends EXCEPT ![n] = [left |-> @.left \ {c}, dead |-> @.dead \cup dead]]
              /\ broken' = IF raises THEN broken \cup {c.ws} ELSE broken
    /\ UNCHANGED <<socket, handler, idOf, clients, nextId, events>>

\* publish after its last send: ids that did not answer leave the table.
Prunes(n) ==
    /\ sends[n].left = {}
    /\ clients' = {c \in clients : c.id \notin sends[n].dead}
    /\ sends' = RemoveAt(sends, n)
    /\ UNCHANGED <<socket, handler, idOf, nextId, events, broken>>

BusNext ==
    \/ \E s \in Sockets : Accepts(s) \/ Connects(s) \/ BrowserCloses(s) \/ Leaves(s) \/ Disconnects(s)
    \/ Publishes
    \/ \E n \in DOMAIN sends : Sends(n) \/ Prunes(n)

BusSpec == BusInit /\ [][BusNext]_busVars
-----------------------------------------------------------------------------
Entries == [id : Nat, ws : Sockets]

BusTypeOK ==
    /\ socket \in [Sockets -> {"new", "open", "closed"}]
    /\ handler \in [Sockets -> {"none", "accepted", "serves", "leaves", "over"}]
    /\ idOf \in [Sockets -> Int]
    /\ clients \subseteq Entries /\ nextId \in Nat
    /\ sends \in Seq([left : SUBSET Entries, dead : SUBSET Nat])
    /\ events \in Nat /\ broken \subseteq Sockets

(***************************************************************************)
(* A browser whose handler serves stays in the table until a send to that  *)
(* very browser raises: no event that could not be sent to another one,    *)
(* and no handler that leaves late, after its client was pruned, takes it  *)
(* out (publish and disconnect remove by an id learned before they wait).  *)
(***************************************************************************)
LiveStaySubscribed ==
    \A s \in Sockets : handler[s] = "serves" /\ s \notin broken =>
        [id |-> idOf[s], ws |-> s] \in clients
=============================================================================
