-------------------------------- MODULE Ipc ---------------------------------
(***************************************************************************)
(* ipc/ipc.c, ipc/state.c and protocols/publication.c: the control socket. *)
(* Clients send lines and get a reply to each; subscribers get an event    *)
(* for every published field that changed between two reconciliations.     *)
(*                                                                         *)
(* A line is so many bytes and a newline that carries what the line says.  *)
(* A message to a client is a text and a newline, which the server queues  *)
(* one after the other; sizes are counted in these units.  The fields of   *)
(* the published state are scalars (the mode, the keyboard layout, the     *)
(* focused output, the focused view, the diagnostics of the configuration) *)
(* and the layouts of the workspaces, which come and go.                   *)
(*                                                                         *)
(* A client is anything that speaks to the socket; timao is one that sends *)
(* one line and reads the reply, or reads events until it is killed.       *)
(***************************************************************************)
EXTENDS Integers, FiniteSets, SequencesExt

CONSTANTS
  NONE,
  Clients,
  Scalars,     \* the scalar fields, each with an event of its own
  Spaces,      \* the workspaces, which share the event "layout"
  Values,
  MaxClients,  \* LEME_IPC_MAX_CLIENTS
  MaxLine,     \* LEME_IPC_MAX_LINE: also what one recv takes
  MaxOutput,   \* LEME_IPC_MAX_OUTPUT
  Room,        \* what the kernel keeps for a client that does not read
  Scenarios    \* who connects, what the lines say, and the bounds: the lines of a
               \* client, the changes of the published state, the locks, and
               \* whether a panel takes the keyboard

Fields == Scalars \cup Spaces
EventOf(f) == IF f \in Scalars THEN f ELSE "layout"
Events == {EventOf(f) : f \in Fields}

ASSUME IpcAssumption ==
  /\ NONE \notin Values /\ Scalars \cap Spaces = {} /\ "layout" \notin Scalars
  /\ IsFiniteSet(Clients) /\ IsFiniteSet(Fields) /\ Values # {}
  /\ MaxClients \in Nat /\ MaxLine \in Nat \ {0} /\ MaxOutput \in Nat /\ Room \in Nat
  /\ \A a \in Scenarios :
       /\ a.clients \subseteq Clients /\ {a.sent, a.changes, a.locks} \subseteq Nat
       /\ \A r \in a.requests :
            /\ r.verb \in {"blank", "get", "subscribe", "set", "refused", "invalid"}
            /\ r.length \in Nat
            /\ r.verb = "set" => r.field \in Fields /\ r.value \in Values

VARIABLES
  around,  \* the scenario
  server,  \* the published state, the last snapshot and the connections
  client,  \* the connections
  history  \* what was said and done so far

vars == <<around, server, client, history>>

\* The other end: nothing, waiting in the queue of the socket, connected, closed.
Closed == [state |-> "none", hangup |-> FALSE, wire |-> <<>>, input |-> 0, output |-> <<>>, socket |-> <<>>,
           subscribed |-> FALSE, events |-> {}]

State == [Fields -> Values \cup {NONE}]

Message == [kind : {"reply"}, n : 1..around.sent, to : around.requests, ok : BOOLEAN]
             \cup [kind : {"event"}, field : Fields, value : Values \cup {NONE}]
Units == [message : Message, part : {"text", "end"}]

TypeOK ==
  /\ around \in Scenarios
  /\ server.now \in State /\ server.snapshot \in State /\ server.idle \in BOOLEAN
  /\ server.locked \in BOOLEAN /\ server.exclusive \in BOOLEAN
  /\ server.clients \subseteq Clients /\ server.count \in 0..MaxClients
  /\ \A c \in Clients :
       /\ client[c].state \in {"none", "waiting", "open", "gone"}
       /\ client[c].input \in 0..MaxLine /\ client[c].hangup \in BOOLEAN
       /\ Len(client[c].output) <= MaxOutput /\ Len(client[c].socket) <= Room
       /\ ToSet(client[c].output) \cup ToSet(client[c].socket) \subseteq Units
       /\ client[c].events \subseteq Events
       /\ history.asked[c] \in 0..around.sent /\ history.answered[c] \in 0..around.sent
       /\ history.heard[c] \in {NONE} \cup Units /\ history.told[c] \in State
  /\ history.commands \in Nat /\ history.changes \in 0..around.changes
  /\ history.locks \in 0..around.locks

-----------------------------------------------------------------------------
(* Below, s is the record of the variables and k a connection, which has   *)
(* failed when it cannot be kept.                                          *)

Whole == [server |-> server, client |-> client, history |-> history]
Become(s) ==
  server' = s.server /\ client' = s.client /\ history' = s.history /\ UNCHANGED around

Failed(s, c) == s.client[c].state = "failed"

\* Mutant: a client that is dropped keeps its place.
DestroyKeepsPlace(s, gone) ==
  [s EXCEPT !.client = [c \in Clients |-> IF c \in gone THEN [Closed EXCEPT !.state = "gone"] ELSE @[c]],
            !.history.heard = [c \in Clients |-> IF c \in gone THEN NONE ELSE @[c]],
            !.server.clients = @ \ gone]

\* leme_ipc_client_destroy, of each client in gone
Destroy(s, gone) ==
  [s EXCEPT !.client = [c \in Clients |-> IF c \in gone THEN [Closed EXCEPT !.state = "gone"] ELSE @[c]],
            !.history.heard = [c \in Clients |-> IF c \in gone THEN NONE ELSE @[c]],
            !.server.clients = @ \ gone, !.server.count = @ - Cardinality(gone)]

\* leme_ipc_client_flush: as much as the socket takes; the rest waits for the next call.
Flush(k) ==
  LET room == Room - Len(k.socket)
      n == IF Len(k.output) < room THEN Len(k.output) ELSE room
  IN [k EXCEPT !.socket = @ \o SubSeq(k.output, 1, n),
               !.output = SubSeq(k.output, n + 1, Len(k.output))]

\* Mutant: a full buffer loses what does not fit, and not the client.
QueueDrops(k, unit) ==
  IF Len(k.output) >= MaxOutput THEN Flush(k) ELSE Flush([k EXCEPT !.output = Append(@, unit)])

\* leme_ipc_client_queue
Queue(k, unit) ==
  IF k.state = "failed" \/ k.hangup \/ Len(k.output) >= MaxOutput
  THEN [k EXCEPT !.state = "failed"]
  ELSE Flush([k EXCEPT !.output = Append(@, unit)])

\* leme_ipc_client_send: the text, then the newline
Send(k, m) ==
  Queue(Queue(k, [message |-> m, part |-> "text"]), [message |-> m, part |-> "end"])

\* leme_ipc_client_fail and the replies that succeed
Reply(s, c, r, ok) ==
  LET n == s.history.answered[c] + 1
  IN [s EXCEPT !.history.answered[c] = n,
               !.client[c] = Send(@, [kind |-> "reply", n |-> n, to |-> r, ok |-> ok])]

-----------------------------------------------------------------------------
(* Reconciliation.                                                         *)

Listening(s, c, f) ==
  c \in s.server.clients /\ s.client[c].subscribed /\ EventOf(f) \in s.client[c].events

\* leme_ipc_emit: a client that cannot take the event is dropped.  No client depends on
\* another, so what the list does one by one is done for all of them.
Emit(s, f, value) ==
  LET m == [kind |-> "event", field |-> f, value |-> value]
      t == [s EXCEPT !.client = [c \in Clients |-> IF Listening(s, c, f) THEN Send(@[c], m) ELSE @[c]],
                     !.history.told = [c \in Clients |-> IF Listening(s, c, f)
                                                        THEN [@[c] EXCEPT ![f] = value] ELSE @[c]]]
  IN Destroy(t, {c \in s.server.clients : Failed(t, c)})

\* leme_ipc_diff: a scalar that changed, and a workspace that is there with a layout
\* that is new.
Changed(s, f) ==
  s.server.now[f] # s.server.snapshot[f] /\ (f \in Spaces => s.server.now[f] # NONE)
Diff(s) ==
  LET fields == SetToSeq({f \in Fields : Changed(s, f)})
      emitted[i \in 0 .. Len(fields)] ==
        IF i = 0 THEN s ELSE Emit(emitted[i - 1], fields[i], s.server.now[fields[i]])
  IN emitted[Len(fields)]

\* Mutant: the events stop, and so does the snapshot, at the first client that leaves.
ReconcileForgets(s) ==
  IF s.server.locked THEN s
  ELSE LET t == Diff(s)
       IN IF t.server.clients # s.server.clients THEN t
          ELSE [t EXCEPT !.server.snapshot = s.server.now]

\* Mutant: the lock is not asked.
ReconcileLocked(s) ==
  [Diff(s) EXCEPT !.server.snapshot = s.server.now]

\* leme_ipc_reconcile
Reconcile(s) ==
  IF s.server.locked THEN s ELSE [Diff(s) EXCEPT !.server.snapshot = s.server.now]

\* leme_ipc_invalidate, with an event loop that takes the callback
Invalidate(s) == [s EXCEPT !.server.idle = TRUE]

-----------------------------------------------------------------------------
(* Requests.                                                               *)

\* leme_ipc_state_write: the whole tree, a field of it, or a workspace that is there
Answers(s, path) ==
  \/ path = <<>>
  \/ Len(path) = 1 /\ path[1] \in Scalars \cup {"workspaces"}
  \/ /\ Len(path) = 2 /\ path[1] = "workspaces"
     /\ path[2] \in Spaces /\ s.server.now[path[2]] # NONE

\* leme_command_execute of a command that sets a field: a change of a layout is
\* announced by the refresh of the focus, which a panel that holds the keyboard stops.
Set(s, f, value) ==
  LET t == [s EXCEPT !.server.now[f] = value]
  IN IF f \in Spaces /\ s.server.exclusive THEN t ELSE Invalidate(t)

\* leme_ipc_client_command
Command(s, c, r) ==
  IF s.server.locked \/ r.verb \in {"invalid", "refused"} THEN Reply(s, c, r, FALSE)
  ELSE IF s.server.now[r.field] = NONE THEN Reply(s, c, r, FALSE)
  ELSE Reply(Set([s EXCEPT !.history.commands = @ + 1], r.field, r.value), c, r, TRUE)

\* leme_ipc_client_subscribe: no names are all events, an unknown name none.
Subscribe(s, c, r) ==
  LET events == IF r.names = {} THEN Events ELSE r.names
      added == events \ s.client[c].events
  IN IF ~(events \subseteq Events) THEN Reply(s, c, r, FALSE)
     ELSE Reply([s EXCEPT !.client[c].events = @ \cup events, !.client[c].subscribed = TRUE,
                          !.history.told[c] = [f \in Fields |->
                            IF EventOf(f) \in added THEN s.server.snapshot[f] ELSE @[f]]],
                c, r, TRUE)

\* leme_ipc_client_dispatch
Dispatch(s, c, r) ==
  CASE r.verb = "blank" -> [s EXCEPT !.history.answered[c] = @ + 1]
    [] r.verb = "get" -> Reply(s, c, r, Answers(s, r.path))
    [] r.verb = "subscribe" -> Subscribe(s, c, r)
    [] OTHER -> Command(s, c, r)

\* Mutant: a line that is too long starts again.
TakeCuts(s, c) ==
  LET byte == Head(s.client[c].wire)
      t == [s EXCEPT !.client[c].wire = Tail(@)]
  IN IF byte.newline THEN Dispatch([t EXCEPT !.client[c].input = 0], c, byte.says)
     ELSE [t EXCEPT !.client[c].input = (@ + 1) % (MaxLine + 1)]

\* One byte of leme_ipc_handle_client
Take(s, c) ==
  LET byte == Head(s.client[c].wire)
      t == [s EXCEPT !.client[c].wire = Tail(@)]
  IN IF Failed(s, c) THEN s
     ELSE IF byte.newline THEN Dispatch([t EXCEPT !.client[c].input = 0], c, byte.says)
     ELSE IF t.client[c].input >= MaxLine THEN [t EXCEPT !.client[c].state = "failed"]
     ELSE [t EXCEPT !.client[c].input = @ + 1]

\* Mutant: the rest of a packet is lost after a line.
ReceiveLine(s, c, n) ==
  LET taken[i \in 0 .. n] ==
        IF i = 0 THEN s
        ELSE IF taken[i - 1].history = s.history THEN Take(taken[i - 1], c)
        ELSE [taken[i - 1] EXCEPT !.client[c].wire = IF @ = <<>> THEN @ ELSE Tail(@)]
  IN IF Failed(taken[n], c) THEN Destroy(taken[n], {c}) ELSE taken[n]

\* leme_ipc_handle_client, for the n bytes that one recv takes
Receive(s, c, n) ==
  LET taken[i \in 0 .. n] == IF i = 0 THEN s ELSE Take(taken[i - 1], c)
  IN IF Failed(taken[n], c) THEN Destroy(taken[n], {c}) ELSE taken[n]

-----------------------------------------------------------------------------
(* What happens.                                                           *)

\* A client connects, and waits for the server to accept it (timao_connect).
Connect(c) ==
  /\ client[c].state = "none" /\ c \in around.clients
  /\ client' = [client EXCEPT ![c].state = "waiting"]
  /\ UNCHANGED <<around, server, history>>

\* Mutant: there is always a place.
HandleListenUnbounded(c) ==
  /\ client[c].state = "waiting"
  /\ Become([Whole EXCEPT !.client[c].state = "open", !.server.count = @ + 1,
                          !.server.clients = @ \cup {c}])

\* leme_ipc_handle_listen
HandleListen(c) ==
  /\ client[c].state = "waiting"
  /\ IF server.count >= MaxClients
     THEN Become([Whole EXCEPT !.client[c] = [Closed EXCEPT !.state = "gone"]])
     ELSE Become([Whole EXCEPT !.client[c].state = "open", !.server.count = @ + 1,
                               !.server.clients = @ \cup {c}])

\* A client writes a line (timao_send_line).
Write(c, r) ==
  /\ client[c].state \in {"waiting", "open"} /\ ~client[c].hangup
  /\ history.asked[c] < around.sent
  /\ client' = [client EXCEPT ![c].wire = @ \o [i \in 1..r.length |-> [newline |-> FALSE]]
                                             \o <<[newline |-> TRUE, says |-> r]>>]
  /\ history' = [history EXCEPT !.asked[c] = @ + 1]
  /\ UNCHANGED <<around, server>>

\* A client reads (timao_read_line).
Read(c) ==
  /\ ~client[c].hangup /\ client[c].socket # <<>>
  /\ client' = [client EXCEPT ![c].socket = Tail(@)]
  /\ history' = [history EXCEPT !.heard[c] = Head(client[c].socket)]
  /\ UNCHANGED <<around, server>>

\* A client leaves: timao after the reply or when it is killed, others at any time.
Hangup(c) ==
  /\ client[c].state \in {"waiting", "open"} /\ ~client[c].hangup
  /\ client' = [client EXCEPT ![c].hangup = TRUE]
  /\ UNCHANGED <<around, server, history>>

\* leme_ipc_handle_client
HandleClient(c) ==
  /\ c \in server.clients
  /\ \/ client[c].hangup /\ Become(Destroy(Whole, {c}))
     \/ /\ ~client[c].hangup
        /\ \E n \in 1..(IF Len(client[c].wire) < MaxLine THEN Len(client[c].wire) ELSE MaxLine) :
             Become(Receive(Whole, c, n))

\* leme_ipc_handle_idle
HandleIdle ==
  /\ server.idle
  /\ Become(Reconcile([Whole EXCEPT !.server.idle = FALSE]))

\* The user, a window or an output changes what is published.
Change(f, value) ==
  /\ history.changes < around.changes /\ server.now[f] # value
  /\ Become(Set([Whole EXCEPT !.history.changes = @ + 1], f, value))

\* A panel takes the keyboard, or gives it back and the focus is refreshed.
ExclusiveLayer ==
  /\ around.panel
  /\ Become(IF server.exclusive THEN Invalidate([Whole EXCEPT !.server.exclusive = FALSE])
            ELSE [Whole EXCEPT !.server.exclusive = TRUE])

\* leme_session_handle_new_lock, as far as the socket sees it
Lock ==
  /\ ~server.locked /\ history.locks < around.locks
  /\ Become([Whole EXCEPT !.server.locked = TRUE, !.history.locks = @ + 1])

\* Mutant: nothing is published after the lock.
UnlockSilent ==
  /\ server.locked
  /\ Become([Whole EXCEPT !.server.locked = FALSE])

\* leme_session_handle_unlock
Unlock ==
  /\ server.locked
  /\ Become(Invalidate([Whole EXCEPT !.server.locked = FALSE]))

-----------------------------------------------------------------------------
Init ==
  /\ around \in Scenarios
  /\ LET start == [f \in Fields |-> CHOOSE v \in Values : TRUE]
     IN /\ server = [now |-> start, snapshot |-> start, idle |-> FALSE, locked |-> FALSE,
                     exclusive |-> FALSE, clients |-> {}, count |-> 0]
        /\ history = [asked |-> [c \in Clients |-> 0], answered |-> [c \in Clients |-> 0],
                      heard |-> [c \in Clients |-> NONE], told |-> [c \in Clients |-> start],
                      changes |-> 0, commands |-> 0, locks |-> 0]
  /\ client = [c \in Clients |-> Closed]

Next ==
  \/ \E c \in Clients :
       \/ Connect(c) \/ HandleListen(c) \/ Read(c) \/ Hangup(c) \/ HandleClient(c)
       \/ \E r \in around.requests : Write(c, r)
  \/ HandleIdle \/ ExclusiveLayer \/ Lock \/ Unlock
  \/ \E f \in Fields, value \in Values : Change(f, value)
  \/ \E f \in Spaces : Change(f, NONE)

Spec == Init /\ [][Next]_vars

=============================================================================
