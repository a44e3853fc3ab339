---------------------------- MODULE IpcProperties ---------------------------
(***************************************************************************)
(* What the control socket promises.                                       *)
(***************************************************************************)
EXTENDS Ipc

\* What was sent to a client and has not been read yet
Queued(c) == client[c].socket \o client[c].output

\* The messages of a kind that begin in it, by their places
Unread(c, kind) ==
  {i \in DOMAIN Queued(c) : Queued(c)[i].part = "text" /\ Queued(c)[i].message.kind = kind}

\* The lines that the server has not read yet, by the places of their newlines
Unserved(c) == {i \in DOMAIN client[c].wire : client[c].wire[i].newline}

\* What was sent to a client, from the last unit that it has read
Stream(c) == (IF history.heard[c] = NONE THEN <<>> ELSE <<history.heard[c]>>)
             \o Queued(c)

\* Every message reaches a client whole: a text is followed by its newline, whatever
\* the socket took and however full the buffer was (leme_ipc_client_send, _queue, _flush).
StreamsFramed ==
  \A c \in server.clients : \A i \in 2..Len(Stream(c)) :
    LET before == Stream(c)[i - 1]
        unit == Stream(c)[i]
    IN IF unit.part = "text" THEN before.part = "end" ELSE before = [unit EXCEPT !.part = "text"]

\* The replies come in the order of the requests, one for each: the last reply sent is
\* that to the last line that was read, and what is not answered has yet to be read
\* (leme_ipc_handle_client, leme_ipc_client_dispatch).
RepliesInOrder ==
  \A c \in server.clients :
    /\ \A i, j \in Unread(c, "reply") :
         i < j => Queued(c)[i].message.n < Queued(c)[j].message.n
    /\ history.answered[c] + Cardinality(Unserved(c)) = history.asked[c]

\* A request that is answered with success is one that the socket may carry out: within
\* the limit of a line, and not one of the commands that are kept for the user
\* (LEME_IPC_MAX_LINE, leme_ipc_command_refused).
SuccessEarned ==
  \A c \in server.clients : \A i \in Unread(c, "reply") :
    LET m == Queued(c)[i].message
    IN m.to.length <= MaxLine /\ (m.ok => m.to.verb \in {"get", "subscribe", "set"})

\* The last word of the events on a field is what the server thinks it has published:
\* no change is skipped, however changes, subscriptions and clients that are dropped
\* fall together (leme_ipc_diff, leme_ipc_reconcile).
EventsTruthful ==
  \A c \in server.clients, f \in Fields :
    client[c].subscribed /\ EventOf(f) \in client[c].events /\ server.snapshot[f] # NONE
    => history.told[c][f] = server.snapshot[f]

\* The server keeps as many clients as it counts, and gives every place back
\* (LEME_IPC_MAX_CLIENTS, leme_ipc_client_destroy).
ClientsCounted ==
  /\ server.count = Cardinality(server.clients)
  /\ server.clients = {c \in Clients : client[c].state = "open"}

\* While the session is locked no command is carried out and no event is sent
\* (leme_ipc_client_command, leme_ipc_reconcile).
LockedQuiet ==
  [][server.locked /\ server'.locked =>
       /\ history'.commands = history.commands
       /\ \A c \in Clients : Cardinality(Unread(c, "event")') <= Cardinality(Unread(c, "event"))]_vars

\* Nothing is forgotten: unless a reconciliation is due, the session is locked or a
\* panel has the keyboard, every subscriber has been sent the current value of each
\* field it asked for, also when the change was made under the lock or under the
\* panel (leme_ipc_invalidate, leme_ipc_handle_idle, leme_session_handle_unlock).
NothingForgotten ==
  ~server.idle /\ ~server.locked /\ ~server.exclusive =>
    \A c \in server.clients, f \in Fields :
      Listening(Whole, c, f) /\ server.now[f] # NONE
      => history.told[c][f] = server.now[f]

\* The connections: as many as are counted, and what goes over each stays framed
\* at the limits of the buffers (ipc/ipc.c).
StreamsSound == TypeOK /\ StreamsFramed /\ ClientsCounted

\* The replies: one for each line, in order, and success only for what was
\* carried out (leme_ipc_client_dispatch).
RepliesSound == RepliesInOrder /\ SuccessEarned

\* The events: the last one on a field is true, and none is missing once the
\* loop was idle (leme_ipc_diff, leme_ipc_reconcile).
EventsSound == EventsTruthful /\ NothingForgotten

=============================================================================
