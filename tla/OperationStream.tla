--------------------------- MODULE OperationStream ---------------------------
(***************************************************************************)
(* The live stream of one workspace: WebSocketSyncTransport, the listeners *)
(* of SyncGateway and the pages of listOperationsAfter                     *)
(* (domains/synchronization/src).                                          *)
(*                                                                         *)
(* A submission tells the listeners after its commit() has returned, so    *)
(* that two submissions may tell them out of sequence order.  A socket     *)
(* subscribes first and asks for its history afterwards, page by page.     *)
(* The journal is the log of OperationJournal: operations have the         *)
(* sequences 1..committed.  Handlers of the server run to their end.       *)
(***************************************************************************)
EXTENDS Naturals, Sequences, FiniteSets, SequencesExt, FiniteSetsExt

CONSTANTS
  Reader,         \* devices, each with at most one socket
  PageSize,       \* operations in a history page: 512 in the code
  HighWater,      \* messages waiting in a socket: 1 MB in the code
  MaxOperations,  \* bounds the journal
  MaxFaults       \* bounds lost answers, failed queries, lost peers and stops

ASSUME PageAssumption == PageSize \in Nat \ {0}
ASSUME BoundAssumption == {HighWater, MaxOperations, MaxFaults} \subseteq Nat

VARIABLES
  committed,      \* the length of the journal
  unannounced,    \* committed, and submit() has yet to tell the listeners
  silent,         \* committed, and no submit() will ever tell
  listeners,      \* #listeners of the workspace
  socket,         \* socket[r]: the server's side of the connection of r
  got,            \* got[r]: what r holds while it is connected
  faults          \* faults so far

journal == <<committed, unannounced, silent>>
vars == <<journal, listeners, socket, got, faults>>

Closed == [state |-> "closed", alive |-> FALSE, peer |-> FALSE, history |-> "idle",
           after |-> 0, page |-> <<>>, buffer |-> <<>>]
Opened(after) == [state |-> "open", alive |-> TRUE, peer |-> TRUE, history |-> "query",
                  after |-> after, page |-> <<>>, buffer |-> <<>>]

Socket ==
  [state : {"closed", "open", "closing"}, alive : BOOLEAN, peer : BOOLEAN,
   history : {"idle", "query", "page", "sent"},
   after : Nat, page : Seq(Nat), buffer : Seq(Nat)]

TypeOK ==
  /\ committed \in 0..MaxOperations
  /\ unannounced \subseteq 1..committed /\ silent \subseteq 1..committed
  /\ listeners \subseteq Reader
  /\ socket \in [Reader -> Socket]
  /\ got \in [Reader -> SUBSET (1..committed)]
  /\ faults \in 0..MaxFaults

Init ==
  /\ committed = 0 /\ unannounced = {} /\ silent = {}
  /\ listeners = {}
  /\ socket = [r \in Reader |-> Closed]
  /\ got = [r \in Reader |-> {}]
  /\ faults = 0

-----------------------------------------------------------------------------
\* What closing for back pressure prevents: the message is dropped and the
\* stream goes on.
SendDropping(s, n) ==
  IF s.state # "open" \/ Len(s.buffer) > HighWater THEN s
  ELSE [s EXCEPT !.buffer = Append(@, n)]

\* sendOperation
Send(s, n) ==
  IF s.state # "open" THEN s
  ELSE IF Len(s.buffer) > HighWater THEN [s EXCEPT !.state = "closing"]
  ELSE [s EXCEPT !.buffer = Append(@, n)]

\* sendOperation for one message after another: the first that finds too much
\* in the buffer closes the socket, and those behind it are not sent.
SendAll(s, messages) ==
  LET all == s.buffer \o messages IN
  IF s.state # "open" THEN s
  ELSE IF Len(all) <= HighWater + 1 THEN [s EXCEPT !.buffer = all]
  ELSE [s EXCEPT !.buffer = SubSeq(all, 1, HighWater + 1), !.state = "closing"]

\* SyncGateway.submit tells the listeners, unless the commit was a duplicate.
Announce(n) ==
  /\ n \in unannounced
  /\ unannounced' = unannounced \ {n}
  /\ socket' = [r \in Reader |-> IF r \in listeners THEN Send(socket[r], n) ELSE socket[r]]
  /\ UNCHANGED <<committed, silent, listeners, got, faults>>

\* journal.commit of a new operation.
Commit ==
  /\ committed < MaxOperations
  /\ committed' = committed + 1
  /\ unannounced' = unannounced \cup {committed'}
  /\ UNCHANGED <<silent, listeners, socket, got, faults>>

Fault == faults < MaxFaults /\ faults' = faults + 1

\* The answer to COMMIT is lost: commit() throws, and the retry of the client
\* finds the operation and is a duplicate.
CommitUnknown ==
  /\ Fault
  /\ committed < MaxOperations
  /\ committed' = committed + 1
  /\ silent' = silent \cup {committed'}
  /\ UNCHANGED <<unannounced, listeners, socket, got>>

\* What subscribing before the first query prevents: a commit between the two
\* that neither sends.
AcceptUnsubscribed(r) ==
  /\ socket[r].state = "closed"
  /\ \E after \in 0..committed :
       /\ got' = [got EXCEPT ![r] = 1..after]
       /\ socket' = [socket EXCEPT ![r] = Opened(after)]
  /\ UNCHANGED <<journal, listeners, faults>>

\* #accept: the client has fetched the state up to `after' some time ago.
Accept(r) ==
  /\ socket[r].state = "closed"
  /\ \E after \in 0..committed :
       /\ got' = [got EXCEPT ![r] = 1..after]
       /\ socket' = [socket EXCEPT ![r] = Opened(after)]
  /\ listeners' = listeners \cup {r}
  /\ UNCHANGED <<journal, faults>>

\* listOperationsAfter, while the socket is open.  Its second statement reads
\* the updates of the operations the first has found.
QueryPage(r) ==
  /\ socket[r].history = "query" /\ socket[r].state = "open"
  /\ LET s == socket[r]
         found == [i \in 1..Min({PageSize, committed - s.after}) |-> s.after + i]
     IN socket' = [socket EXCEPT ![r].history = "page", ![r].page = found]
  /\ UNCHANGED <<journal, listeners, got, faults>>

\* What comparing with the size of a page prevents: a full page taken for the
\* last one.
SendPageOnce(r) ==
  /\ socket[r].history = "page"
  /\ socket' = [socket EXCEPT ![r] =
       [SendAll(socket[r], socket[r].page)
          EXCEPT !.page = <<>>, !.history = "sent"]]
  /\ UNCHANGED <<journal, listeners, got, faults>>

\* #sendHistory sends a page; a page that is not full is the last.
SendPage(r) ==
  /\ socket[r].history = "page"
  /\ LET s == SendAll(socket[r], socket[r].page)
         full == Len(s.page) = PageSize
     IN socket' = [socket EXCEPT ![r] =
          [s EXCEPT !.page = <<>>,
                    !.after = IF full THEN Last(s.page) ELSE @,
                    !.history = IF full /\ s.state = "open" THEN "query" ELSE "sent"]]
  /\ UNCHANGED <<journal, listeners, got, faults>>

\* The query fails: close 1011.
HistoryFails(r) ==
  /\ Fault
  /\ socket[r].history = "query" /\ socket[r].state = "open"
  /\ socket' = [socket EXCEPT ![r] = [@ EXCEPT !.history = "sent", !.state = "closing"]]
  /\ UNCHANGED <<journal, listeners, got>>

\* The peer receives the next message.
Deliver(r) ==
  /\ socket[r].state # "closed" /\ socket[r].peer /\ socket[r].buffer # <<>>
  /\ got' = [got EXCEPT ![r] = @ \cup {Head(socket[r].buffer)}]
  /\ socket' = [socket EXCEPT ![r].buffer = Tail(@)]
  /\ UNCHANGED <<journal, listeners, faults>>

\* The event "pong": the ping sent by the last heartbeat was answered.
Pong(r) ==
  /\ socket[r].state # "closed" /\ socket[r].peer /\ ~socket[r].alive
  /\ socket' = [socket EXCEPT ![r].alive = TRUE]
  /\ UNCHANGED <<journal, listeners, got, faults>>

\* The peer is gone without a word.
LosePeer(r) ==
  /\ Fault
  /\ socket[r].peer
  /\ socket' = [socket EXCEPT ![r].peer = FALSE]
  /\ UNCHANGED <<journal, listeners, got>>

\* What naming the listener prevents: the whole room unsubscribes.
UnsubscribeRoom(r) ==
  /\ socket' = [socket EXCEPT ![r] = Closed]
  /\ got' = [got EXCEPT ![r] = {}]
  /\ listeners' = {}
  /\ UNCHANGED journal

\* The event "close" stops the heartbeat and unsubscribes.
Closes(r) ==
  /\ socket' = [socket EXCEPT ![r] = Closed]
  /\ got' = [got EXCEPT ![r] = {}]
  /\ listeners' = listeners \ {r}
  /\ UNCHANGED journal

\* What resetting `alive' prevents: a peer that is gone is pinged for ever.
HeartbeatForgets(r) ==
  /\ socket[r].state # "closed"
  /\ UNCHANGED <<vars>>

\* The heartbeat of 30 seconds: a peer that missed one ping is terminated.
Heartbeat(r) ==
  /\ socket[r].state # "closed"
  /\ \/ socket[r].alive
        /\ socket' = [socket EXCEPT ![r].alive = FALSE]
        /\ UNCHANGED <<journal, listeners, got>>
     \/ ~socket[r].alive /\ Closes(r)
  /\ UNCHANGED faults

\* The closing handshake ends, with what was sent before it.
CloseEnds(r) ==
  /\ socket[r].state = "closing" /\ socket[r].peer /\ socket[r].buffer = <<>>
  /\ Closes(r)
  /\ UNCHANGED faults

\* The process stops: no submit() goes on and every socket is closed.
Stop ==
  /\ Fault
  /\ silent' = silent \cup unannounced /\ unannounced' = {}
  /\ listeners' = {}
  /\ socket' = [r \in Reader |-> Closed]
  /\ got' = [r \in Reader |-> {}]
  /\ UNCHANGED committed

Serve(r) == QueryPage(r) \/ SendPage(r)

Next ==
  \/ Commit \/ CommitUnknown \/ Stop
  \/ \E n \in unannounced : Announce(n)
  \/ \E r \in Reader :
       \/ Accept(r) \/ Serve(r) \/ HistoryFails(r) \/ Deliver(r)
       \/ Pong(r) \/ LosePeer(r) \/ Heartbeat(r) \/ CloseEnds(r)

Spec == Init /\ [][Next]_vars

\* The event loop runs what is due, timers fire, and a peer that is there
\* reads and answers pings.
FairSpec ==
  /\ Spec
  /\ \A r \in Reader :
       /\ WF_vars(Serve(r)) /\ WF_vars(Deliver(r))
       /\ WF_vars(Heartbeat(r)) /\ WF_vars(CloseEnds(r))
  /\ WF_vars(\E n \in unannounced : Announce(n))

-----------------------------------------------------------------------------
\* An open stream has no hole: once the history has been sent, the peer has
\* or will receive every operation a listener was told of or could have found
\* when it subscribed, whatever pages, live messages and back pressure did.
\* `silent' are the operations of the calls whose COMMIT was not answered.
NoHole ==
  \A r \in Reader : socket[r].state = "open" /\ socket[r].history = "sent" =>
    1..committed \subseteq got[r] \cup ToSet(socket[r].buffer) \cup unannounced \cup silent

\* Who has an open socket hears of commits, and nobody else is told: the end
\* of one connection takes no other out of the room.
RoomIsOpenSockets == listeners = {r \in Reader : socket[r].state # "closed"}

\* A peer that vanished does not stay in the room: two heartbeats end it.
DeadPeerLeaves ==
  \A r \in Reader : (socket[r].state # "closed" /\ ~socket[r].peer) ~> (r \notin listeners)

\* The sentence of the contract that a lost answer to COMMIT breaks: every
\* commit is broadcast, so that an open stream has everything.
EveryCommitIsBroadcast ==
  \A r \in Reader : socket[r].state = "open" /\ socket[r].history = "sent" =>
    1..committed \subseteq got[r] \cup ToSet(socket[r].buffer) \cup unannounced
=============================================================================
