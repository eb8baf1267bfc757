---------------------------- MODULE ChatDelivery ----------------------------
(***************************************************************************)
(* How chat messages reach one user (ChatGateway).  Redis lists the user's *)
(* socket ids and holds a set of messages to be told later; the process    *)
(* knows the sockets themselves.  A sender reads the list and, when the    *)
(* answer comes, either queues the message or emits it to the listed       *)
(* sockets that the process knows.  Connecting lists a socket and tells it *)
(* what is queued, one message at a time; disconnecting takes *all* of the *)
(* user's sockets off.  A restart forgets the sockets, not the list.       *)
(*                                                                         *)
(* A group message is sent to each member in this way, one after another.  *)
(* The commands of one handler's turn reach Redis together and in order.   *)
(* Clients are external: they open, and close at any time, unnoticed at    *)
(* first.                                                                  *)
(***************************************************************************)
EXTENDS FiniteSets

CONSTANTS
    Sockets,      \* connections of the user; each is used once
    Messages      \* messages to the user

VARIABLES
    listed,     \* Redis chat-user-socket-map: the user's socket ids
    queue,      \* Redis chat-message-pipeline: messages to be told later
    expiring,   \* the queue has a time to live
    known,      \* userSockets
    client,     \* what became of each connection, at the client
    phase,      \* where the server is with it
    left,       \* queued messages a connecting socket is still to be told
    leaving,    \* where its disconnection is
    taken,      \* the ids the disconnection has read, to be removed
    sent,       \* where each message's sender is
    ids,        \* the socket ids it read
    got,        \* the messages received on each connection
    restarted,  \* history: the process restarted
    expired,    \* history: queued messages that ran out of time
    late        \* history: messages queued while a socket was listed

chatVars == <<listed, queue, expiring, known, client, phase, left, leaving, taken, sent, ids,
              got, restarted, expired, late>>

ChatInit ==
    /\ listed = {} /\ queue = {} /\ expiring = FALSE /\ known = {}
    /\ client = [s \in Sockets |-> "new"]
    /\ phase = [s \in Sockets |-> "none"]
    /\ left = [s \in Sockets |-> {}]
    /\ leaving = [s \in Sockets |-> "no"]
    /\ taken = [s \in Sockets |-> {}]
    /\ sent = [m \in Messages |-> "none"]
    /\ ids = [m \in Messages |-> {}]
    /\ got = [s \in Sockets |-> {}]
    /\ restarted = FALSE /\ expired = {} /\ late = {}

(***************************************************************************)
(* handleConnection: hset, expire and smembers leave in one turn; the      *)
(* answer starts the queue's three days and the telling, 200 ms a message. *)
(***************************************************************************)
Connect(s) ==
    /\ client[s] = "new"
    /\ client' = [client EXCEPT ![s] = "open"]
    /\ listed' = listed \cup {s}
    /\ known' = known \cup {s}
    /\ phase' = [phase EXCEPT ![s] = "connecting"]
    /\ left' = [left EXCEPT ![s] = queue]
    /\ UNCHANGED <<queue, expiring, leaving, taken, sent, ids, got, restarted, expired, late>>

StartTelling(s) ==
    /\ phase[s] = "connecting"
    /\ phase' = [phase EXCEPT ![s] = "telling"]
    /\ expiring' = (queue # {})
    /\ UNCHANGED <<listed, queue, known, client, left, leaving, taken, sent, ids, got, restarted,
                   expired, late>>

(* Emitting: only an open connection hears it.                             *)
Hear(sockets, m) ==
    [s \in Sockets |-> got[s] \cup {k \in {m} : s \in sockets /\ client[s] = "open"}]

(* What a socket is still to be told after `m`.                            *)
Told(s, m) == left[s] \ {m}

(* The loop goes on when the client has gone, and unqueues all the same.   *)
Tell(s, m) ==
    /\ phase[s] = "telling"
    /\ m \in left[s]
    /\ got' = Hear({s}, m)
    /\ queue' = queue \ {m}
    /\ expiring' = (expiring /\ queue' # {})
    /\ left' = [left EXCEPT ![s] = Told(s, m)]
    /\ UNCHANGED <<listed, known, client, phase, leaving, taken, sent, ids, restarted, expired,
                   late>>

TellingDone(s) ==
    /\ phase[s] = "telling"
    /\ left[s] = {}
    /\ phase' = [phase EXCEPT ![s] = "up"]
    /\ UNCHANGED <<listed, queue, expiring, known, client, left, leaving, taken, sent, ids, got,
                   restarted, expired, late>>

(***************************************************************************)
(* handleDisconnect, once the server notices.  A telling goes on.          *)
(***************************************************************************)
ClientCloses(s) ==
    /\ client[s] = "open"
    /\ client' = [client EXCEPT ![s] = "gone"]
    /\ UNCHANGED <<listed, queue, expiring, known, phase, left, leaving, taken, sent, ids, got,
                   restarted, expired, late>>

Disconnect(s) ==
    /\ client[s] = "gone"
    /\ phase[s] # "ended"
    /\ leaving[s] = "no"
    /\ known' = known \ {s}
    /\ taken' = [taken EXCEPT ![s] = listed]
    /\ leaving' = [leaving EXCEPT ![s] = "asked"]
    /\ UNCHANGED <<listed, queue, expiring, client, phase, left, sent, ids, got, restarted,
                   expired, late>>

(* Mutant of Removed: another connection of the user keeps the list.       *)
RemovedLast(s) == IF known \ taken[s] = {} THEN taken[s] \ {s} ELSE {}

(* The ids taken off when `s` disconnects: all that were listed.           *)
Removed(s) == taken[s]

Remove(s) ==
    /\ leaving[s] = "asked"
    /\ listed' = listed \ Removed(s)
    /\ known' = known \ Removed(s)
    /\ taken' = [taken EXCEPT ![s] = {}]
    /\ leaving' = [leaving EXCEPT ![s] = "done"]
    /\ UNCHANGED <<queue, expiring, client, phase, left, sent, ids, got, restarted, expired,
                   late>>

(***************************************************************************)
(* sendToUser                                                              *)
(***************************************************************************)
Send(m) ==
    /\ sent[m] = "none"
    /\ sent' = [sent EXCEPT ![m] = "asked"]
    /\ ids' = [ids EXCEPT ![m] = listed]
    /\ UNCHANGED <<listed, queue, expiring, known, client, phase, left, leaving, taken, got,
                   restarted, expired, late>>

(* Nobody was listed: the message is queued.                               *)
MustWait(m) == ids[m] = {}

Deliver(m) ==
    /\ sent[m] = "asked"
    /\ sent' = [sent EXCEPT ![m] = "done"]
    /\ IF MustWait(m)
       THEN /\ queue' = queue \cup {m}
            /\ late' = late \cup {k \in {m} : listed # {}}
            /\ UNCHANGED got
       ELSE /\ got' = Hear(ids[m] \cap known, m)
            /\ UNCHANGED <<queue, late>>
    /\ UNCHANGED <<listed, expiring, known, client, phase, left, leaving, taken, ids, restarted,
                   expired>>

(***************************************************************************)
(* Time and failure: the list lives a day from the last connection, the    *)
(* queue three; a restart ends every connection and every handler.         *)
(***************************************************************************)
ListExpires ==
    /\ listed # {}
    /\ listed' = {}
    /\ UNCHANGED <<queue, expiring, known, client, phase, left, leaving, taken, sent, ids, got,
                   restarted, expired, late>>

QueueExpires ==
    /\ expiring
    /\ expired' = expired \cup queue
    /\ queue' = {}
    /\ expiring' = FALSE
    /\ UNCHANGED <<listed, known, client, phase, left, leaving, taken, sent, ids, got, restarted,
                   late>>

Restart ==
    /\ ~restarted
    /\ restarted' = TRUE
    /\ known' = {}
    /\ client' = [s \in Sockets |-> IF client[s] = "open" THEN "gone" ELSE client[s]]
    /\ phase' = [s \in Sockets |-> IF phase[s] = "none" THEN "none" ELSE "ended"]
    /\ left' = [s \in Sockets |-> {}]
    /\ leaving' = [s \in Sockets |-> "no"]
    /\ taken' = [s \in Sockets |-> {}]
    /\ sent' = [m \in Messages |-> IF sent[m] = "asked" THEN "lost" ELSE sent[m]]
    /\ UNCHANGED <<listed, queue, expiring, ids, got, expired, late>>

ChatNext ==
    \/ \E s \in Sockets :
          \/ Connect(s) \/ StartTelling(s) \/ TellingDone(s)
          \/ \E m \in Messages : Tell(s, m)
          \/ ClientCloses(s) \/ Disconnect(s) \/ Remove(s)
    \/ \E m \in Messages : Send(m) \/ Deliver(m)
    \/ ListExpires \/ QueueExpires \/ Restart

ChatSpec == ChatInit /\ [][ChatNext]_chatVars

(***************************************************************************)
(* Properties                                                              *)
(***************************************************************************)
(* Redis, the process and the connections hold what they are meant to.     *)
ChatTypeOK ==
    /\ listed \subseteq Sockets /\ known \subseteq Sockets
    /\ queue \subseteq Messages /\ expired \subseteq Messages /\ late \subseteq Messages
    /\ expiring \in BOOLEAN /\ restarted \in BOOLEAN
    /\ client \in [Sockets -> {"new", "open", "gone"}]
    /\ phase \in [Sockets -> {"none", "connecting", "telling", "up", "ended"}]
    /\ left \in [Sockets -> SUBSET Messages] /\ taken \in [Sockets -> SUBSET Sockets]
    /\ leaving \in [Sockets -> {"no", "asked", "done"}]
    /\ sent \in [Messages -> {"none", "asked", "done", "lost"}]
    /\ ids \in [Messages -> SUBSET Sockets]
    /\ got \in [Sockets -> SUBSET Messages]

(* No message that was sent disappears: it was received on a connection of *)
(* the user or waits in the queue, unless the queue ran out of time or     *)
(* some connection had ended, and with it the emission or the socket.      *)
NoneDisappears ==
    \A m \in Messages : sent[m] = "done" =>
        \/ m \in queue \cup expired
        \/ \E s \in Sockets : m \in got[s]
        \/ \E s \in Sockets : client[s] = "gone"

(* Until the process restarts, a listed id is a socket that is open or     *)
(* whose end is being worked on: only a restart leaves ids that swallow    *)
(* messages, until the list expires.                                       *)
DeadIdsAfterRestart ==
    ~restarted => \A s \in listed : phase[s] # "none" /\ leaving[s] # "done"

(* A message only waits beside a listed socket that has been told all it   *)
(* is to be told when it was queued after that socket was listed, by a     *)
(* sender that had looked before.                                          *)
WaitsBesideSocket ==
    \A m \in queue, s \in listed : phase[s] = "up" => m \in late
=============================================================================
