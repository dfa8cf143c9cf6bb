----------------------------- MODULE Dashboard -----------------------------
(***************************************************************************)
(* How snapshots of the attendance dashboard travel: the RabbitMQ producer *)
(* of the application, the queue hr_app_queue, the consumer in the same    *)
(* process, and the socket gateway with the room of the tenant.            *)
(***************************************************************************)
EXTENDS Integers, Sequences, FiniteSets

CONSTANTS
  Client,    \* browsers with a socket
  MaxRetries,\* connectWithRetry gives up after that many attempts
  MaxQueue,  \* BOUND on the snapshots in the queue
  HasUrl     \* whether RABBITMQ_URL is set

\* The states of the producer besides the attempts 1 .. MaxRetries.
Off == 0

Up == MaxRetries + 1

Down == MaxRetries + 2

VARIABLES
  link,    \* the producer: the attempt it is at, Off, Up or Down
  queue,   \* hr_app_queue
  room,    \* the sockets in the room of the tenant
  screen   \* of the clients that were shown one, the last snapshot

dashboardVars == <<link, queue, room, screen>>

Boots == IF HasUrl THEN 1 ELSE Off

DashboardInit ==
  /\ link = Boots
  /\ queue = << >>
  /\ room = {}
  /\ screen = << >>

\* onModuleInit is awaited before the server listens.
Listening == link \notin 1 .. MaxRetries

-----------------------------------------------------------------------------
\* The broker answers.
Connect ==
  /\ ~Listening
  /\ link' = Up
  /\ UNCHANGED <<queue, room, screen>>

\* It does not: the next attempt, or "producer unavailable" for good.
ConnectFails ==
  /\ ~Listening
  /\ link' = IF link < MaxRetries THEN link + 1 ELSE Down
  /\ UNCHANGED <<queue, room, screen>>

\* emit, which drops the snapshot when there is no connection.
Emit(snapshot) ==
  /\ queue' = IF link = Up THEN Append(queue, snapshot) ELSE queue
  /\ UNCHANGED <<link, room, screen>>

\* emitDashboardUpdate: the sockets in the room receive the snapshot.
Shown(snapshot) ==
  [c \in DOMAIN screen \cup room |-> IF c \in room THEN snapshot ELSE screen[c]]

\* Mutant: the consumer takes the newest message first.
HandleNewest ==
  /\ Listening
  /\ queue # << >>
  /\ screen' = Shown(queue[Len(queue)])
  /\ queue' = SubSeq(queue, 1, Len(queue) - 1)
  /\ UNCHANGED <<link, room>>

\* handleDashboardUpdate, which forwards to emitDashboardUpdate.
HandleDashboardUpdate ==
  /\ Listening
  /\ queue # << >>
  /\ screen' = Shown(Head(queue))
  /\ queue' = Tail(queue)
  /\ UNCHANGED <<link, room>>

\* join-tenant
JoinTenant(c) ==
  /\ Listening
  /\ c \notin room
  /\ room' = room \cup {c}
  /\ UNCHANGED <<link, queue, screen>>

\* leave-tenant, or the socket is closed.
LeaveTenant(c) ==
  /\ c \in room
  /\ room' = room \ {c}
  /\ UNCHANGED <<link, queue, screen>>

\* The process stops and starts again; the queue is the broker's.
Reboot ==
  /\ link' = Boots
  /\ room' = {}
  /\ UNCHANGED <<queue, screen>>
=============================================================================
