------------------------------- MODULE WsClient -------------------------------
(***************************************************************************)
(* One WebSocket connection (internal/ws): the goroutine that reads from   *)
(* it, the goroutine that writes to it, and the hub that fills its queue.  *)
(* Both goroutines close the client when they end.  Close tests a channel  *)
(* before it closes it, and closing it twice is a panic.                   *)
(*                                                                         *)
(* Time passes in ticks.  A goroutine that can go on does so before the    *)
(* next tick, except that messages may wait for the writer.                *)
(***************************************************************************)
EXTENDS Integers

CONSTANTS
  SendCapacity, \* of the queue: 256 in the code
  PingPeriod,   \* of the writer's ticker: 30 s
  PongWait,     \* how long the reader waits for a pong: 60 s
  WriteWait,    \* how long a write may take: 10 s
  AnswerTime    \* how long a client may take to answer a ping (not part of the code)

ClientParameters ==
  /\ {SendCapacity, PingPeriod, PongWait, WriteWait} \subseteq Nat \ {0}
  /\ AnswerTime \in Nat

ASSUME ClientAssumption == ClientParameters

VARIABLES
  peer,       \* the other end: "up", "left" (it has closed the connection) or
              \* "silent" (it is gone and has not said so)
  conn,       \* is this end of the connection open?
  closed,     \* is the channel c.closed closed?
  registered, \* is the client in hub.clients?
  send,       \* how many messages wait in c.send
  pc,         \* where the goroutines "reader" and "writer" stand
  deadline,   \* ticks until the reader gives up
  pingTicker, \* ticks until the writer's ticker fires
  due,        \* has it fired, and not been noticed?
  patience,   \* ticks left for the write under way
  answer      \* ticks left for the client's answer; NoAnswer if none is expected

link == <<peer, conn, closed, registered, send>>
times == <<deadline, pingTicker, due, patience, answer>>
clientVars == <<link, pc, times>>

NoAnswer == AnswerTime + 1

ClientInit ==
  /\ peer = "up" /\ conn = FALSE /\ closed = FALSE /\ registered = FALSE
  /\ send = 0
  /\ pc = [reader |-> "none", writer |-> "none"]
  /\ deadline = PongWait /\ pingTicker = PingPeriod /\ due = FALSE
  /\ patience = WriteWait /\ answer = NoAnswer

Goto(g, from, to) == pc[g] = from /\ pc' = [pc EXCEPT ![g] = to]

\* A panic of the writer ends the process; the HTTP server, on whose goroutine
\* the reader runs, survives one.
ProcessUp == pc.writer # "panic"

------------------------------------------------------------------------------
\* ServeWS: the client is registered, and both loops start.
ServeWS ==
  /\ pc.reader = "none"
  /\ pc' = [reader |-> "read", writer |-> "select"]
  /\ conn' = TRUE /\ registered' = TRUE
  /\ UNCHANGED <<peer, closed, send, times>>

\* A full queue drops the message.
Enqueue ==
  /\ send' = IF send < SendCapacity THEN send + 1 ELSE send
  /\ UNCHANGED <<peer, conn, closed, registered, pc, times>>

\* Publish, Broadcast
HubSends == registered /\ Enqueue

\* HandleMessage answers a message it does not understand through the same
\* queue.  (Subscriptions are the subject of DepthFeed.)
Reply == pc.reader = "read" /\ conn /\ peer = "up" /\ Enqueue

------------------------------------------------------------------------------
\* Close, called by goroutine g, which then goes on to `next'.

\* Faulty variant: only the reader, which connected, unregisters the client.
CloseByReader(g, next) ==
  /\ \/ /\ Goto(g, "test", IF closed THEN next ELSE "close")
        /\ UNCHANGED <<closed, registered>>
     \/ /\ Goto(g, "close", IF closed THEN "panic" ELSE IF g = "reader" THEN "unregister" ELSE next)
        /\ closed' = TRUE /\ UNCHANGED registered
     \/ /\ Goto(g, "unregister", next)
        /\ registered' = FALSE /\ UNCHANGED closed
  /\ UNCHANGED <<peer, conn, send, times>>

Close(g, next) ==
  /\ \/ /\ Goto(g, "test", IF closed THEN next ELSE "close")
        /\ UNCHANGED <<closed, registered>>
     \/ /\ Goto(g, "close", IF closed THEN "panic" ELSE "unregister")
        /\ closed' = TRUE /\ UNCHANGED registered
     \/ /\ Goto(g, "unregister", next)
        /\ registered' = FALSE /\ UNCHANGED closed
  /\ UNCHANGED <<peer, conn, send, times>>

HangUp(g, next) ==
  /\ Goto(g, "hangup", next)
  /\ conn' = FALSE
  /\ UNCHANGED <<peer, closed, registered, send, times>>

------------------------------------------------------------------------------
\* readLoop

\* Faulty variant: the deadline is set once.
PongUnheard ==
  /\ peer = "up" /\ answer # NoAnswer
  /\ answer' = NoAnswer
  /\ UNCHANGED <<link, pc, deadline, pingTicker, due, patience>>

\* The client answers a ping, which moves the deadline.
Pong ==
  /\ peer = "up" /\ answer # NoAnswer
  /\ answer' = NoAnswer
  /\ deadline' = PongWait
  /\ UNCHANGED <<link, pc, pingTicker, due, patience>>

\* Faulty variant: the reader has no deadline.
UnreadableAtOnce == peer = "left" \/ ~conn

\* The client has left, or the writer has hung up, or it has been quiet too long.
Unreadable == peer = "left" \/ ~conn \/ deadline = 0

ReadFails == Unreadable /\ Goto("reader", "read", "hangup") /\ UNCHANGED <<link, times>>

\* The connection is closed before the client is; then the handler returns.
Reader == ReadFails \/ HangUp("reader", "test") \/ Close("reader", "done")

------------------------------------------------------------------------------
\* writeLoop: select takes any of the cases that are ready.

SeesClosed == closed /\ Goto("writer", "select", "test") /\ UNCHANGED <<link, times>>

TakeMessage ==
  /\ send > 0 /\ send' = send - 1
  /\ Goto("writer", "select", "write")
  /\ patience' = WriteWait
  /\ UNCHANGED <<peer, conn, closed, registered, deadline, pingTicker, due, answer>>

\* A ping.  If the client still owes an answer, it owes no second one.
TakePing ==
  /\ due /\ due' = FALSE
  /\ Goto("writer", "select", "write")
  /\ patience' = WriteWait
  /\ answer' = IF answer = NoAnswer THEN AnswerTime ELSE answer
  /\ UNCHANGED <<link, deadline, pingTicker>>

\* What nobody reads is taken by buffers for some time, until a write waits.
Unwritable == ~conn \/ peer = "left" \/ (peer = "silent" /\ patience = 0)

WriteDone == conn /\ Goto("writer", "write", "select") /\ UNCHANGED <<link, times>>
WriteFails == Unwritable /\ Goto("writer", "write", "test") /\ UNCHANGED <<link, times>>

\* Here the client is closed before the connection is.
Writer == WriteDone \/ WriteFails \/ Close("writer", "hangup") \/ HangUp("writer", "done")

------------------------------------------------------------------------------
\* The other end goes away.
Leave ==
  /\ peer = "up" /\ peer' \in {"left", "silent"}
  /\ UNCHANGED <<conn, closed, registered, send, pc, times>>

\* A client that is up reads at once and answers pings in time.
Settled ==
  /\ pc.reader \in {"read", "done", "panic"} /\ pc.writer \in {"select", "write", "done"}
  /\ pc.reader = "read" => ~Unreadable
  /\ pc.writer = "select" => ~closed /\ ~due
  /\ pc.writer = "write" => peer = "silent" /\ patience > 0 /\ conn
  /\ peer = "up" => answer > 0

Less(n) == IF n > 0 THEN n - 1 ELSE 0

\* Time passes.  The ticker belongs to the writer.
TimePasses ==
  /\ Settled
  /\ deadline' = Less(deadline) /\ patience' = Less(patience)
  /\ answer' = IF answer = NoAnswer THEN NoAnswer ELSE Less(answer)
  /\ pingTicker' = IF pingTicker = 1 THEN PingPeriod ELSE pingTicker - 1
  /\ due' = (due \/ (pingTicker = 1 /\ pc.writer # "done"))
  /\ UNCHANGED <<link, pc>>

------------------------------------------------------------------------------
Hub    == ServeWS \/ HubSends \/ Reply
Client == Pong \/ Leave
Select == SeesClosed \/ TakeMessage \/ TakePing

ClientNext == ProcessUp /\ (Hub \/ Client \/ Reader \/ Select \/ Writer \/ TimePasses)

ClientSpec == ClientInit /\ [][ClientNext]_clientVars

\* Goroutines and the clock keep running.  select takes a ready case at random,
\* so none is passed over for ever.
ClientFairSpec ==
  /\ ClientSpec
  /\ WF_clientVars(ProcessUp /\ Reader) /\ WF_clientVars(ProcessUp /\ Writer)
  /\ SF_clientVars(ProcessUp /\ SeesClosed) /\ SF_clientVars(ProcessUp /\ TakePing)
  /\ SF_clientVars(ProcessUp /\ TimePasses)

------------------------------------------------------------------------------
(***************************************************************************)
(* Properties                                                              *)
(***************************************************************************)

ClientTypeOK ==
  /\ peer \in {"up", "left", "silent"}
  /\ {conn, closed, registered, due} \subseteq BOOLEAN
  /\ send \in 0 .. SendCapacity
  /\ pc \in [reader: {"none", "read", "hangup", "test", "close", "unregister", "done", "panic"},
             writer: {"none", "select", "write", "test", "close", "unregister", "hangup",
                      "done", "panic"}]
  /\ deadline \in 0 .. PongWait /\ pingTicker \in 1 .. PingPeriod
  /\ patience \in 0 .. WriteWait /\ answer \in 0 .. NoAnswer

\* A client that reads and answers pings is never dropped: pings go out often
\* enough for the reader's deadline, and a full queue costs messages only.
AliveStays ==
  peer = "up" /\ pc.reader # "none" => pc.reader = "read" /\ registered /\ ~closed

\* When both goroutines have ended, in whatever order they came to close the
\* client and even if that made the reader panic, the hub has let go of it.
NoLeak ==
  pc.reader \in {"done", "panic"} /\ pc.writer = "done" => ~registered /\ ~conn

\* A client that has left, or is gone without a word, leaves the hub some day,
\* and nothing keeps the goroutines of its connection.
GoneLeaves ==
  peer # "up" /\ pc.reader # "none" ~>
    ~ProcessUp \/ (pc.reader \in {"done", "panic"} /\ pc.writer = "done")

------------------------------------------------------------------------------
(***************************************************************************)
(* Statements of the repository that the code does not keep (see README).  *)
(***************************************************************************)

\* The test in Close: a client is closed once, whoever closes it.
ClosedOnce == pc.reader # "panic" /\ pc.writer # "panic"
===============================================================================
