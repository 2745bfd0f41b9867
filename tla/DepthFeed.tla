------------------------------- MODULE DepthFeed -------------------------------
(***************************************************************************)
(* From the event loop of one engine to the clients' screens: trades and   *)
(* depth snapshots of one pair (internal/market, internal/ws).             *)
(*                                                                         *)
(* The event loop itself publishes trades, and calls OnDepthChanged, which *)
(* must not ask the engine for anything: the snapshot is fetched by a      *)
(* goroutine of its own, a push, when the loop is free again.  Published   *)
(* messages are copied to every subscribed client's queue, which is full   *)
(* at some time; a writer per client empties it.                           *)
(*                                                                         *)
(* Of the book only the number of its changes is kept.                     *)
(***************************************************************************)
EXTENDS Integers, SequencesExt

CONSTANTS
  Clients,     \* WebSocket clients, each connected once
  Pushes,      \* bound: goroutines pushDepth may run in; the runs give it as
               \* many as can be alive at a time, so the loop never waits for one
  Capacity,    \* of a client's queue: 256 in the code
  Window,      \* 200 ms: the time between two pushes
  MaxChanges, MaxTime   \* bounds: changes of the book, end of the clock

FeedParameters == {Capacity, Window, MaxChanges, MaxTime} \subseteq Nat \ {0}

ASSUME FeedAssumption == FeedParameters

VARIABLES
  now,        \* the clock
  pushedAt,   \* depthPushAt: <<>>, or <<when the last push was started>>
  loop,       \* the event loop: "idle", "matching", "notify"
  book,       \* how often the book has changed
  announced,  \* history: the book at the latest call of OnDepthChanged
  seq,        \* Engine.seq
  push,       \* push -> where it stands, and the snapshot it has got
  late,       \* history: has a push still been running after Window?
  channels,   \* client -> the channels it has subscribed to
  queue,      \* client -> its messages, oldest first
  shown       \* client -> channel -> the last message written, 0 for none
feedVars == <<now, pushedAt, loop, book, announced, seq, push, late, channels, queue, shown>>

Channels == {"trade", "depth"}

FeedInit ==
  /\ now = 0 /\ pushedAt = <<>>
  /\ loop = "idle" /\ book = 0 /\ announced = 0 /\ seq = 0
  /\ push = [p \in Pushes |-> [at |-> "none", depth |-> 0]]
  /\ late = FALSE
  /\ channels = [c \in Clients |-> {}]
  /\ queue = [c \in Clients |-> <<>>]
  /\ shown = [c \in Clients |-> [ch \in Channels |-> 0]]

\* Faulty variant: the newest message goes first.
PublishInFront(channel, n) ==
  queue' = [c \in Clients |->
    IF channel \in channels[c] /\ Len(queue[c]) < Capacity
    THEN <<[channel |-> channel, n |-> n]>> \o queue[c] ELSE queue[c]]

\* A message with number n goes to whoever has subscribed; a client whose
\* queue is full misses it.
Publish(channel, n) ==
  queue' = [c \in Clients |->
    IF channel \in channels[c] /\ Len(queue[c]) < Capacity
    THEN Append(queue[c], [channel |-> channel, n |-> n]) ELSE queue[c]]

------------------------------------------------------------------------------
\* The engine's event loop.

Changes == book < MaxChanges /\ book' = book + 1

\* A trade of a submission, and OnTrade.
Trade ==
  /\ loop \in {"idle", "matching"}
  /\ Changes
  /\ seq' = seq + 1
  /\ Publish("trade", seq')
  /\ loop' = "matching"
  /\ UNCHANGED <<now, pushedAt, announced, push, channels, shown, late>>

\* The end of a submission with trades, whose rest may go into the book.
EndMatching ==
  /\ loop = "matching"
  /\ Changes \/ UNCHANGED book
  /\ loop' = "notify"
  /\ UNCHANGED <<now, pushedAt, announced, seq, push, channels, queue, shown, late>>

\* A submission without trades puts its order into the book, and ends.
RestUntouched ==
  /\ loop = "idle"
  /\ Changes
  /\ UNCHANGED <<now, pushedAt, loop, announced, seq, push, channels, queue, shown, late>>

Cancel ==
  /\ loop = "idle"
  /\ Changes
  /\ loop' = "notify"
  /\ UNCHANGED <<now, pushedAt, announced, seq, push, channels, queue, shown, late>>

Running(p) == push[p].at # "none"
Start(p) == ~Running(p) /\ push' = [push EXCEPT ![p].at = "fetch"]

Throttled == pushedAt # <<>> /\ now - pushedAt[1] < Window

\* Faulty variants: the event loop fetches the snapshot itself, and waits for
\* it; pushes follow each other as they come.
OnDepthChangedWaits ==
  /\ loop = "notify" /\ \A p \in Pushes : push[p].at # "fetch"
  /\ announced' = book
  /\ \/ Throttled /\ loop' = "idle" /\ UNCHANGED <<push, pushedAt>>
     \/ /\ ~Throttled
        /\ \E p \in Pushes : Start(p)
        /\ pushedAt' = <<now>> /\ UNCHANGED loop
  /\ UNCHANGED <<now, book, seq, channels, queue, shown, late>>

OnDepthChangedAlways ==
  /\ loop = "notify"
  /\ loop' = "idle"
  /\ announced' = book
  /\ \E p \in Pushes : Start(p)
  /\ pushedAt' = <<now>>
  /\ UNCHANGED <<now, book, seq, channels, queue, shown, late>>

\* A change too soon after a push is dropped.
OnDepthChanged ==
  /\ loop = "notify"
  /\ loop' = "idle"
  /\ announced' = book
  /\ \/ Throttled /\ UNCHANGED <<push, pushedAt>>
     \/ /\ ~Throttled
        /\ \E p \in Pushes : Start(p)
        /\ pushedAt' = <<now>>
  /\ UNCHANGED <<now, book, seq, channels, queue, shown, late>>

------------------------------------------------------------------------------
\* A push: the snapshot is made by the event loop, between two closures.

Fetch(p) ==
  /\ push[p].at = "fetch" /\ loop = "idle"
  /\ push' = [push EXCEPT ![p] = [at |-> "publish", depth |-> book]]
  /\ UNCHANGED <<now, pushedAt, loop, book, announced, seq, channels, queue, shown, late>>

PublishDepth(p) ==
  /\ push[p].at = "publish"
  /\ Publish("depth", push[p].depth)
  /\ push' = [push EXCEPT ![p].at = "none"]
  /\ UNCHANGED <<now, pushedAt, loop, book, announced, seq, channels, shown, late>>

------------------------------------------------------------------------------
\* Clients

HandleMessage(c, channel) ==
  /\ channels' = [channels EXCEPT ![c] =
       IF channel \in @ THEN @ \ {channel} ELSE @ \cup {channel}]
  /\ UNCHANGED <<now, pushedAt, loop, book, announced, seq, push, queue, shown, late>>

\* writeLoop
Write(c) ==
  /\ queue[c] # <<>>
  /\ queue' = [queue EXCEPT ![c] = Tail(@)]
  /\ shown' = [shown EXCEPT ![c][Head(queue[c]).channel] = Head(queue[c]).n]
  /\ UNCHANGED <<now, pushedAt, loop, book, announced, seq, push, channels, late>>

Tick ==
  /\ now < MaxTime /\ now' = now + 1
  /\ late' = (late \/ \E p \in Pushes : Running(p) /\ now' - pushedAt[1] >= Window)
  /\ UNCHANGED <<pushedAt, loop, book, announced, seq, push, channels, queue, shown>>

------------------------------------------------------------------------------
\* The event loop goes on with what it has begun.
Work == EndMatching \/ OnDepthChanged

FeedNext ==
  \/ Trade \/ RestUntouched \/ Cancel \/ Work
  \/ \E p \in Pushes : Fetch(p) \/ PublishDepth(p)
  \/ \E c \in Clients : Write(c) \/ \E channel \in Channels : HandleMessage(c, channel)
  \/ Tick

FeedSpec == FeedInit /\ [][FeedNext]_feedVars

\* Goroutines keep running.  A push waits for the event loop in a channel that
\* is served first come, first served.
FeedFairSpec ==
  /\ FeedSpec
  /\ WF_feedVars(Work)
  /\ \A p \in Pushes : SF_feedVars(Fetch(p)) /\ WF_feedVars(PublishDepth(p))

------------------------------------------------------------------------------
(***************************************************************************)
(* Properties                                                              *)
(***************************************************************************)

FeedTypeOK ==
  /\ now \in 0 .. MaxTime /\ seq \in 0 .. book /\ book \in 0 .. MaxChanges
  /\ pushedAt # <<>> => pushedAt[1] \in 0 .. now
  /\ loop \in {"idle", "matching", "notify"}
  /\ announced \in 0 .. book
  /\ push \in [Pushes -> [at: {"none", "fetch", "publish"}, depth: 0 .. book]]
  /\ late \in BOOLEAN
  /\ channels \in [Clients -> SUBSET Channels]
  /\ \A c \in Clients : Len(queue[c]) <= Capacity
  /\ shown \in [Clients -> [Channels -> 0 .. MaxChanges]]

\* Where messages of a channel wait for client c.
Waiting(c, channel) == {i \in DOMAIN queue[c] : queue[c][i].channel = channel}

\* Whatever a full queue or a change of subscription made a client miss, the
\* trades it gets come in the order in which they happened, none twice.
TradesInOrder ==
  \A c \in Clients : \A i \in Waiting(c, "trade") :
    /\ shown[c]["trade"] < queue[c][i].n
    /\ \A j \in Waiting(c, "trade") : i < j => queue[c][i].n < queue[c][j].n

\* As long as no push has taken longer than Window, a depth snapshot is never
\* followed by an older one: the throttle keeps pushes from overtaking.
DepthInOrder ==
  ~late => \A c \in Clients : \A i \in Waiting(c, "depth") :
    /\ shown[c]["depth"] <= queue[c][i].n
    /\ \A j \in Waiting(c, "depth") : i < j => queue[c][i].n <= queue[c][j].n

\* Every push gets its snapshot and ends.
PushesEnd == \A p \in Pushes : Running(p) ~> ~Running(p)

------------------------------------------------------------------------------
(***************************************************************************)
(* Statements of the repository that the code does not keep (see README).  *)
(***************************************************************************)

\* The listener is told of every change of the book.
ChangesAnnounced == loop = "idle" => announced = book
================================================================================
