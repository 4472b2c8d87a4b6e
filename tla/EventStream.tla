---------------------------- MODULE EventStream ----------------------------
(***************************************************************************)
(* The BFF's live updates: Poller asks the control plane for the statuses  *)
(* of runs and builds and tells Hub of each change; Hub fans an event out  *)
(* to one buffered channel a client; Handler.Events copies a channel to    *)
(* its client until the client leaves or the hub is closed.                *)
(*                                                                         *)
(* One action is one critical section, one channel operation or one call   *)
(* to the control plane; the goroutines interleave between them. A send on *)
(* a closed channel, or a second close, panics in a goroutine nobody       *)
(* recovers: the process is gone, and with it all of this state, which is  *)
(* only in memory (a new process starts over).                              *)
(*                                                                         *)
(* An event is the item and the status it announces; Beat is the           *)
(* heartbeat. Statuses are 0 (not created), 1 (QUEUED, PENDING), 2         *)
(* (RUNNING, BUILDING) and 3 (an end). Left out: RetryBuild, which takes   *)
(* an artifact of status 3 back to 1; here a status only moves on.         *)
(***************************************************************************)
EXTENDS Naturals, Sequences, FiniteSets

LOCAL INSTANCE Functions

CONSTANTS
  NRuns,         \* runs of the control plane, numbered in order of creation
  NBuilds,       \* artifacts of its recent suites
  RecentLimit,   \* how many runs the "recent" list holds (20 in the code)
  Clients,       \* one per call of Handler.Events
  BufferSize,    \* Hub.bufferSize
  MaxChanges     \* bound: how many changes of status happen

ASSUME StreamAssumption ==
  /\ NRuns \in Nat /\ NBuilds \in Nat /\ RecentLimit \in Nat
  /\ BufferSize \in Nat \ {0} /\ MaxChanges \in Nat

Runs   == 1 .. NRuns
Builds == (NRuns + 1) .. (NRuns + NBuilds)
Items  == Runs \cup Builds
Status == 0 .. 3
Beat   == [item |-> 0, status |-> 0]
Event  == [item : Items, status : Status \ {0}] \cup {Beat}

VARIABLES
  status,    \* the control plane's word on each item
  last,      \* Poller.lastRunStatus and lastBuildStatus, 0 when absent
  poller,    \* [pc, seen, event, targets]
  subs,      \* Hub.subscribers
  client,    \* per client: [pc, once, unsub, open, buf, view, lost]
  closer,    \* [pc, subs]: Hub.Close, called by main on shutdown
  panicked   \* "no", or what the process died of

svars == <<status, last, poller, subs, client, closer, panicked>>

\* pc: away, reading, gone (the handler returned), refused.
\* once: sync.Once, free, running or done.
\* unsub: where unsubscribe is: no, stopping (stopCh closed), removed.
\* view: the status last received of each item; lost: an event was dropped.
\* The last two are history, kept while the client reads.
NewClient == [pc |-> "away", once |-> "free", unsub |-> "no", open |-> FALSE,
              buf |-> <<>>, view |-> [i \in Items |-> 0], lost |-> FALSE]

Unseen == [i \in Items |-> 0]
Idle   == [pc |-> "idle", seen |-> Unseen, event |-> Beat, targets |-> {}]

StreamInit ==
  /\ status = [i \in Items |-> 0]
  /\ last = [i \in Items |-> 0]
  /\ poller = Idle
  /\ subs = {}
  /\ client = [c \in Clients |-> NewClient]
  /\ closer = [pc |-> "up", subs |-> {}]
  /\ panicked = "no"

Alive  == panicked = "no"
closed == closer.pc # "up"                                    \* Hub.closed

\* Hub.mu, where it is held across steps: while Close takes its snapshot.
\* Mutant: Close keeps it (defer h.mu.Unlock()) while it closes the channels.
LockHeldThroughClose == closer.pc \in {"locked", "closing"}
LockHeld == closer.pc = "locked"

-----------------------------------------------------------------------------
(* The control plane                                                       *)

Advance(i) ==
  /\ Alive /\ ~closed             \* later changes have no one to be told
  /\ status[i] < 3 /\ FoldFunction(+, 0, status) < MaxChanges
  /\ i \in Runs /\ i > 1 => status[i - 1] > 0
  /\ status' = [status EXCEPT ![i] = @ + 1]
  /\ UNCHANGED <<last, poller, subs, client, closer, panicked>>

Lists == {"running", "queued", "recent"}

\* What ListRuns answers, by status or the newest.
Listed(list) ==
  CASE list = "running" -> {r \in Runs : status[r] = 2}
    [] list = "queued"  -> {r \in Runs : status[r] = 1}
    [] list = "recent"  ->
         {r \in Runs : status[r] > 0 /\
            Cardinality({q \in Runs : q > r /\ status[q] > 0}) < RecentLimit}

-----------------------------------------------------------------------------
(* Poller: one goroutine                                                   *)

PollStep(from, next) ==
  Alive /\ poller.pc = from /\ poller' = next /\
  UNCHANGED <<status, subs, client, closer, panicked>>

\* PollOnce's three ListRuns, one after the other: one that fails is skipped.
\* They are one step: a change between two of them reads as one that came
\* after, or as a call that failed.
ListRuns(answered) ==
  /\ ~closed
  /\ PollStep("idle",
       [Idle EXCEPT !.pc = "runs",
                    !.seen = [i \in Items |->
                       IF \E list \in answered : i \in Listed(list)
                       THEN status[i] ELSE 0]])
  /\ UNCHANGED last

Changed(i) == poller.seen[i] # 0 /\ poller.seen[i] # last[i]

\* A change is recorded, then handed to Broadcast, whose error is dropped.
\* Broadcast's snapshot of the subscribers is taken under the lock.
Announce(phase, sending, i) ==
  /\ ~LockHeld
  /\ Changed(i)
  /\ PollStep(phase, [poller EXCEPT !.pc = sending,
                        !.event = [item |-> i, status |-> poller.seen[i]],
                        !.seen[i] = 0,
                        !.targets = IF closed THEN {} ELSE subs])
  /\ last' = [last EXCEPT ![i] = poller.seen[i]]

RunsDone ==
  /\ \A i \in Runs : ~Changed(i)
  /\ PollStep("runs", [Idle EXCEPT !.pc = "suites"])
  /\ UNCHANGED last

\* ListRecentSuites and ListArtifacts of each suite.
ListArtifacts(ok) ==
  /\ PollStep("suites",
       [poller EXCEPT !.pc = "builds",
                      !.seen = [i \in Items |->
                         IF i \in Builds /\ ok THEN status[i] ELSE 0]])
  /\ UNCHANGED last

BuildsDone ==
  /\ \A i \in Builds : ~Changed(i)
  /\ PollStep("builds", Idle)
  /\ UNCHANGED last

\* EmitHeartbeat.
Heartbeat ==
  /\ ~closed
  /\ PollStep("idle", [Idle EXCEPT !.pc = "beat send", !.targets = subs])
  /\ UNCHANGED last

PollerStops == /\ closed
               /\ PollStep("idle", [Idle EXCEPT !.pc = "stopped"])
               /\ UNCHANGED last

-----------------------------------------------------------------------------
(* Hub.Broadcast: one non-blocking send a subscriber, outside the lock     *)

SendPhase == [p \in {"runs send", "builds send", "beat send"} |->
                CASE p = "runs send"   -> "runs"
                  [] p = "builds send" -> "builds"
                  [] p = "beat send"   -> "idle"]

\* Mutant: room for one more than the channel was made with.
HasRoomOffByOne(c) == Len(client[c].buf) <= BufferSize
HasRoom(c)         == Len(client[c].buf) < BufferSize

\* What is left to send to after c.
\* Mutant: the loop ends at the first client that is too slow.
RemainingUntilDrop(c) == IF HasRoom(c) THEN poller.targets \ {c} ELSE {}
Remaining(c)          == poller.targets \ {c}

\* (What is in the channel of a client that is gone, nobody will know.)
Delivered(c) ==
  IF client[c].pc = "gone" THEN client[c]
  ELSE IF HasRoom(c) THEN [client[c] EXCEPT !.buf = Append(@, poller.event)]
  ELSE [client[c] EXCEPT !.lost = TRUE, !.view = Unseen]

Send(c) ==
  /\ Alive /\ poller.pc \in DOMAIN SendPhase /\ c \in poller.targets
  /\ IF client[c].open
     THEN /\ client' = [client EXCEPT ![c] = Delivered(c)]
          /\ poller' = [poller EXCEPT !.targets = Remaining(c)]
          /\ UNCHANGED panicked
     ELSE /\ panicked' = "send on closed channel"
          /\ UNCHANGED <<client, poller>>
  /\ UNCHANGED <<status, last, subs, closer>>

Broadcasted ==
  /\ poller.targets = {}
  /\ \E p \in DOMAIN SendPhase :
       PollStep(p, [poller EXCEPT !.pc = SendPhase[p], !.event = Beat])
  /\ UNCHANGED last

-----------------------------------------------------------------------------
(* Hub.Subscribe and Handler.Events: one goroutine a client                *)

ClientStep(c, from, next) ==
  Alive /\ client[c].pc \in from /\ client' = [client EXCEPT ![c] = next] /\
  UNCHANGED <<status, last, poller, closer, panicked>>

\* Refused once the hub is closed.
Subscribe(c) ==
  /\ ~LockHeld
  /\ IF closed
     THEN /\ ClientStep(c, {"away"}, [client[c] EXCEPT !.pc = "refused"])
          /\ UNCHANGED subs
     ELSE /\ ClientStep(c, {"away"}, [client[c] EXCEPT !.pc = "reading",
                                        !.open = TRUE, !.view = last])
          /\ subs' = subs \cup {c}

Receive(c) ==
  /\ client[c].buf # <<>>
  /\ LET ev == Head(client[c].buf)
     IN ClientStep(c, {"reading"},
          [client[c] EXCEPT !.buf = Tail(@),
             !.view = IF ev = Beat \/ client[c].lost THEN @
                      ELSE [@ EXCEPT ![ev.item] = ev.status]])
  /\ UNCHANGED subs

Return(c) ==
  /\ ClientStep(c, {"reading"},
       [NewClient EXCEPT !.pc = "gone", !.once = client[c].once,
                         !.open = client[c].open])
  /\ UNCHANGED subs

\* The client disconnects, or a write to it fails: the request's context is
\* done, and the loop ends (a few events later, if select likes them better).
Depart(c) == Return(c)

\* The loop ends on a channel closed and drained.
ChannelClosed(c) == ~client[c].open /\ client[c].buf = <<>> /\ Return(c)

\* unsubscribe, by the goroutine Subscribe started or by the handler's defer:
\* sub.once lets one of them in.
Unsubscribe(c) ==
  /\ client[c].once = "free"
  /\ ClientStep(c, {"gone"}, [client[c] EXCEPT !.once = "running",
                                               !.unsub = "stopping"])
  /\ UNCHANGED subs

\* Mutant: the channel is closed and the entry stays.
RemoveNothing(c) ==
  /\ client[c].unsub = "stopping" /\ ~LockHeld
  /\ ClientStep(c, {"gone"}, [client[c] EXCEPT !.unsub = "removed"])
  /\ UNCHANGED subs
Remove(c) ==
  /\ client[c].unsub = "stopping" /\ ~LockHeld
  /\ ClientStep(c, {"gone"}, [client[c] EXCEPT !.unsub = "removed"])
  /\ subs' = subs \ {c}

\* close(sub.ch), by the holder of sub.once.
CloseChannel(c, unsub) ==
  /\ client' = [client EXCEPT ![c].once = "done", ![c].unsub = unsub,
                               ![c].open = FALSE]
  /\ panicked' = IF client[c].open THEN "no" ELSE "close of closed channel"

Unsubscribed(c) ==
  /\ Alive /\ client[c].unsub = "removed"
  /\ CloseChannel(c, "no")
  /\ UNCHANGED <<status, last, poller, subs, closer>>

-----------------------------------------------------------------------------
(* Hub.Close                                                               *)

CloseStarts ==
  /\ Alive /\ closer.pc = "up"
  /\ closer' = [pc |-> "locked", subs |-> subs]
  /\ subs' = {}
  /\ UNCHANGED <<status, last, poller, client, panicked>>

CloseUnlocks ==
  /\ Alive /\ closer.pc = "locked"
  /\ closer' = [closer EXCEPT !.pc = "closing"]
  /\ UNCHANGED <<status, last, poller, subs, client, panicked>>

\* sub.once.Do: runs the function, returns when it has run, and waits while
\* unsubscribe is running it.
\* Mutant: a flag the function sets when it ends, instead of sync.Once.
NotYetClosed(c) == client[c].once # "done"
MayClose(c)     == client[c].once = "free"

CloseSubscriber(c) ==
  /\ Alive /\ closer.pc = "closing" /\ c \in closer.subs
  /\ \/ MayClose(c) /\ CloseChannel(c, client[c].unsub)
     \/ client[c].once = "done" /\ UNCHANGED <<client, panicked>>
  /\ closer' = [closer EXCEPT !.subs = @ \ {c}]
  /\ UNCHANGED <<status, last, poller, subs>>

CloseReturns ==
  /\ Alive /\ closer.pc = "closing" /\ closer.subs = {}
  /\ closer' = [closer EXCEPT !.pc = "done"]
  /\ UNCHANGED <<status, last, poller, subs, client, panicked>>

-----------------------------------------------------------------------------
PollerNext ==
  \/ RunsDone \/ BuildsDone \/ Heartbeat \/ PollerStops \/ Broadcasted
  \/ \E answered \in SUBSET Lists : ListRuns(answered)
  \/ \E i \in Runs : Announce("runs", "runs send", i)
  \/ \E i \in Builds : Announce("builds", "builds send", i)
  \/ \E ok \in BOOLEAN : ListArtifacts(ok)
  \/ \E c \in Clients : Send(c)

CloserNext == \/ CloseUnlocks \/ CloseReturns
              \/ \E c \in Clients : CloseSubscriber(c)

Handler(c)   == Receive(c) \/ ChannelClosed(c)
Unwinding(c) == Unsubscribe(c) \/ Remove(c) \/ Unsubscribed(c)

StreamNext ==
  \/ \E i \in Items : Advance(i)
  \/ PollerNext \/ CloseStarts \/ CloserNext
  \/ \E c \in Clients :
       Subscribe(c) \/ Depart(c) \/ Handler(c) \/ Unwinding(c)

\* The runtime schedules every goroutine that can run. Nothing is owed by the
\* control plane, by a client that might come or leave, nor by the shutdown.
StreamFairness ==
  /\ \A c \in Clients : WF_svars(Handler(c)) /\ WF_svars(Unwinding(c))
  /\ WF_svars(CloserNext)

StreamSpec == StreamInit /\ [][StreamNext]_svars /\ StreamFairness

-----------------------------------------------------------------------------
(* Properties                                                              *)

\* Every field has its type; a channel never holds more than it was made for.
StreamTypeOK ==
  /\ status \in [Items -> Status] /\ last \in [Items -> Status]
  /\ poller.pc \in {"idle", "stopped", "runs", "suites", "builds"}
                   \cup DOMAIN SendPhase
  /\ poller.seen \in [Items -> Status] /\ poller.event \in Event
  /\ poller.targets \subseteq Clients /\ subs \subseteq Clients
  /\ \A c \in Clients :
       /\ client[c].pc \in {"away", "reading", "gone", "refused"}
       /\ client[c].once \in {"free", "running", "done"}
       /\ client[c].unsub \in {"no", "stopping", "removed"}
       /\ client[c].view \in [Items -> Status]
       /\ Len(client[c].buf) <= BufferSize
       /\ \A k \in 1 .. Len(client[c].buf) : client[c].buf[k] \in Event
  /\ closer.pc \in {"up", "locked", "closing", "done"}
  /\ closer.subs \subseteq Clients
  /\ panicked \in {"no", "send on closed channel", "close of closed channel"}

\* A client the hub can hand to a broadcast has an open channel: the entry goes
\* (under the lock) before the channel is closed, in unsubscribe and in Close.
RegisteredIsOpen ==
  \A c \in subs : client[c].open /\ client[c].unsub # "removed"

\* The client's goroutine, the handler's deferred call and Hub.Close may all
\* end one subscription: its channel is closed once (a second close panics).
ClosedOnce == panicked # "close of closed channel"

\* The statuses a client will have seen once it drained its channel and the
\* broadcast under way reached it.
Announced(c, i) ==
  LET inBuf == {k \in 1 .. Len(client[c].buf) :
                  client[c].buf[k].item = i}
  IN IF poller.event.item = i /\ c \in poller.targets THEN poller.event.status
     ELSE IF inBuf = {} THEN client[c].view[i]
     ELSE client[c].buf[CHOOSE k \in inBuf : \A m \in inBuf : m <= k].status

\* A connected client that was not too slow for its buffer misses no change the
\* poller saw since it subscribed, whatever the other clients do.
CurrentUnlessDropped ==
  Alive => \A c \in subs : client[c].pc = "reading" /\ ~client[c].lost =>
             \A i \in Items : Announced(c, i) = last[i]

\* A stream whose client left, or whose hub is being closed, ends: its handler
\* returns and the hub forgets it. (server.Shutdown waits for these handlers.)
EveryStreamEnds ==
  \A c \in Clients :
    (client[c].pc = "gone" \/ (client[c].pc = "reading" /\ closed))
      ~> ((client[c].pc = "gone" /\ c \notin subs /\ client[c].once = "done")
          \/ ~Alive)

\* Hub's fan-out is safe for the goroutines that use it at the same time: no
\* broadcast sends on the channel of a client that leaves meanwhile.
ThreadSafeFanOut == panicked # "send on closed channel"
=============================================================================
