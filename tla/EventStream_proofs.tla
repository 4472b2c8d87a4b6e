------------------------- MODULE EventStream_proofs -------------------------
(***************************************************************************)
(* Proofs about EventStream, for any runs, clients and buffers. Three      *)
(* goroutines may end one subscription (the one Subscribe started, the     *)
(* handler's deferred call and Hub.Close); the invariant says what         *)
(* sync.Once and the order "remove, then close" keep true between their    *)
(* steps. CurrentInv adds what is on its way to each client: the events in *)
(* its channel, read in order, end in the poller's last word.              *)
(***************************************************************************)
EXTENDS EventStream, TLAPS

Client == [pc: {"away", "reading", "gone", "refused"},
           once: {"free", "running", "done"},
           unsub: {"no", "stopping", "removed"},
           open: BOOLEAN, buf: Seq(Event), view: [Items -> Status],
           lost: BOOLEAN]
PollerState ==
  [pc: {"idle", "stopped", "runs", "suites", "builds", "runs send",
        "builds send", "beat send"},
   seen: [Items -> Status], event: Event, targets: SUBSET Clients]
Closer == [pc: {"up", "locked", "closing", "done"}, subs: SUBSET Clients]

HubTypes ==
  /\ client \in [Clients -> Client] /\ subs \subseteq Clients
  /\ closer \in Closer
PollTypes ==
  /\ status \in [Items -> Status] /\ last \in [Items -> Status]
  /\ poller \in PollerState

BufferBound == \A c \in Clients : Len(client[c].buf) <= BufferSize

\* unsubscribe runs inside sub.once, and after the handler returned; a channel
\* made by Subscribe stays open until the function of sub.once has run.
OnceGuards(c) ==
  /\ client[c].once = "running" <=> client[c].unsub # "no"
  /\ client[c].once = "running" => client[c].pc = "gone"
  /\ client[c].pc \in {"reading", "gone"} /\ client[c].once # "done"
       => client[c].open
  /\ client[c].pc \in {"away", "refused"} => client[c].once = "free"

\* An entry of the hub, or of Close's snapshot, is a subscription that was
\* made; the hub's own is not being closed.
EntryOK(c) ==
  /\ c \in subs \cup closer.subs => client[c].pc \in {"reading", "gone"}
  /\ c \in subs => client[c].once # "done" /\ client[c].unsub # "removed"

HubInv ==
  /\ HubTypes
  /\ \A c \in Clients : OnceGuards(c) /\ EntryOK(c)
  /\ closer.pc # "up" => subs = {}
  /\ panicked \in {"no", "send on closed channel"}

StreamInv == HubInv /\ PollTypes /\ BufferBound

-----------------------------------------------------------------------------
LEMMA ZeroIsStatus == 0 \in Status
BY DEF Status

LEMMA BeatIsEvent == Beat \in Event
BY DEF Event

LEMMA StreamInvInit == StreamInit => StreamInv
<1> SUFFICES ASSUME StreamInit PROVE StreamInv
  OBVIOUS
<1>1. NewClient \in Client /\ Idle \in PollerState
  BY BeatIsEvent DEF NewClient, Client, Idle, PollerState, Unseen, Status
<1>2. HubInv
  BY <1>1 DEF StreamInit, HubInv, HubTypes, Closer, OnceGuards, EntryOK, NewClient
<1>3. PollTypes
  BY <1>1 DEF StreamInit, PollTypes, Status
<1>4. BufferBound
  BY StreamAssumption DEF StreamInit, BufferBound, NewClient
<1>5. QED
  BY <1>2, <1>3, <1>4 DEF StreamInv

-----------------------------------------------------------------------------
(* The poller                                                              *)

\* A step of the poller alone: the hub is as it was.
LEMMA PollerAlone ==
  ASSUME StreamInv, UNCHANGED <<subs, client, closer, panicked>>, PollTypes'
  PROVE  StreamInv'
BY DEF StreamInv, HubInv, HubTypes, BufferBound, OnceGuards, EntryOK

LEMMA PollStepInv ==
  ASSUME StreamInv, NEW from, NEW next \in PollerState, PollStep(from, next),
         last' \in [Items -> Status]
  PROVE  StreamInv'
BY PollerAlone DEF PollStep, StreamInv, PollTypes

LEMMA AdvanceInv == ASSUME StreamInv, NEW i \in Items, Advance(i) PROVE StreamInv'
<1>1. status \in [Items -> Status] /\ status[i] < 3
  BY DEF Advance, StreamInv, PollTypes
<1>2. status' = [status EXCEPT ![i] = status[i] + 1]
  BY DEF Advance
<1>3. status[i] + 1 \in Status
  BY <1>1 DEF Status
<1>4. status' \in [Items -> Status]
  BY <1>1, <1>2, <1>3
<1>5. UNCHANGED <<last, poller, subs, client, closer, panicked>>
  BY DEF Advance
<1>6. QED
  BY <1>4, <1>5, PollerAlone DEF StreamInv, PollTypes

LEMMA ListRunsInv ==
  ASSUME StreamInv, NEW answered \in SUBSET Lists, ListRuns(answered)
  PROVE  StreamInv'
<1> DEFINE seen == [i \in Items |-> IF \E list \in answered : i \in Listed(list)
                                   THEN status[i] ELSE 0]
           next == [Idle EXCEPT !.pc = "runs", !.seen = seen]
<1>1. seen \in [Items -> Status]
  BY DEF StreamInv, PollTypes, Status
<1>2. next \in PollerState
  BY <1>1, BeatIsEvent DEF Idle, PollerState
<1>3. PollStep("idle", next) /\ last' = last
  BY DEF ListRuns
<1> HIDE DEF next
<1>4. QED
  BY <1>2, <1>3, PollStepInv DEF StreamInv, PollTypes

LEMMA AnnounceInv ==
  ASSUME StreamInv, NEW i \in Items,
         NEW phase, NEW sending \in {"runs send", "builds send"},
         Announce(phase, sending, i)
  PROVE  StreamInv'
<1> DEFINE next == [poller EXCEPT !.pc = sending,
                      !.event = [item |-> i, status |-> poller.seen[i]],
                      !.seen[i] = 0,
                      !.targets = IF closed THEN {} ELSE subs]
<1> HIDE DEF next
<1>1. poller \in PollerState /\ poller.seen[i] \in Status \ {0} /\ subs \subseteq Clients
  BY DEF Announce, Changed, StreamInv, PollTypes, HubInv, HubTypes, PollerState
<1>2. [item |-> i, status |-> poller.seen[i]] \in Event
  BY <1>1 DEF Event
<1>3. [poller.seen EXCEPT ![i] = 0] \in [Items -> Status]
  <2>1. poller.seen \in [Items -> Status]
    BY <1>1 DEF PollerState
  <2>2. QED
    BY <2>1, ZeroIsStatus
<1>4. (IF closed THEN {} ELSE subs) \subseteq Clients
  BY <1>1
<1>5. next \in PollerState
  BY <1>1, <1>2, <1>3, <1>4 DEF next, PollerState
<1>6. PollStep(phase, next) /\ last' = [last EXCEPT ![i] = poller.seen[i]]
  BY DEF Announce, next
<1>7. last' \in [Items -> Status]
  BY <1>1, <1>6 DEF StreamInv, PollTypes
<1>8. QED
  BY <1>5, <1>6, <1>7, PollStepInv

LEMMA PhaseInv ==
  ASSUME StreamInv,
         \/ RunsDone \/ BuildsDone \/ Heartbeat \/ PollerStops
         \/ \E ok \in BOOLEAN : ListArtifacts(ok)
  PROVE  StreamInv'
<1>1. last \in [Items -> Status] /\ poller \in PollerState /\ subs \subseteq Clients
  BY DEF StreamInv, PollTypes, HubInv, HubTypes
<1>2. Unseen \in [Items -> Status]
  BY DEF Unseen, Status
<1>3. Idle \in PollerState
  BY <1>2, BeatIsEvent DEF Idle, PollerState
<1>4. CASE RunsDone
  <2>1. [Idle EXCEPT !.pc = "suites"] \in PollerState
    BY <1>3 DEF PollerState
  <2>2. QED
    BY <1>1, <1>4, <2>1, PollStepInv DEF RunsDone
<1>5. CASE BuildsDone
  BY <1>1, <1>3, <1>5, PollStepInv DEF BuildsDone
<1>6. CASE Heartbeat
  <2>1. [Idle EXCEPT !.pc = "beat send", !.targets = subs] \in PollerState
    BY <1>1, <1>3 DEF PollerState
  <2>2. QED
    BY <1>1, <1>6, <2>1, PollStepInv DEF Heartbeat
<1>7. CASE PollerStops
  <2>1. [Idle EXCEPT !.pc = "stopped"] \in PollerState
    BY <1>3 DEF PollerState
  <2>2. QED
    BY <1>1, <1>7, <2>1, PollStepInv DEF PollerStops
<1>8. ASSUME NEW ok \in BOOLEAN, ListArtifacts(ok) PROVE StreamInv'
  <2> DEFINE seen == [i \in Items |-> IF i \in Builds /\ ok THEN status[i] ELSE 0]
             next == [poller EXCEPT !.pc = "builds", !.seen = seen]
  <2>1. seen \in [Items -> Status]
    BY DEF StreamInv, PollTypes, Status
  <2>2. next \in PollerState
    BY <1>1, <2>1 DEF PollerState
  <2>3. PollStep("suites", next) /\ last' = last
    BY <1>8 DEF ListArtifacts
  <2> HIDE DEF next
  <2>4. QED
    BY <1>1, <2>2, <2>3, PollStepInv
<1>9. QED
  BY <1>4, <1>5, <1>6, <1>7, <1>8

LEMMA BroadcastedInv == ASSUME StreamInv, Broadcasted PROVE StreamInv'
<1>1. PICK p \in DOMAIN SendPhase :
        PollStep(p, [poller EXCEPT !.pc = SendPhase[p], !.event = Beat])
  BY DEF Broadcasted
<1> DEFINE next == [poller EXCEPT !.pc = SendPhase[p], !.event = Beat]
<1>2. SendPhase[p] \in {"runs", "builds", "idle"}
  BY DEF SendPhase
<1>3. next \in PollerState
  BY <1>2, BeatIsEvent DEF StreamInv, PollTypes, PollerState
<1> HIDE DEF next
<1>4. QED
  BY <1>1, <1>3, PollStepInv DEF next, Broadcasted, StreamInv, PollTypes

-----------------------------------------------------------------------------
(* Sends, clients and Close                                                *)

\* A step that changes one client's record.
LEMMA ClientTypes ==
  ASSUME StreamInv, NEW c \in Clients, NEW next \in Client,
         client' = [client EXCEPT ![c] = next]
  PROVE  /\ client' \in [Clients -> Client] /\ client'[c] = next
         /\ \A d \in Clients \ {c} : client'[d] = client[d]
BY DEF StreamInv, HubInv, HubTypes

LEMMA SendInv == ASSUME StreamInv, NEW c \in Clients, Send(c) PROVE StreamInv'
<1>1. client[c] \in Client /\ poller \in PollerState
  BY DEF StreamInv, HubInv, HubTypes, PollTypes
<1>2. UNCHANGED <<status, last, subs, closer>>
  BY DEF Send
<1>3. CASE ~client[c].open
  BY <1>2, <1>3 DEF Send, StreamInv, HubInv, HubTypes, PollTypes, BufferBound,
                    OnceGuards, EntryOK
<1>4. CASE client[c].open
  <2>1. /\ client' = [client EXCEPT ![c] = Delivered(c)]
        /\ poller' = [poller EXCEPT !.targets = Remaining(c)]
        /\ UNCHANGED panicked
    BY <1>4 DEF Send
  <2>2. poller' \in PollerState
    BY <1>1, <2>1 DEF PollerState, Remaining
  <2>3. /\ Delivered(c) \in Client
        /\ Len(Delivered(c).buf) <= BufferSize
        /\ Delivered(c).pc = client[c].pc /\ Delivered(c).once = client[c].once
        /\ Delivered(c).unsub = client[c].unsub
        /\ Delivered(c).open = client[c].open
    <3>1. CASE client[c].pc = "gone"
      <4>1. Delivered(c) = client[c]
        BY <3>1 DEF Delivered
      <4>2. Len(client[c].buf) <= BufferSize
        BY DEF StreamInv, BufferBound
      <4>3. QED
        BY <1>1, <4>1, <4>2
    <3>2. CASE client[c].pc # "gone" /\ HasRoom(c)
      <4> DEFINE buf == Append(client[c].buf, poller.event)
      <4>1. poller.event \in Event /\ client[c].buf \in Seq(Event)
        BY <1>1 DEF PollerState, Client
      <4>2. buf \in Seq(Event) /\ Len(buf) <= BufferSize
        BY <3>2, <4>1, StreamAssumption DEF HasRoom
      <4>3. Delivered(c) = [client[c] EXCEPT !.buf = buf]
        BY <3>2 DEF Delivered
      <4> HIDE DEF buf
      <4>4. QED
        BY <1>1, <4>2, <4>3 DEF Client
    <3>3. CASE client[c].pc # "gone" /\ ~HasRoom(c)
      <4>1. Unseen \in [Items -> Status]
        BY DEF Unseen, Status
      <4>2. Delivered(c) = [client[c] EXCEPT !.lost = TRUE, !.view = Unseen]
        BY <3>3 DEF Delivered
      <4>3. QED
        BY <1>1, <4>1, <4>2 DEF Client, StreamInv, BufferBound
    <3>4. QED
      BY <3>1, <3>2, <3>3
  <2>4. /\ client' \in [Clients -> Client] /\ client'[c] = Delivered(c)
        /\ \A d \in Clients \ {c} : client'[d] = client[d]
    BY <2>1, <2>3, ClientTypes
  <2>5. ASSUME NEW d \in Clients PROVE OnceGuards(d)' /\ EntryOK(d)'
    <3>1. /\ client'[d].pc = client[d].pc /\ client'[d].once = client[d].once
          /\ client'[d].unsub = client[d].unsub
          /\ client'[d].open = client[d].open
      BY <2>3, <2>4
    <3>2. QED
      BY <1>2, <3>1 DEF StreamInv, HubInv, OnceGuards, EntryOK
  <2>6. BufferBound'
    BY <2>3, <2>4 DEF StreamInv, BufferBound
  <2>7. QED
    BY <1>2, <2>1, <2>2, <2>4, <2>5, <2>6
       DEF StreamInv, HubInv, HubTypes, PollTypes
<1>5. QED
  BY <1>3, <1>4

\* What a step of the client's own goroutines has to keep.
LEMMA ClientStepInv ==
  ASSUME StreamInv, NEW c \in Clients, NEW from, NEW next \in Client,
         ClientStep(c, from, next), subs' \subseteq Clients,
         subs' \subseteq subs \cup {c}, closer.pc # "up" => subs' = {},
         Len(next.buf) <= BufferSize,
         next.once = "running" <=> next.unsub # "no",
         next.once = "running" => next.pc = "gone",
         next.pc \in {"reading", "gone"} /\ next.once # "done" => next.open,
         next.pc \in {"away", "refused"} => next.once = "free",
         c \in subs' \cup closer.subs => next.pc \in {"reading", "gone"},
         c \in subs' => next.once # "done" /\ next.unsub # "removed"
  PROVE  StreamInv'
<1>1. /\ client' = [client EXCEPT ![c] = next]
      /\ UNCHANGED <<status, last, poller, closer, panicked>>
  BY DEF ClientStep
<1>2. /\ client' \in [Clients -> Client] /\ client'[c] = next
      /\ \A d \in Clients \ {c} : client'[d] = client[d]
  BY <1>1, ClientTypes
<1>3. \A d \in Clients : OnceGuards(d)' /\ EntryOK(d)'
  BY <1>1, <1>2 DEF StreamInv, HubInv, OnceGuards, EntryOK
<1>4. BufferBound'
  BY <1>2 DEF StreamInv, BufferBound
<1>5. QED
  BY <1>1, <1>2, <1>3, <1>4 DEF StreamInv, HubInv, HubTypes, PollTypes

LEMMA SubscribeInv == ASSUME StreamInv, NEW c \in Clients, Subscribe(c) PROVE StreamInv'
<1> DEFINE refused == [client[c] EXCEPT !.pc = "refused"]
           reading == [client[c] EXCEPT !.pc = "reading", !.open = TRUE, !.view = last]
<1>1. /\ client[c] \in Client /\ client[c].pc = "away" /\ client[c].once = "free"
      /\ client[c].unsub = "no" /\ c \notin subs \cup closer.subs
      /\ last \in [Items -> Status] /\ subs \subseteq Clients
      /\ Len(client[c].buf) <= BufferSize
  BY DEF Subscribe, ClientStep, StreamInv, HubInv, HubTypes, PollTypes,
         OnceGuards, EntryOK, BufferBound
<1>2. CASE closed
  <2>1. /\ refused \in Client /\ refused.pc = "refused" /\ refused.once = "free"
        /\ refused.unsub = "no" /\ refused.buf = client[c].buf
    BY <1>1 DEF Client
  <2>2. ClientStep(c, {"away"}, refused) /\ subs' = subs
    BY <1>2 DEF Subscribe
  <2> HIDE DEF refused
  <2>3. QED
    BY <1>1, <2>1, <2>2, ClientStepInv DEF StreamInv, HubInv
<1>3. CASE ~closed
  <2>1. /\ reading \in Client /\ reading.pc = "reading" /\ reading.once = "free"
        /\ reading.unsub = "no" /\ reading.open /\ reading.buf = client[c].buf
    BY <1>1 DEF Client
  <2>2. /\ ClientStep(c, {"away"}, reading) /\ subs' = subs \cup {c}
        /\ closer.pc = "up"
    BY <1>3 DEF Subscribe, closed
  <2> HIDE DEF reading
  <2>3. QED
    BY <1>1, <2>1, <2>2, ClientStepInv
<1>4. QED
  BY <1>2, <1>3

LEMMA ReceiveInv == ASSUME StreamInv, NEW c \in Clients, Receive(c) PROVE StreamInv'
<1> DEFINE ev   == Head(client[c].buf)
           view == IF ev = Beat \/ client[c].lost THEN client[c].view
                   ELSE [client[c].view EXCEPT ![ev.item] = ev.status]
           next == [client[c] EXCEPT !.buf = Tail(@),
                      !.view = IF ev = Beat \/ client[c].lost THEN @
                               ELSE [@ EXCEPT ![ev.item] = ev.status]]
<1>1. client[c] \in Client /\ client[c].buf # <<>> /\ client[c].pc = "reading"
  BY DEF Receive, ClientStep, StreamInv, HubInv, HubTypes
<1>2. client[c].buf \in Seq(Event) /\ client[c].view \in [Items -> Status]
  BY <1>1 DEF Client
<1>3. /\ ev \in Event /\ Tail(client[c].buf) \in Seq(Event)
      /\ Len(Tail(client[c].buf)) = Len(client[c].buf) - 1
      /\ Len(client[c].buf) \in Nat /\ Len(client[c].buf) <= BufferSize
  BY <1>1, <1>2 DEF StreamInv, BufferBound
<1>4. view \in [Items -> Status]
  <2>1. CASE ev = Beat \/ client[c].lost
    BY <1>2, <2>1
  <2>2. CASE ~(ev = Beat \/ client[c].lost)
    <3>1. ev.item \in Items /\ ev.status \in Status
      BY <1>3, <2>2 DEF Event
    <3>2. QED
      BY <1>2, <2>2, <3>1
  <2>3. QED
    BY <2>1, <2>2
<1>5. next = [client[c] EXCEPT !.buf = Tail(client[c].buf), !.view = view]
  OBVIOUS
<1> HIDE DEF view, next, ev
<1>6. /\ next \in Client /\ next.pc = "reading" /\ next.once = client[c].once
      /\ next.unsub = client[c].unsub /\ next.open = client[c].open
      /\ next.buf = Tail(client[c].buf)
  BY <1>1, <1>3, <1>4, <1>5 DEF Client
<1>7. ClientStep(c, {"reading"}, next) /\ subs' = subs
  BY DEF Receive, next, ev
<1>8. OnceGuards(c) /\ EntryOK(c) /\ subs \subseteq Clients
      /\ (closer.pc # "up" => subs = {})
  BY DEF StreamInv, HubInv, HubTypes
<1>9. Len(next.buf) <= BufferSize
  BY <1>3, <1>6, StreamAssumption
<1>10. QED
  BY <1>1, <1>6, <1>7, <1>8, <1>9, ClientStepInv DEF OnceGuards, EntryOK

LEMMA ReturnInv == ASSUME StreamInv, NEW c \in Clients, Return(c) PROVE StreamInv'
<1> DEFINE next == [NewClient EXCEPT !.pc = "gone", !.once = client[c].once,
                                     !.open = client[c].open]
<1>1. client[c] \in Client /\ client[c].pc = "reading"
  BY DEF Return, ClientStep, StreamInv, HubInv, HubTypes
<1>2. OnceGuards(c) /\ EntryOK(c) /\ subs \subseteq Clients
      /\ (closer.pc # "up" => subs = {})
  BY DEF StreamInv, HubInv, HubTypes
<1>3. NewClient \in Client /\ Len(NewClient.buf) = 0 /\ NewClient.unsub = "no"
  BY ZeroIsStatus DEF NewClient, Client
<1>4. /\ next \in Client /\ next.pc = "gone" /\ next.once = client[c].once
      /\ next.unsub = "no" /\ next.open = client[c].open
      /\ Len(next.buf) = 0
  BY <1>1, <1>3 DEF Client
<1>5. client[c].once # "running"
  BY <1>1, <1>2 DEF OnceGuards
<1>6. ClientStep(c, {"reading"}, next) /\ subs' = subs
  BY DEF Return
<1> HIDE DEF next
<1>7. Len(next.buf) <= BufferSize
  BY <1>4, StreamAssumption
<1>8. QED
  BY <1>1, <1>2, <1>4, <1>5, <1>6, <1>7, ClientStepInv DEF OnceGuards, EntryOK

LEMMA UnsubscribeInv ==
  ASSUME StreamInv, NEW c \in Clients, Unsubscribe(c) PROVE StreamInv'
<1> DEFINE next == [client[c] EXCEPT !.once = "running", !.unsub = "stopping"]
<1>1. /\ client[c] \in Client /\ client[c].pc = "gone" /\ client[c].once = "free"
      /\ Len(client[c].buf) <= BufferSize
  BY DEF Unsubscribe, ClientStep, StreamInv, HubInv, HubTypes, BufferBound
<1>2. OnceGuards(c) /\ EntryOK(c) /\ subs \subseteq Clients
      /\ (closer.pc # "up" => subs = {})
  BY DEF StreamInv, HubInv, HubTypes
<1>3. /\ next \in Client /\ next.pc = "gone" /\ next.once = "running"
      /\ next.unsub = "stopping" /\ next.open = client[c].open
      /\ next.buf = client[c].buf
  BY <1>1 DEF Client
<1>4. ClientStep(c, {"gone"}, next) /\ subs' = subs
  BY DEF Unsubscribe
<1> HIDE DEF next
<1>5. QED
  BY <1>1, <1>2, <1>3, <1>4, ClientStepInv DEF OnceGuards, EntryOK

LEMMA RemoveInv == ASSUME StreamInv, NEW c \in Clients, Remove(c) PROVE StreamInv'
<1> DEFINE next == [client[c] EXCEPT !.unsub = "removed"]
<1>1. /\ client[c] \in Client /\ client[c].pc = "gone"
      /\ client[c].unsub = "stopping" /\ Len(client[c].buf) <= BufferSize
  BY DEF Remove, ClientStep, StreamInv, HubInv, HubTypes, BufferBound
<1>2. OnceGuards(c) /\ EntryOK(c) /\ subs \subseteq Clients
      /\ (closer.pc # "up" => subs = {})
  BY DEF StreamInv, HubInv, HubTypes
<1>3. /\ next \in Client /\ next.pc = "gone" /\ next.once = client[c].once
      /\ next.unsub = "removed" /\ next.open = client[c].open
      /\ next.buf = client[c].buf
  BY <1>1 DEF Client
<1>4. ClientStep(c, {"gone"}, next) /\ subs' = subs \ {c}
  BY DEF Remove
<1> HIDE DEF next
<1>5. QED
  BY <1>1, <1>2, <1>3, <1>4, ClientStepInv DEF OnceGuards, EntryOK

\* close(sub.ch) by the one that runs sub.once: the channel is open, and no
\* entry is left in the hub.
LEMMA CloseChannelInv ==
  ASSUME StreamInv, NEW c \in Clients, CloseChannel(c, "no"),
         client[c].open, client[c].pc \in {"reading", "gone"}, c \notin subs,
         UNCHANGED <<status, last, poller, subs>>, closer' \in Closer,
         closer'.pc = closer.pc, closer'.subs \subseteq closer.subs
  PROVE  StreamInv'
<1>1. client[c] \in Client
  BY DEF StreamInv, HubInv, HubTypes
<1>2. /\ client' \in [Clients -> Client]
      /\ client'[c].once = "done" /\ client'[c].unsub = "no"
      /\ client'[c].pc = client[c].pc /\ client'[c].buf = client[c].buf
      /\ \A d \in Clients \ {c} : client'[d] = client[d]
  BY <1>1 DEF CloseChannel, Client, StreamInv, HubInv, HubTypes
<1>3. panicked' = "no"
  BY DEF CloseChannel
<1>4. ASSUME NEW d \in Clients PROVE OnceGuards(d)' /\ EntryOK(d)'
  BY <1>2 DEF StreamInv, HubInv, OnceGuards, EntryOK
<1>5. BufferBound'
  BY <1>2 DEF StreamInv, BufferBound
<1>6. QED
  BY <1>2, <1>3, <1>4, <1>5 DEF StreamInv, HubInv, HubTypes, PollTypes

LEMMA UnsubscribedInv ==
  ASSUME StreamInv, NEW c \in Clients, Unsubscribed(c) PROVE StreamInv'
<1>1. client[c].unsub = "removed" /\ OnceGuards(c) /\ EntryOK(c) /\ closer \in Closer
  BY DEF Unsubscribed, StreamInv, HubInv, HubTypes
<1>2. client[c].open /\ client[c].pc = "gone" /\ c \notin subs
  BY <1>1 DEF OnceGuards, EntryOK
<1>3. QED
  BY <1>1, <1>2, CloseChannelInv DEF Unsubscribed, Closer

LEMMA CloseInv ==
  ASSUME StreamInv, CloseStarts \/ CloseUnlocks \/ CloseReturns PROVE StreamInv'
<1>1. closer \in Closer /\ subs \subseteq Clients
  BY DEF StreamInv, HubInv, HubTypes
<1>2. /\ UNCHANGED <<status, last, poller, client, panicked>>
      /\ subs' \subseteq subs /\ (closer'.pc # "up" => subs' = {})
      /\ closer' \in Closer /\ closer'.subs \subseteq closer.subs \cup subs
  <2>1. CASE CloseStarts
    BY <1>1, <2>1 DEF CloseStarts, Closer
  <2>2. CASE CloseUnlocks
    BY <1>1, <2>2 DEF CloseUnlocks, Closer, StreamInv, HubInv
  <2>3. CASE CloseReturns
    BY <1>1, <2>3 DEF CloseReturns, Closer, StreamInv, HubInv
  <2>4. QED
    BY <2>1, <2>2, <2>3
<1>3. ASSUME NEW c \in Clients PROVE OnceGuards(c)' /\ EntryOK(c)'
  BY <1>2 DEF StreamInv, HubInv, OnceGuards, EntryOK
<1>4. QED
  BY <1>1, <1>2, <1>3 DEF StreamInv, HubInv, HubTypes, PollTypes, BufferBound

LEMMA CloseSubscriberInv ==
  ASSUME StreamInv, NEW c \in Clients, CloseSubscriber(c) PROVE StreamInv'
<1>1. /\ closer \in Closer /\ closer.pc = "closing" /\ c \in closer.subs
      /\ subs = {} /\ OnceGuards(c) /\ EntryOK(c)
      /\ closer' = [closer EXCEPT !.subs = @ \ {c}]
      /\ UNCHANGED <<status, last, poller, subs>>
  BY DEF CloseSubscriber, StreamInv, HubInv, HubTypes
<1>2. /\ closer' \in Closer /\ closer'.pc = closer.pc
      /\ closer'.subs \subseteq closer.subs
  BY <1>1 DEF Closer
<1>3. CASE MayClose(c) /\ CloseChannel(c, client[c].unsub)
  <2>1. client[c].once = "free" /\ client[c].pc \in {"reading", "gone"}
    BY <1>1, <1>3 DEF MayClose, EntryOK
  <2>2. client[c].open /\ client[c].unsub = "no"
    <3>1. client[c].unsub \in {"no", "stopping", "removed"}
      BY DEF StreamInv, HubInv, HubTypes, Client
    <3>2. QED
      BY <1>1, <2>1, <3>1 DEF OnceGuards
  <2>3. QED
    BY <1>1, <1>2, <1>3, <2>1, <2>2, CloseChannelInv
<1>4. CASE UNCHANGED <<client, panicked>>
  <2>1. ASSUME NEW d \in Clients PROVE OnceGuards(d)' /\ EntryOK(d)'
    BY <1>1, <1>2, <1>4 DEF StreamInv, HubInv, OnceGuards, EntryOK
  <2>2. QED
    BY <1>1, <1>2, <1>4, <2>1 DEF StreamInv, HubInv, HubTypes, PollTypes, BufferBound
<1>5. QED
  BY <1>3, <1>4 DEF CloseSubscriber

-----------------------------------------------------------------------------
LEMMA StreamNextInv == StreamInv /\ [StreamNext]_svars => StreamInv'
<1> SUFFICES ASSUME StreamInv, [StreamNext]_svars PROVE StreamInv'
  OBVIOUS
<1>1. CASE UNCHANGED svars
  BY <1>1, PollerAlone DEF svars, StreamInv, PollTypes
<1>2. CASE \E i \in Items : Advance(i)
  BY <1>2, AdvanceInv
<1>3. CASE PollerNext
  <2>1. Runs \subseteq Items /\ Builds \subseteq Items
    BY DEF Items
  <2>2. QED
    BY <1>3, <2>1, PhaseInv, BroadcastedInv, ListRunsInv, AnnounceInv, SendInv
       DEF PollerNext
<1>4. CASE CloseStarts
  BY <1>4, CloseInv
<1>5. CASE CloserNext
  BY <1>5, CloseInv, CloseSubscriberInv DEF CloserNext
<1>6. CASE \E c \in Clients :
             Subscribe(c) \/ Depart(c) \/ Handler(c) \/ Unwinding(c)
  BY <1>6, SubscribeInv, ReturnInv, ReceiveInv, UnsubscribeInv, RemoveInv,
     UnsubscribedInv DEF Depart, Handler, ChannelClosed, Unwinding
<1>7. QED
  BY <1>1, <1>2, <1>3, <1>4, <1>5, <1>6 DEF StreamNext

LEMMA StreamInvHolds == StreamSpec => []StreamInv
BY StreamInvInit, StreamNextInv, PTL DEF StreamSpec

\* Types, and Hub.bufferSize: no channel holds more than it was made for.
THEOREM StreamTypeCorrect == StreamSpec => []StreamTypeOK
<1>1. StreamInv => StreamTypeOK
  <2> SUFFICES ASSUME StreamInv PROVE StreamTypeOK
    OBVIOUS
  <2>1. poller \in PollerState /\ closer \in Closer
        /\ status \in [Items -> Status] /\ last \in [Items -> Status]
        /\ subs \subseteq Clients
    BY DEF StreamInv, HubInv, HubTypes, PollTypes
  <2>2. poller.pc \in {"idle", "stopped", "runs", "suites", "builds"}
                      \cup DOMAIN SendPhase
    BY <2>1 DEF PollerState, SendPhase
  <2>3. ASSUME NEW c \in Clients
        PROVE  /\ client[c] \in Client /\ Len(client[c].buf) <= BufferSize
               /\ \A k \in 1 .. Len(client[c].buf) : client[c].buf[k] \in Event
    <3>1. client[c] \in Client /\ Len(client[c].buf) <= BufferSize
      BY DEF StreamInv, HubInv, HubTypes, BufferBound
    <3>2. client[c].buf \in Seq(Event)
      BY <3>1 DEF Client
    <3>3. QED
      BY <3>1, <3>2
  <2>4. panicked \in {"no", "send on closed channel"}
    BY DEF StreamInv, HubInv
  <2>5. QED
    BY <2>1, <2>2, <2>3, <2>4 DEF StreamTypeOK, PollerState, Closer, Client
<1>2. QED
  BY <1>1, StreamInvHolds, PTL

\* A broadcast's snapshot is taken from entries whose channel is open: both
\* unsubscribe and Hub.Close take the entry out before they close.
THEOREM RegisteredChannelsAreOpen == StreamSpec => []RegisteredIsOpen
<1>1. StreamInv => RegisteredIsOpen
  BY DEF StreamInv, HubInv, HubTypes, OnceGuards, EntryOK, RegisteredIsOpen
<1>2. QED
  BY <1>1, StreamInvHolds, PTL

\* sub.once lets one of the three enders close the channel.
THEOREM ChannelsCloseOnce == StreamSpec => []ClosedOnce
<1>1. StreamInv => ClosedOnce
  BY DEF StreamInv, HubInv, ClosedOnce
<1>2. QED
  BY <1>1, StreamInvHolds, PTL

-----------------------------------------------------------------------------
(* What a client has, or is about to receive                               *)

\* The last word on i, of what waits in the channel and what was received.
Drains(buf, view, i, word) ==
  \/ \E k \in 1 .. Len(buf) :
       /\ buf[k].item = i /\ buf[k].status = word
       /\ \A m \in 1 .. Len(buf) : buf[m].item = i => m <= k
  \/ view[i] = word /\ \A k \in 1 .. Len(buf) : buf[k].item # i

LEMMA DrainsAppend ==
  ASSUME NEW buf \in Seq(Event), NEW ev \in Event, NEW view, NEW i \in Items, NEW word,
         IF ev.item = i THEN ev.status = word ELSE Drains(buf, view, i, word)
  PROVE  Drains(Append(buf, ev), view, i, word)
<1> DEFINE new == Append(buf, ev)
<1>1. /\ Len(new) = Len(buf) + 1 /\ Len(buf) \in Nat
      /\ new[Len(buf) + 1] = ev
      /\ \A k \in 1 .. Len(buf) : new[k] = buf[k]
  OBVIOUS
<1> HIDE DEF new
<1> SUFFICES Drains(new, view, i, word)
  BY DEF new
<1>2. CASE ev.item = i
  BY <1>1, <1>2 DEF Drains
<1>3. CASE ev.item # i
  BY <1>1, <1>3 DEF Drains
<1> QED
  BY <1>2, <1>3

\* The front of the channel is received: what it says is seen, unless a later
\* event about the same item waits behind it.
LEMMA DrainsTail ==
  ASSUME NEW buf \in Seq(Event), buf # <<>>, NEW view \in [Items -> Status],
         NEW i \in Items, NEW word, Drains(buf, view, i, word)
  PROVE  Drains(Tail(buf),
                IF Head(buf) = Beat THEN view
                ELSE [view EXCEPT ![Head(buf).item] = Head(buf).status], i, word)
<1> DEFINE rest == Tail(buf)
           seen == IF Head(buf) = Beat THEN view
                   ELSE [view EXCEPT ![Head(buf).item] = Head(buf).status]
<1>1. /\ Len(buf) \in Nat \ {0} /\ Len(rest) = Len(buf) - 1
      /\ Head(buf) = buf[1] /\ Head(buf) \in Event
      /\ \A k \in 1 .. Len(rest) : rest[k] = buf[k + 1]
  OBVIOUS
<1>2. buf[1].item = i => seen[i] = buf[1].status
  <2>1. Beat.item \notin Items
    BY StreamAssumption DEF Beat, Items, Runs, Builds
  <2> QED
    BY <1>1, <2>1
<1>3. buf[1].item # i => seen[i] = view[i]
  BY <1>1 DEF Event
<1> HIDE DEF rest, seen
<1> SUFFICES Drains(rest, seen, i, word)
  BY DEF rest, seen
<1>4. CASE \E k \in 1 .. Len(buf) :
             /\ buf[k].item = i /\ buf[k].status = word
             /\ \A m \in 1 .. Len(buf) : buf[m].item = i => m <= k
  <2>1. PICK k \in 1 .. Len(buf) :
             /\ buf[k].item = i /\ buf[k].status = word
             /\ \A m \in 1 .. Len(buf) : buf[m].item = i => m <= k
    BY <1>4
  <2>2. CASE k = 1
    <3>1. \A m \in 1 .. Len(rest) : rest[m].item # i
      BY <1>1, <2>1, <2>2
    <3> QED
      BY <1>2, <2>1, <2>2, <3>1 DEF Drains
  <2>3. CASE k # 1
    <3>1. /\ k - 1 \in 1 .. Len(rest) /\ rest[k - 1] = buf[k]
      BY <1>1, <2>3
    <3>2. \A m \in 1 .. Len(rest) : rest[m].item = i => m <= k - 1
      BY <1>1, <2>1
    <3> QED
      BY <2>1, <3>1, <3>2 DEF Drains
  <2> QED
    BY <2>2, <2>3
<1>5. CASE view[i] = word /\ \A k \in 1 .. Len(buf) : buf[k].item # i
  BY <1>1, <1>3, <1>5 DEF Drains
<1> QED
  BY <1>4, <1>5 DEF Drains

\* Announced is that last word.
LEMMA AnnouncedIsDrained ==
  ASSUME StreamInv, NEW c \in Clients, NEW i \in Items, NEW word,
         IF poller.event.item = i /\ c \in poller.targets
         THEN poller.event.status = word
         ELSE Drains(client[c].buf, client[c].view, i, word)
  PROVE  Announced(c, i) = word
<1> DEFINE buf == client[c].buf
           inBuf == {k \in 1 .. Len(buf) : buf[k].item = i}
           lastOf == CHOOSE k \in inBuf : \A m \in inBuf : m <= k
<1>1. CASE poller.event.item = i /\ c \in poller.targets
  BY <1>1 DEF Announced
<1>2. CASE ~(poller.event.item = i /\ c \in poller.targets)
  <2>1. Announced(c, i) = IF inBuf = {} THEN client[c].view[i] ELSE buf[lastOf].status
    BY <1>2 DEF Announced
  <2>2. Len(buf) \in Nat /\ inBuf \subseteq Nat
    <3>1. client[c] \in Client
      BY DEF StreamInv, HubInv, HubTypes
    <3>2. client[c].buf \in Seq(Event)
      BY <3>1 DEF Client
    <3> QED
      BY <3>2
  <2>3. CASE client[c].view[i] = word /\ inBuf = {}
    BY <2>1, <2>3
  <2>4. ASSUME NEW k \in inBuf, buf[k].status = word, \A m \in inBuf : m <= k
        PROVE  Announced(c, i) = word
    <3>1. lastOf \in inBuf /\ \A m \in inBuf : m <= lastOf
      BY <2>4
    <3> HIDE DEF lastOf
    <3>2. lastOf <= k /\ k <= lastOf /\ lastOf \in Nat /\ k \in Nat
      <4> HIDE DEF inBuf
      <4> QED
        BY <2>2, <2>4, <3>1
    <3>3. lastOf = k
      BY <3>2
    <3> QED
      BY <2>1, <2>4, <3>3
  <2>5. \/ client[c].view[i] = word /\ inBuf = {}
        \/ \E k \in inBuf : buf[k].status = word /\ \A m \in inBuf : m <= k
    BY <1>2 DEF Drains
  <2> QED
    BY <2>3, <2>4, <2>5
<1> QED
  BY <1>1, <1>2

-----------------------------------------------------------------------------
(* The poller's last word reaches every client that is not too slow        *)

WillHave(c, i) ==
  IF poller.event.item = i /\ c \in poller.targets
  THEN poller.event.status = last[i]
  ELSE Drains(client[c].buf, client[c].view, i, last[i])

Current(c) == client[c].pc = "reading" /\ ~client[c].lost =>
                \A i \in Items : WillHave(c, i)

\* Only a broadcast under way has an event and targets; a client has neither
\* lost nor got anything before it subscribes.
CurrentInv ==
  /\ poller.pc \notin DOMAIN SendPhase =>
       poller.targets = {} /\ poller.event = Beat
  /\ \A c \in Clients :
       client[c].pc = "away" =>
         client[c].buf = <<>> /\ ~client[c].lost /\ c \notin poller.targets
  /\ \A c \in subs : Current(c)

LEMMA CurrentInvInit == StreamInit => CurrentInv
BY DEF StreamInit, CurrentInv, Idle, NewClient, SendPhase

\* No broadcast is under way, and none of an event starts: WillHave is about
\* the channels only.
LEMMA PollerMoves ==
  ASSUME StreamInv, CurrentInv, UNCHANGED <<client, last, subs>>,
         poller.targets = {}, poller'.event = Beat,
         poller'.targets \subseteq subs,
         poller'.pc \notin DOMAIN SendPhase => poller'.targets = {}
  PROVE  CurrentInv'
<1>1. \A i \in Items : Beat.item # i
  BY StreamAssumption DEF Beat, Items, Runs, Builds
<1>2. ASSUME NEW c \in subs PROVE Current(c)'
  BY <1>1 DEF CurrentInv, Current, WillHave
<1>3. \A c \in subs : client[c].pc # "away"
  BY DEF StreamInv, HubInv, HubTypes, EntryOK
<1> QED
  BY <1>2, <1>3 DEF CurrentInv

LEMMA PhaseCurrent ==
  ASSUME StreamInv, CurrentInv,
         \/ RunsDone \/ BuildsDone \/ Heartbeat \/ PollerStops \/ Broadcasted
         \/ \E ok \in BOOLEAN : ListArtifacts(ok)
         \/ \E answered \in SUBSET Lists : ListRuns(answered)
  PROVE  CurrentInv'
<1>1. UNCHANGED <<client, last, subs>>
  BY DEF RunsDone, BuildsDone, Heartbeat, PollerStops, Broadcasted, ListArtifacts,
         ListRuns, PollStep
<1>2. poller \in PollerState
  BY DEF StreamInv, PollTypes
<1>3. CASE Broadcasted
  <2>1. PICK p \in DOMAIN SendPhase :
          poller' = [poller EXCEPT !.pc = SendPhase[p], !.event = Beat]
    BY <1>3 DEF Broadcasted, PollStep
  <2>2. poller'.event = Beat /\ poller'.targets = {} /\ poller.targets = {}
    BY <1>2, <1>3, <2>1 DEF Broadcasted, PollerState
  <2> QED
    BY <1>1, <2>2, PollerMoves
<1>4. CASE ~Broadcasted
  <2>1. poller.pc \in {"idle", "runs", "suites", "builds"}
    BY <1>4 DEF RunsDone, BuildsDone, Heartbeat, PollerStops, ListArtifacts,
                ListRuns, PollStep
  <2>2. poller.targets = {} /\ poller.event = Beat
    BY <2>1 DEF CurrentInv, SendPhase
  <2>3. /\ poller'.event = Beat
        /\ \/ poller'.targets = {}
           \/ poller'.targets = subs /\ poller'.pc \in DOMAIN SendPhase
    <3>1. CASE \E ok \in BOOLEAN : ListArtifacts(ok)
      BY <1>2, <2>2, <3>1 DEF ListArtifacts, PollStep, PollerState
    <3>2. CASE \E answered \in SUBSET Lists : ListRuns(answered)
      <4>1. PICK seen : poller' = [Idle EXCEPT !.pc = "runs", !.seen = seen]
        BY <3>2 DEF ListRuns, PollStep
      <4> QED
        BY <4>1 DEF Idle
    <3>3. CASE RunsDone
      BY <3>3 DEF RunsDone, PollStep, Idle
    <3>4. CASE BuildsDone
      BY <3>4 DEF BuildsDone, PollStep, Idle
    <3>5. CASE PollerStops
      BY <3>5 DEF PollerStops, PollStep, Idle
    <3>6. CASE Heartbeat
      <4>1. poller' = [Idle EXCEPT !.pc = "beat send", !.targets = subs]
        BY <3>6 DEF Heartbeat, PollStep
      <4>2. "beat send" \in DOMAIN SendPhase
        BY DEF SendPhase
      <4> QED
        BY <4>1, <4>2 DEF Idle
    <3> QED
      BY <1>4, <3>1, <3>2, <3>3, <3>4, <3>5, <3>6
  <2> QED
    BY <1>1, <2>2, <2>3, PollerMoves
<1> QED
  BY <1>3, <1>4

\* A change is recorded and on its way to every subscriber at once.
LEMMA AnnounceCurrent ==
  ASSUME StreamInv, CurrentInv, NEW i \in Items,
         NEW phase, phase \notin DOMAIN SendPhase,
         NEW sending, sending \in DOMAIN SendPhase,
         Announce(phase, sending, i)
  PROVE  CurrentInv'
<1>1. /\ UNCHANGED <<client, subs, closer>> /\ poller.pc = phase
      /\ last' = [last EXCEPT ![i] = poller.seen[i]]
      /\ poller \in PollerState /\ last \in [Items -> Status]
  BY DEF Announce, PollStep, StreamInv, PollTypes
<1>2. /\ poller'.pc = sending /\ poller'.targets = subs
      /\ poller'.event.item = i /\ poller'.event.status = last'[i]
      /\ \A j \in Items \ {i} : last'[j] = last[j]
  <2>1. /\ poller'.pc = sending
        /\ poller'.targets = IF closer.pc # "up" THEN {} ELSE subs
    BY <1>1 DEF Announce, PollStep, PollerState, closed
  <2>2. poller'.event = [item |-> i, status |-> poller.seen[i]]
    BY <1>1 DEF Announce, PollStep, PollerState
  <2>3. poller'.event.item = i /\ poller'.event.status = poller.seen[i]
    BY <2>2
  <2>4. last'[i] = poller.seen[i] /\ \A j \in Items \ {i} : last'[j] = last[j]
    BY <1>1
  <2>5. poller'.targets = subs
    BY <2>1 DEF StreamInv, HubInv
  <2> QED
    BY <2>1, <2>3, <2>4, <2>5
<1>3. poller.targets = {} /\ poller.event = Beat
  BY <1>1 DEF CurrentInv
<1>4. ASSUME NEW c \in subs PROVE Current(c)'
  <2>1. c \in poller'.targets
    BY <1>2
  <2>2. ASSUME Current(c), client[c].pc = "reading", ~client[c].lost, NEW j \in Items
        PROVE  WillHave(c, j)'
    <3>1. CASE j = i
      BY <1>1, <1>2, <2>1, <3>1 DEF WillHave
    <3>2. CASE j # i
      <4>1. Drains(client[c].buf, client[c].view, j, last[j])
        BY <1>3, <2>2 DEF Current, WillHave
      <4>2. last'[j] = last[j] /\ poller'.event.item # j
        BY <1>1, <1>2, <3>2
      <4> QED
        BY <1>1, <4>1, <4>2 DEF WillHave
    <3> QED
      BY <3>1, <3>2
  <2> QED
    BY <1>1, <2>2 DEF CurrentInv, Current
<1>5. \A c \in subs : client[c].pc # "away"
  BY DEF StreamInv, HubInv, HubTypes, EntryOK
<1> QED
  BY <1>1, <1>2, <1>4, <1>5 DEF CurrentInv

LEMMA SendCurrent ==
  ASSUME StreamInv, CurrentInv, NEW c \in Clients, Send(c) PROVE CurrentInv'
<1>1. /\ UNCHANGED <<last, subs>> /\ poller.pc \in DOMAIN SendPhase
      /\ c \in poller.targets /\ poller \in PollerState
      /\ client[c] \in Client /\ client[c].pc # "away"
  BY DEF Send, StreamInv, PollTypes, HubInv, HubTypes, CurrentInv
<1>2. CASE UNCHANGED <<client, poller>>
  BY <1>1, <1>2 DEF CurrentInv, Current, WillHave
<1>3. CASE /\ client' = [client EXCEPT ![c] = Delivered(c)]
           /\ poller' = [poller EXCEPT !.targets = Remaining(c)]
  <2>1. /\ client'[c] = Delivered(c)
        /\ \A d \in Clients \ {c} : client'[d] = client[d]
    BY <1>3 DEF StreamInv, HubInv, HubTypes
  <2>2. /\ poller'.pc = poller.pc /\ poller'.event = poller.event
        /\ poller'.targets = poller.targets \ {c}
    BY <1>1, <1>3 DEF PollerState, Remaining
  <2>3. Delivered(c).pc = client[c].pc
    BY <1>1 DEF Delivered, Client
  <2>4. ASSUME NEW d \in subs \ {c} PROVE Current(d)'
    <3>1. d \in Clients
      BY DEF StreamInv, HubInv, HubTypes
    <3> QED
      BY <1>1, <2>1, <2>2, <3>1 DEF CurrentInv, Current, WillHave
  <2>5. c \in subs => Current(c)'
    <3> SUFFICES ASSUME c \in subs, Delivered(c).pc = "reading", ~Delivered(c).lost,
                        NEW i \in Items
                 PROVE  Drains(Delivered(c).buf, Delivered(c).view, i, last[i])
      BY <1>1, <2>1, <2>2 DEF Current, WillHave
    <3>1. HasRoom(c)
      BY <1>1, <2>3 DEF Delivered, Client
    <3>2. Delivered(c) = [client[c] EXCEPT !.buf = Append(client[c].buf, poller.event)]
      BY <2>3, <3>1 DEF Delivered
    <3> HIDE DEF Delivered
    <3>3. /\ Delivered(c).buf = Append(client[c].buf, poller.event)
          /\ Delivered(c).view = client[c].view
          /\ client[c].pc = "reading" /\ ~client[c].lost
          /\ client[c].buf \in Seq(Event) /\ poller.event \in Event
      BY <1>1, <2>3, <3>2 DEF Client, PollerState
    <3>4. WillHave(c, i)
      BY <3>3 DEF CurrentInv, Current
    <3> QED
      BY <1>1, <3>3, <3>4, DrainsAppend DEF WillHave
  <2> QED
    BY <1>1, <2>1, <2>2, <2>3, <2>4, <2>5 DEF CurrentInv
<1> QED
  BY <1>2, <1>3 DEF Send

\* A step of the client's own goroutines: the others do not notice.
LEMMA ClientCurrent ==
  ASSUME StreamInv, CurrentInv, NEW c \in Clients, NEW from, NEW next,
         ClientStep(c, from, next), subs' \subseteq subs \cup {c},
         next.pc # "away",
         c \in subs' /\ next.pc = "reading" /\ ~next.lost =>
           \A i \in Items :
             IF poller.event.item = i /\ c \in poller.targets
             THEN poller.event.status = last[i]
             ELSE Drains(next.buf, next.view, i, last[i])
  PROVE  CurrentInv'
<1>1. /\ client' = [client EXCEPT ![c] = next]
      /\ UNCHANGED <<last, poller>>
  BY DEF ClientStep
<1>2. client'[c] = next /\ \A d \in Clients \ {c} : client'[d] = client[d]
  BY <1>1 DEF StreamInv, HubInv, HubTypes
<1>3. Current(c)' \/ c \notin subs'
  BY <1>1, <1>2 DEF Current, WillHave
<1>4. ASSUME NEW d \in Clients \ {c}, d \in subs PROVE Current(d)'
  BY <1>1, <1>2, <1>4 DEF CurrentInv, Current, WillHave
<1>5. subs' \subseteq Clients
  BY DEF StreamInv, HubInv, HubTypes
<1>6. \A d \in subs' : Current(d)'
  BY <1>3, <1>4, <1>5
<1> QED
  BY <1>1, <1>2, <1>6 DEF CurrentInv

LEMMA SubscribeCurrent ==
  ASSUME StreamInv, CurrentInv, NEW c \in Clients, Subscribe(c) PROVE CurrentInv'
<1> DEFINE refused == [client[c] EXCEPT !.pc = "refused"]
           reading == [client[c] EXCEPT !.pc = "reading", !.open = TRUE, !.view = last]
<1>1. /\ client[c] \in Client /\ client[c].pc = "away"
      /\ client[c].buf = <<>> /\ c \notin poller.targets
  BY DEF Subscribe, ClientStep, StreamInv, HubInv, HubTypes, CurrentInv
<1>2. /\ refused.pc = "refused"
      /\ reading.pc = "reading" /\ reading.buf = <<>> /\ reading.view = last
  BY <1>1 DEF Client
<1>3. \/ ClientStep(c, {"away"}, refused) /\ subs' = subs
      \/ ClientStep(c, {"away"}, reading) /\ subs' = subs \cup {c}
  BY DEF Subscribe
<1> HIDE DEF refused, reading
<1>4. CASE ClientStep(c, {"away"}, refused) /\ subs' = subs
  BY <1>2, <1>4, ClientCurrent
<1>5. CASE ClientStep(c, {"away"}, reading) /\ subs' = subs \cup {c}
  <2>1. \A i \in Items : Drains(reading.buf, reading.view, i, last[i])
    BY <1>2 DEF Drains
  <2> QED
    BY <1>1, <1>2, <1>5, <2>1, ClientCurrent
<1> QED
  BY <1>3, <1>4, <1>5

LEMMA ReceiveCurrent ==
  ASSUME StreamInv, CurrentInv, NEW c \in Clients, Receive(c) PROVE CurrentInv'
<1> DEFINE ev   == Head(client[c].buf)
           view == IF ev = Beat \/ client[c].lost THEN client[c].view
                   ELSE [client[c].view EXCEPT ![ev.item] = ev.status]
           next == [client[c] EXCEPT !.buf = Tail(client[c].buf), !.view = view]
<1>1. /\ client[c] \in Client /\ client[c].buf # <<>> /\ client[c].pc = "reading"
      /\ UNCHANGED <<subs>>
  BY DEF Receive, ClientStep, StreamInv, HubInv, HubTypes
<1>2. ClientStep(c, {"reading"}, next)
  BY DEF Receive
<1>3. /\ next.pc = "reading" /\ next.lost = client[c].lost
      /\ next.buf = Tail(client[c].buf) /\ next.view = view
      /\ client[c].buf \in Seq(Event) /\ client[c].view \in [Items -> Status]
  BY <1>1 DEF Client
<1> HIDE DEF next
<1>4. ASSUME c \in subs, ~client[c].lost, NEW i \in Items
      PROVE  IF poller.event.item = i /\ c \in poller.targets
             THEN poller.event.status = last[i]
             ELSE Drains(next.buf, next.view, i, last[i])
  <2>1. WillHave(c, i)
    BY <1>1, <1>4 DEF CurrentInv, Current
  <2>2. view = IF Head(client[c].buf) = Beat THEN client[c].view
               ELSE [client[c].view EXCEPT ![Head(client[c].buf).item] =
                                              Head(client[c].buf).status]
    BY <1>4
  <2> HIDE DEF view, ev
  <2>3. Drains(client[c].buf, client[c].view, i, last[i])
          => Drains(next.buf, next.view, i, last[i])
    BY <1>1, <1>3, <2>2, DrainsTail
  <2> QED
    BY <2>1, <2>3 DEF WillHave
<1> HIDE DEF view, ev
<1> QED
  BY <1>1, <1>2, <1>3, <1>4, ClientCurrent

\* Once its handler returned, nothing is owed to a client.
LEMMA LeavingCurrent ==
  ASSUME StreamInv, CurrentInv, NEW c \in Clients,
         Return(c) \/ Unsubscribe(c) \/ Remove(c)
  PROVE  CurrentInv'
<1>1. client[c] \in Client
  BY DEF StreamInv, HubInv, HubTypes
<1>2. \E from, next : ClientStep(c, from, next) /\ next.pc = "gone"
  <2>1. CASE Return(c)
    <3>1. [NewClient EXCEPT !.pc = "gone", !.once = client[c].once,
                            !.open = client[c].open].pc = "gone"
      BY DEF NewClient
    <3> QED
      BY <2>1, <3>1 DEF Return
  <2>2. CASE Unsubscribe(c)
    <3>1. client[c].pc = "gone"
      BY <2>2 DEF Unsubscribe, ClientStep
    <3>2. [client[c] EXCEPT !.once = "running", !.unsub = "stopping"].pc = "gone"
      BY <1>1, <3>1 DEF Client
    <3> QED
      BY <2>2, <3>2 DEF Unsubscribe
  <2>3. CASE Remove(c)
    <3>1. client[c].pc = "gone"
      BY <2>3 DEF Remove, ClientStep
    <3>2. [client[c] EXCEPT !.unsub = "removed"].pc = "gone"
      BY <1>1, <3>1 DEF Client
    <3> QED
      BY <2>3, <3>2 DEF Remove
  <2> QED
    BY <2>1, <2>2, <2>3
<1>3. subs' \subseteq subs
  BY DEF Return, Unsubscribe, Remove
<1> QED
  BY <1>2, <1>3, ClientCurrent

\* Steps that tell no client anything: closing a channel keeps what is in it.
LEMMA ChannelsKept ==
  ASSUME StreamInv, CurrentInv, UNCHANGED <<last, poller>>, subs' \subseteq subs,
         \A c \in Clients :
           /\ client'[c].pc = client[c].pc /\ client'[c].lost = client[c].lost
           /\ client'[c].buf = client[c].buf /\ client'[c].view = client[c].view
  PROVE  CurrentInv'
<1>1. subs \subseteq Clients
  BY DEF StreamInv, HubInv, HubTypes
<1>2. ASSUME NEW c \in subs PROVE Current(c)'
  BY <1>1 DEF CurrentInv, Current, WillHave
<1> QED
  BY <1>2 DEF CurrentInv

LEMMA ClosingCurrent ==
  ASSUME StreamInv, CurrentInv,
         \/ CloseStarts \/ CloserNext \/ \E i \in Items : Advance(i)
         \/ \E c \in Clients : Unsubscribed(c)
         \/ UNCHANGED svars
  PROVE  CurrentInv'
<1>1. UNCHANGED <<last, poller>> /\ subs' \subseteq subs
  BY DEF CloseStarts, CloserNext, CloseUnlocks, CloseReturns, CloseSubscriber,
         Advance, Unsubscribed, svars
<1>2. \/ UNCHANGED client
      \/ \E c \in Clients : \E unsub : CloseChannel(c, unsub)
  BY DEF CloseStarts, CloserNext, CloseUnlocks, CloseReturns, CloseSubscriber,
         Advance, Unsubscribed, svars
<1>3. ASSUME NEW c \in Clients, NEW unsub, CloseChannel(c, unsub), NEW d \in Clients
      PROVE  /\ client'[d].pc = client[d].pc /\ client'[d].lost = client[d].lost
             /\ client'[d].buf = client[d].buf /\ client'[d].view = client[d].view
  <2>1. /\ client \in [Clients -> Client]
        /\ client' = [client EXCEPT ![c].once = "done", ![c].unsub = unsub,
                                    ![c].open = FALSE]
    BY <1>3 DEF CloseChannel, StreamInv, HubInv, HubTypes
  <2> QED
    BY <2>1 DEF Client
<1> QED
  BY <1>1, <1>2, <1>3, ChannelsKept

LEMMA CurrentNextInv == StreamInv /\ CurrentInv /\ [StreamNext]_svars => CurrentInv'
<1> SUFFICES ASSUME StreamInv, CurrentInv, [StreamNext]_svars PROVE CurrentInv'
  OBVIOUS
<1>1. CASE PollerNext
  <2>1. /\ Runs \subseteq Items /\ Builds \subseteq Items
        /\ "runs" \notin DOMAIN SendPhase /\ "builds" \notin DOMAIN SendPhase
        /\ "runs send" \in DOMAIN SendPhase /\ "builds send" \in DOMAIN SendPhase
    BY DEF Items, SendPhase
  <2>2. ASSUME NEW i \in Items,
               Announce("runs", "runs send", i) \/ Announce("builds", "builds send", i)
        PROVE  CurrentInv'
    BY <2>1, <2>2, AnnounceCurrent
  <2>3. CASE \/ \E i \in Runs : Announce("runs", "runs send", i)
             \/ \E i \in Builds : Announce("builds", "builds send", i)
    BY <2>1, <2>2, <2>3
  <2>4. CASE \E c \in Clients : Send(c)
    BY <2>4, SendCurrent
  <2> QED
    BY <1>1, <2>3, <2>4, PhaseCurrent DEF PollerNext
<1>2. CASE \E c \in Clients : Subscribe(c) \/ Receive(c)
  BY <1>2, SubscribeCurrent, ReceiveCurrent
<1>3. CASE \E c \in Clients : Return(c) \/ Unsubscribe(c) \/ Remove(c)
  BY <1>3, LeavingCurrent
<1>4. CASE \/ CloseStarts \/ CloserNext \/ \E i \in Items : Advance(i)
           \/ \E c \in Clients : Unsubscribed(c)
           \/ UNCHANGED svars
  BY <1>4, ClosingCurrent
<1> QED
  BY <1>1, <1>2, <1>3, <1>4
     DEF StreamNext, Depart, Handler, ChannelClosed, Unwinding

\* Hub.Broadcast drops an event only for the client whose channel is full: any
\* other one that reads has, or is about to receive, the poller's last word on
\* every run and build, whichever clients come, leave or lag meanwhile.
THEOREM ClientsStayCurrent == StreamSpec => []CurrentUnlessDropped
<1>1. StreamInv /\ CurrentInv => CurrentUnlessDropped
  <2> SUFFICES ASSUME StreamInv, CurrentInv, NEW c \in subs,
                      client[c].pc = "reading", ~client[c].lost, NEW i \in Items
               PROVE  Announced(c, i) = last[i]
    BY DEF CurrentUnlessDropped
  <2>1. c \in Clients /\ WillHave(c, i)
    BY DEF CurrentInv, Current, StreamInv, HubInv, HubTypes
  <2> QED
    BY <2>1, AnnouncedIsDrained DEF WillHave
<1> QED
  BY <1>1, CurrentInvInit, StreamInvHolds, CurrentNextInv, PTL DEF StreamSpec
=============================================================================
