-------------------------- MODULE CriticalDelivery --------------------------
(***************************************************************************)
(* Critical events from the audit table to the screen: HubAgent.cpp on the *)
(* Agent's main thread, the local socket, and HubClient.cpp with the GUI.  *)
(*                                                                         *)
(* The Agent pages recorded events to a client and broadcasts new ones; a  *)
(* client acknowledges an event when the GUI has rendered it, and keeps    *)
(* the identifier of the last one as its durable cursor.  The writer's     *)
(* thread, the Agent's, the client's and the GUI's are interleaved, and    *)
(* the socket is a pair of queues that may be cut at any time.             *)
(***************************************************************************)
EXTENDS AuditSpool, FiniteSetsExt

CONSTANTS
    PageSize,     \* bound: the most rows of a page
    MaxReplaced,  \* bound: how often the database is replaced
    MaxDrops,     \* bound: how often a connection is cut or the UI quits
    MaxMisreads   \* bound: how many reads in a session may fail

ASSUME DeliveryAssumption ==
    /\ PageSize \in Nat \ {0} /\ MaxReplaced \in Nat
    /\ MaxDrops \in Nat /\ MaxMisreads \in Nat

VARIABLES
    epoch,        \* audit_epoch, kept in the database (durable)
    floorSeen,    \* criticalEventFloor_
    highSeen,     \* criticalEventHighWater_
    session,      \* the Agent's ClientState of the one client
    reading,      \* where the Agent's thread is in enqueueCriticalReplay
    toAgent,      \* the socket
    toClient,
    linked,       \* the client's socket is connected
    helloDone,    \* helloComplete_
    cursor,       \* lastCriticalEventId_ (durable)
    cursorEpoch,  \* lastCriticalEventEpoch_ (durable), and auditEpoch_
    pending,      \* pendingCriticalEventIds_
    inbox,        \* criticalEvents_
    gui,          \* queued eventReceived signals
    acks,         \* queued criticalEventRendered signals
    shown,        \* history: the epochs and identifiers the GUI rendered
    misled,       \* history: a session went on without what it had to read
    drops, misreads

hub == <<floorSeen, highSeen, session, reading>>
wire == <<toAgent, toClient>>
durable == <<cursor, cursorEpoch>>
client == <<linked, helloDone, durable, pending, inbox, gui, acks, shown>>
reads == <<misled, misreads>>
deliveryVars == <<epoch, hub, wire, client, reads, drops>>
vars == <<spoolVars, deliveryVars>>

-----------------------------------------------------------------------------
(* Messages.                                                               *)

HelloFromAgent(f, h) ==
    [kind |-> "hello", floor |-> f, high |-> h, epoch |-> epoch]
EventFrame(i) == [kind |-> "event", id |-> i]

\* Mutant: a client asks for what follows the last event it was sent.
HelloFromQueued ==
    [kind |-> "hello", id |-> Max(pending \union {cursor}), epoch |-> cursorEpoch]

HelloFromClient == [kind |-> "hello", id |-> cursor, epoch |-> cursorEpoch]

AckFrame(i) == [kind |-> "ack", id |-> i, epoch |-> cursorEpoch]

NoSession == [state |-> "off", ack |-> 0, through |-> 0, replaying |-> FALSE]

\* Mutant: the oldest row of the window is taken for one that was deleted.
SkipsFloor(f, i) == IF f > 0 /\ i < f THEN f ELSE i

\* Where a replay resumes: behind what retention has deleted.
NotBelow(f, i) == IF f > 0 /\ i < f - 1 THEN f - 1 ELSE i

\* Mutant: an acknowledgement does not carry the connection's generation.
KeepsFresh(items) == items

\* Events the GUI holds for an earlier connection are not acknowledged.
Stale(items) ==
    [k \in DOMAIN items |-> [items[k] EXCEPT !.fresh = FALSE]]

-----------------------------------------------------------------------------
Init ==
    /\ SpoolInit
    /\ epoch = 1
    /\ floorSeen = 0 /\ highSeen = 0
    /\ session = NoSession /\ reading = "no"
    /\ toAgent = <<>> /\ toClient = <<>>
    /\ linked = FALSE /\ helloDone = FALSE
    /\ cursor = 0 /\ cursorEpoch = 0
    /\ pending = {} /\ inbox = <<>> /\ gui = <<>> /\ acks = <<>>
    /\ shown = {}
    /\ drops = 0 /\ misled = FALSE /\ misreads = 0

\* HubAgent::start reads the bounds before the writer runs.
Start ==
    /\ StartWriter
    /\ floorSeen' = Floor /\ highSeen' = High
    /\ UNCHANGED <<epoch, session, reading, wire, client, reads, drops>>

\* What the client has received before the Agent died it may still read.
Crash ==
    /\ WriterDies
    /\ floorSeen' = 0 /\ highSeen' = 0
    /\ session' = NoSession /\ reading' = "no"
    /\ toAgent' = <<>>
    /\ UNCHANGED <<epoch, toClient, client, reads, drops>>

\* The operator replaces the database while the Agent is down.
ReplaceDatabase ==
    /\ ~up
    /\ epoch <= MaxReplaced
    /\ epoch' = epoch + 1
    /\ log' = <<>> /\ pruned' = 0
    /\ kept' = kept \intersect ToSet(spool)
    /\ UNCHANGED <<file, spool, up, writer, limits, hub, wire, client, reads, drops>>

Write == WriterStep /\ UNCHANGED deliveryVars

-----------------------------------------------------------------------------
(* The Agent's thread: one handler at a time.                              *)

HubRuns == up /\ reading = "no"

\* onEvent: the event is queued to the writer.
Emit(e) == reading = "no" /\ Enqueue(e) /\ UNCHANGED deliveryVars

CachedHello == HelloFromAgent(floorSeen, highSeen)

SendHello ==
    toClient' = IF session.state = "on" THEN Append(toClient, CachedHello)
                ELSE toClient

\* onEvent: there is no room, the clients are told that audit is unhealthy.
Overflow ==
    /\ reading = "no"
    /\ Emits
    /\ ~RoomForEvent
    /\ SendHello
    /\ UNCHANGED <<toWriter, toHub, epoch, hub, toAgent, client, reads, drops>>

\* The cursor a client asks for, zero if it is not one of this table.
RequestedCursor(m, h) == IF m.epoch = epoch /\ m.id <= h THEN m.id ELSE 0

\* processClientMessage: the client's hello, answered before the first page.
Greet ==
    /\ HubRuns
    /\ session.state = "greeting"
    /\ toAgent # <<>>
    /\ LET ack == NotBelow(Floor, RequestedCursor(Head(toAgent), High))
       IN session' = [state |-> "on", ack |-> ack, through |-> ack,
                      replaying |-> FALSE]
    /\ toAgent' = Tail(toAgent)
    /\ floorSeen' = Floor /\ highSeen' = High
    /\ toClient' = Append(toClient, HelloFromAgent(Floor, High))
    /\ reading' = "bounds"
    /\ UNCHANGED <<spoolVars, epoch, client, reads, drops>>

\* criticalEventBounds forgets the bounds it has before it reads them.
ForgetBounds == floorSeen' = 0 /\ highSeen' = 0

\* A read that fails behind the hello is reported to the client, and that is
\* all: the connection stays, and the session with what it says of the client.
Misread ==
    /\ up
    /\ misreads < MaxMisreads
    /\ misreads' = misreads + 1
    /\ reading' = "no"
    /\ UNCHANGED <<spoolVars, epoch, session, wire, client, drops>>

\* enqueueCriticalReplay reads the bounds ...
ReadBounds ==
    /\ up
    /\ reading = "bounds"
    /\ floorSeen' = Floor /\ highSeen' = High
    /\ LET after == NotBelow(Floor, session.through)
       IN session' = IF after = session.through THEN session
                     ELSE [session EXCEPT !.ack = after, !.through = after]
    /\ reading' = "page"
    /\ UNCHANGED <<spoolVars, epoch, wire, client, reads, drops>>

\* ... which may fail,
BoundsUnreadable ==
    /\ reading = "bounds"
    /\ Misread
    /\ ForgetBounds
    /\ misled' = TRUE

\* The next rows in order, none left out.
IsPage(page, rows) ==
    /\ \A m, n \in DOMAIN page : m < n => page[m] < page[n]
    /\ \A i \in rows : i <= page[Len(page)] => \E k \in DOMAIN page : page[k] = i

\* ... and then a page, which ends at its byte budget or at its size.
ReadPage ==
    /\ up
    /\ reading = "page"
    /\ reading' = "no"
    /\ LET rows == {i \in Rows : i > session.through}
       IN IF rows = {}
          THEN session' = [session EXCEPT !.replaying = FALSE]
               /\ UNCHANGED toClient
          ELSE \E n \in 1 .. PageSize : \E page \in [1 .. n -> rows] :
                 /\ IsPage(page, rows)
                 /\ session' = [session EXCEPT !.replaying = TRUE,
                                               !.through = page[n]]
                 /\ toClient' = toClient \o [k \in 1 .. n |-> EventFrame(page[k])]
    /\ UNCHANGED <<spoolVars, epoch, floorSeen, highSeen, toAgent, client, reads, drops>>

\* ... unless that fails: a client that is being paged waits for a page that will
\* not come, to another one what is recorded next is broadcast, whatever the
\* page would have had.
PageUnreadable ==
    /\ reading = "page"
    /\ Misread
    /\ misled' = (misled \/ ~session.replaying)
    /\ UNCHANGED <<floorSeen, highSeen>>

\* broadcast: the client is not being paged and has not been sent the event.
IsBroadcast(i) ==
    /\ session.state = "on"
    /\ ~session.replaying
    /\ i > session.ack /\ i > session.through

\* onCriticalRecorded.
HearRecorded ==
    /\ HubRuns
    /\ toHub # <<>> /\ Head(toHub).kind = "recorded"
    /\ toHub' = Tail(toHub)
    /\ LET i == Head(toHub).id
       IN /\ floorSeen' = IF floorSeen = 0 THEN i ELSE floorSeen
          /\ highSeen' = Max({highSeen, i})
          /\ IF IsBroadcast(i)
             THEN /\ session' = [session EXCEPT !.through = i]
                  /\ toClient' = Append(toClient, EventFrame(i))
             ELSE UNCHANGED <<session, toClient>>
    /\ UNCHANGED <<stored, up, ready, toWriter, offset, draining, kept, limits,
                   epoch, reading, toAgent, client, reads, drops>>

\* onAuditReadyChanged.
HearStatus ==
    /\ HubRuns
    /\ toHub # <<>> /\ Head(toHub).kind = "status"
    /\ toHub' = Tail(toHub)
    /\ SendHello
    /\ UNCHANGED <<stored, up, ready, toWriter, offset, draining, kept, limits,
                   epoch, hub, toAgent, client, reads, drops>>

\* Mutant: an acknowledgement that completes a page does not ask for the next.
NeverPages(ack) == FALSE

\* The client has acknowledged all that was sent to it.
NextPageDue(ack) == ack >= session.through

\* processClientMessage: critical_ack.
TakeAck ==
    /\ HubRuns
    /\ session.state = "on"
    /\ toAgent # <<>>
    /\ toAgent' = Tail(toAgent)
    /\ LET m == Head(toAgent)
           ack == Max({session.ack, m.id})
       IN IF m.epoch # epoch \/ m.id > session.through
          THEN UNCHANGED <<session, reading>>
          ELSE /\ session' = [session EXCEPT !.ack = ack]
               /\ reading' = IF NextPageDue(ack) THEN "bounds" ELSE "no"
    /\ UNCHANGED <<spoolVars, epoch, floorSeen, highSeen, toClient, client, reads, drops>>

-----------------------------------------------------------------------------
(* The connection.                                                         *)

Cut ==
    /\ drops < MaxDrops
    /\ drops' = drops + 1
    /\ session' = NoSession
    /\ toAgent' = <<>>
    /\ UNCHANGED reads

\* The Agent disconnects a client that does not read.
AgentDrops ==
    /\ HubRuns
    /\ session.state = "on"
    /\ Cut
    /\ UNCHANGED <<spoolVars, epoch, floorSeen, highSeen, reading, toClient, client>>

\* A client is disconnected, too, if the bounds cannot be read for its hello.
GreetUnreadable ==
    /\ HubRuns
    /\ session.state = "greeting"
    /\ toAgent # <<>>
    /\ Cut
    /\ ForgetBounds
    /\ UNCHANGED <<spoolVars, epoch, reading, toClient, client>>

\* The client aborts its socket; what it still holds it may still show.
ClientDrops ==
    /\ linked
    /\ reading = "no"
    /\ Cut
    /\ toClient' = <<>>
    /\ linked' = FALSE /\ helloDone' = FALSE
    /\ UNCHANGED <<spoolVars, epoch, floorSeen, highSeen, reading, durable,
                   pending, inbox, gui, acks, shown>>

\* The UI quits: its cursor remains.
UIQuits ==
    /\ linked
    /\ reading = "no"
    /\ Cut
    /\ toClient' = <<>>
    /\ linked' = FALSE /\ helloDone' = FALSE
    /\ pending' = {} /\ inbox' = <<>> /\ gui' = <<>> /\ acks' = <<>>
    /\ UNCHANGED <<spoolVars, epoch, floorSeen, highSeen, reading, durable, shown>>

\* onDisconnected.
ClientNotices ==
    /\ linked
    /\ session.state = "off"
    /\ linked' = FALSE /\ helloDone' = FALSE
    /\ toClient' = <<>>
    /\ UNCHANGED <<spoolVars, epoch, hub, toAgent, durable, pending, inbox, gui,
                   acks, shown, reads, drops>>

\* onConnected: a new generation, that asks for what follows the cursor.
Connect ==
    /\ HubRuns
    /\ ~linked
    /\ session.state = "off"
    /\ linked' = TRUE /\ helloDone' = FALSE
    /\ session' = [NoSession EXCEPT !.state = "greeting"]
    /\ pending' = {} /\ inbox' = <<>> /\ gui' = Stale(gui) /\ acks' = <<>>
    /\ toAgent' = <<HelloFromClient>>
    /\ toClient' = <<>>
    /\ UNCHANGED <<spoolVars, epoch, floorSeen, highSeen, reading, durable, shown,
                   reads, drops>>

-----------------------------------------------------------------------------
(* The client's thread.                                                    *)

\* Mutant: only a cursor ahead of the table is given up, not one of another.
OnlyRolledBack(m) == cursor > m.high

\* The cursor is not one of this table, or is ahead of it.
CursorInvalid(m) == m.epoch # cursorEpoch \/ cursor > m.high

\* onReadyRead: a hello, also one in the middle of a session.
ClientTakesHello ==
    /\ linked
    /\ toClient # <<>> /\ Head(toClient).kind = "hello"
    /\ toClient' = Tail(toClient)
    /\ helloDone' = TRUE
    /\ LET m == Head(toClient)
       IN /\ cursorEpoch' = m.epoch
          /\ IF CursorInvalid(m)
             THEN /\ cursor' = 0
                  /\ pending' = {} /\ inbox' = <<>>
                  /\ gui' = Stale(gui) /\ acks' = <<>>
             ELSE /\ cursor' = NotBelow(m.floor, cursor)
                  /\ UNCHANGED <<pending, inbox, gui, acks>>
    /\ UNCHANGED <<spoolVars, epoch, hub, toAgent, linked, shown, reads, drops>>

\* queueEvent: an event that was shown or is waiting to be is dropped.
ClientTakesEvent ==
    /\ linked
    /\ toClient # <<>> /\ Head(toClient).kind = "event"
    /\ toClient' = Tail(toClient)
    /\ LET i == Head(toClient).id
       IN IF i <= cursor \/ i \in pending
          THEN UNCHANGED <<inbox, pending>>
          ELSE /\ inbox' = Append(inbox, [id |-> i, epoch |-> cursorEpoch,
                                          fresh |-> TRUE])
               /\ pending' = pending \union {i}
    /\ UNCHANGED <<spoolVars, epoch, hub, toAgent, linked, helloDone, durable,
                   gui, acks, shown, reads, drops>>

\* flushDelivery.
Flush ==
    /\ inbox # <<>>
    /\ gui' = gui \o inbox
    /\ inbox' = <<>>
    /\ UNCHANGED <<spoolVars, epoch, hub, wire, linked, helloDone, durable,
                   pending, acks, shown, reads, drops>>

\* MainWindow::onEvent: the event is on the screen, the client is told.
Render ==
    /\ gui # <<>>
    /\ gui' = Tail(gui)
    /\ shown' = shown \union {<<Head(gui).epoch, Head(gui).id>>}
    /\ acks' = IF Head(gui).fresh THEN Append(acks, Head(gui).id) ELSE acks
    /\ UNCHANGED <<spoolVars, epoch, hub, wire, linked, helloDone, durable,
                   pending, inbox, reads, drops>>

\* acknowledgeCriticalEvent.
Acknowledge ==
    /\ acks # <<>>
    /\ acks' = Tail(acks)
    /\ LET i == Head(acks)
       IN IF i \in pending /\ i > cursor
          THEN /\ cursor' = i
               /\ pending' = {p \in pending : p > i}
               /\ toAgent' = IF linked /\ helloDone /\ session.state # "off"
                             THEN Append(toAgent, AckFrame(i)) ELSE toAgent
          ELSE UNCHANGED <<cursor, pending, toAgent>>
    /\ UNCHANGED <<spoolVars, epoch, hub, toClient, linked, helloDone, cursorEpoch,
                   inbox, gui, shown, reads, drops>>

-----------------------------------------------------------------------------
AgentStep ==
    \/ (\E e \in Events : Emit(e)) \/ Overflow
    \/ Greet \/ ReadBounds \/ ReadPage \/ BoundsUnreadable \/ PageUnreadable
    \/ HearRecorded \/ HearStatus \/ TakeAck

ConnectionStep ==
    \/ AgentDrops \/ GreetUnreadable \/ ClientDrops \/ UIQuits \/ ClientNotices \/ Connect

ClientStep ==
    \/ ClientTakesHello \/ ClientTakesEvent \/ Flush \/ Render \/ Acknowledge

Next ==
    \/ Start \/ Crash \/ ReplaceDatabase
    \/ Write \/ AgentStep \/ ConnectionStep \/ ClientStep

\* launchd restarts the Agent, a client reconnects by its timer, and every
\* event loop takes what is queued to it.
Fairness ==
    /\ WF_vars(Start) /\ WF_vars(Write)
    /\ WF_vars(Greet) /\ WF_vars(ReadBounds) /\ WF_vars(ReadPage)
    /\ WF_vars(HearRecorded) /\ WF_vars(HearStatus) /\ WF_vars(TakeAck)
    /\ WF_vars(ClientNotices) /\ WF_vars(Connect)
    /\ WF_vars(ClientStep)

Spec == Init /\ [][Next]_vars /\ Fairness

-----------------------------------------------------------------------------
(* Properties.                                                             *)

Items == [id : Nat \ {0}, epoch : 1 .. epoch, fresh : BOOLEAN]

FromAgent == [kind : {"hello"}, floor : Nat, high : Nat, epoch : 1 .. epoch]
             \union [kind : {"event"}, id : Nat \ {0}]

FromClient == [kind : {"hello", "ack"}, id : Nat, epoch : 0 .. epoch]

\* Every variable has its type, a page is read only for a client, and what is
\* acknowledged has been sent.
TypeOK ==
    /\ SpoolTypeOK
    /\ epoch \in 1 .. MaxReplaced + 1
    /\ floorSeen \in Nat /\ highSeen \in Nat
    /\ session \in [state : {"off", "greeting", "on"}, ack : Nat, through : Nat,
                    replaying : BOOLEAN]
    /\ session.ack <= session.through
    /\ reading \in {"no", "bounds", "page"}
    /\ reading # "no" => session.state = "on"
    /\ toAgent \in Seq(FromClient) /\ toClient \in Seq(FromAgent)
    /\ linked \in BOOLEAN /\ helloDone \in BOOLEAN
    /\ cursor \in Nat /\ cursorEpoch \in 0 .. epoch
    /\ pending \subseteq Nat \ {0}
    /\ inbox \in Seq(Items) /\ gui \in Seq(Items)
    /\ acks \in Seq(Nat \ {0})
    /\ shown \subseteq (1 .. epoch) \X (Nat \ {0})
    /\ drops \in 0 .. MaxDrops /\ misreads \in 0 .. MaxMisreads
    /\ misled \in BOOLEAN /\ (misled => misreads > 0)

\* A cursor never passes an event the operator has not seen: whatever was
\* lost on the way, every row of the table up to the cursor was rendered, also
\* where a page for a client that is being paged could not be read.  Not so once
\* a read behind a hello failed: the Agent then broadcasts over rows it has not
\* paged (enqueueCriticalReplay), and the cursor follows.
\* broadcast and criticalEventsAfter, HubClient::acknowledgeCriticalEvent.
NoGap ==
    cursorEpoch = epoch /\ ~misled =>
        \A i \in Rows : i <= cursor => <<epoch, i>> \in shown

\* Where an event is on its way to the screen: in the socket, or held by the GUI
\* for the connection it came by.  It may also be in the inbox.
EventFrames == {k \in DOMAIN toClient : toClient[k].kind = "event"}
FreshItems == {k \in DOMAIN gui : gui[k].fresh}

IdsAt(q, places) == {q[k].id : k \in places}

SentIds == IdsAt(toClient, EventFrames)
InboxIds == IdsAt(inbox, DOMAIN inbox)
GuiIds == IdsAt(gui, FreshItems)

InFlight == GuiIds \union InboxIds \union SentIds

Ascends(q, places) == \A m, n \in places : m < n => q[m].id < q[n].id
Precede(A, B) == \A i \in A, j \in B : i < j

\* Events reach the screen in the order of their rows, whether they were paged
\* or broadcast, and an acknowledged one is not on its way again.
InFlightAscends ==
    /\ Ascends(gui, FreshItems) /\ Ascends(inbox, DOMAIN inbox)
    /\ Ascends(toClient, EventFrames)
    /\ Precede(GuiIds, InboxIds \union SentIds) /\ Precede(InboxIds, SentIds)
    /\ cursorEpoch = epoch /\ linked => \A i \in Rows \intersect InFlight : i > cursor

\* What the Agent has marked as sent to a client was rendered or is on its
\* way: the Agent will not send it again in this session.  Like NoGap, it ends
\* where a session goes on without the rows it could not read.
NothingSkipped ==
    session.state = "on" /\ ~misled =>
        \A i \in Rows : i <= session.through => <<epoch, i>> \in shown \/ i \in InFlight

Seen(e) ==
    \E i \in DOMAIN log : log[i] = e /\ (<<epoch, i>> \in shown \/ i <= pruned)

\* An accepted event is seen in the end, unless retention deletes it first,
\* through crashes of the Agent, cut connections and restarts of the UI.  Not so
\* where AcceptedIsRecorded ends, nor once a read behind a hello or for the next
\* page has failed, as nothing asks for the rows again in that session.
AcceptedIsSeen ==
    \A e \in Events :
        e \in kept ~> Seen(e) \/ tears > 0 \/ faults > 0 \/ misreads > 0
=============================================================================
