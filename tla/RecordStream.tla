----------------------------- MODULE RecordStream -----------------------------
(***************************************************************************)
(* The durable Record Event log of internal/recordevents and the Realtime  *)
(* streams of internal/realtimeapi that replay it.  A Record transaction   *)
(* appends an Event and prunes the oldest Events of the whole Project      *)
(* beyond the retention window, leaving a watermark per Collection.  A     *)
(* stream registers a subscription, reads its position, and then           *)
(* alternates between replaying pages and waiting for a wake-up.           *)
(*                                                                         *)
(* Each SQLite transaction or read snapshot, each critical section of the  *)
(* subscription mutex and each network write is one action.  Record        *)
(* snapshots are abstracted to a size; whether the row rule shows an Event *)
(* to the subscriber is chosen at each delivery, since rules are evaluated *)
(* again every time.                                                       *)
(***************************************************************************)
EXTENDS Integers, FiniteSets, FiniteSetsExt

CONSTANTS Collection, Stream,
          Watches,         \* the Collection each client subscribes to
          Anonymous,       \* clients that present no Session
          Sizes,           \* encoded sizes of an Event, in units of bytes
          EventLimit,      \* retentionEventLimit
          ByteLimit,       \* retentionByteLimit
          ReadBatch,       \* readBatchSize: Events in a replay page
          PageBytes,       \* maximumReadBatchBytes
          Connections,     \* maximumConnections
          ReplayPages,     \* maximumReplayPages: capacity of replaySlots
          MaxSequence,     \* bound: Events appended to each Collection
          Writers          \* bound: requests of one Collection that have
                           \* committed and not yet published

ASSUME StreamAssumption ==
  /\ Watches \in [Stream -> Collection] /\ Anonymous \subseteq Stream
  /\ {EventLimit, ByteLimit, ReadBatch, PageBytes, ReplayPages} \subseteq Nat \ {0}
  /\ Sizes \subseteq 1..PageBytes /\ PageBytes <= ByteLimit
  /\ {Connections, Writers} \subseteq Nat /\ MaxSequence \in [Collection -> Nat]

VARIABLES
  log,          \* the rows of modelry_record_events
  head,         \* last_sequence of each Collection (0: no row)
  mark,         \* pruned_sequence of each Collection (0: no row)
  exists,       \* Collections that have not been deleted
  admitted,     \* Collections whose Applied list rule admits the subscribers
  session,      \* clients whose Application Session is still valid
  unpublished,  \* committed mutations whose PublishCommitted is still due
  subs,         \* the service's subscriptions map
  wake,         \* clients whose one-slot wake channel is full
  closing,      \* Service.closed
  slots,        \* tokens in the replaySlots channel
  phase,        \* where each request handler is
  scan,         \* its scanSequence
  page,         \* the sequences of its page still to be delivered, in order
  cursor,       \* the last cursor the client received (None: it holds none)
  offered       \* history: the client was offered every Event up to here

None == -1
store    == <<log, head, mark>>
access   == <<exists, admitted, session>>
registry == <<subs, wake, closing, unpublished>>
client   == <<cursor, offered>>
stream   == <<slots, phase, scan, page>>
vars == <<store, access, registry, stream, client>>

Phases == {"off", "opening", "check", "slot", "read", "deliver", "write", "empty", "wait"}
Holding == {"read", "deliver", "write", "empty"} \* the phases that hold a slot
Replaying == Phases \ {"off", "opening"}       \* inside streamEvents

-----------------------------------------------------------------------------
(* The log. *)

EventRow == [ordinal : Nat, c : Collection, seq : Nat, size : Sizes]

\* SUM(byte_size): an Event of size n weighs n units.
Bytes(S) == Cardinality({x \in S \X (1..PageBytes) : x[2] <= x[1].size})

WithinLimits(S) == Cardinality(S) <= EventLimit /\ Bytes(S) <= ByteLimit

Since(S, e) == {x \in S : x.ordinal >= e.ordinal}

\* Rows are dropped in ordinal order until what is left fits both limits: a row
\* stays if it fits together with all that came after it.
Kept(S) == {e \in S : WithinLimits(Since(S, e))}

\* Mutant of Watermarks: the loop remembers its last row only.
WatermarksOfLast(gone) ==
  [c \in Collection |->
     Max({mark[c]} \cup {e.seq : e \in {e \in gone : e.c = c /\ Since(gone, e) = {e}}})]

\* The watermarks once the rows in gone are pruned.
Watermarks(gone) ==
  [c \in Collection |-> Max({mark[c]} \cup {e.seq : e \in {e \in gone : e.c = c}})]

\* Ordinals only order the rows: the next one is above those in the table.
NextOrdinal == Max({0} \cup {e.ordinal : e \in log}) + 1

Pruned(S) == log' = Kept(S) /\ mark' = Watermarks(S \ Kept(S))

SequencesOf(c) == {e.seq : e \in {e \in log : e.c = c}}

\* One replay page: the retained Events of c after n in sequence order, up to
\* the batch size and to the page's bytes.
Page(c, n) ==
  LET after   == {e \in log : e.c = c /\ e.seq > n}
      upTo(e) == {x \in after : x.seq <= e.seq}
  IN  {e.seq : e \in {e \in after : /\ Cardinality(upTo(e)) <= ReadBatch
                                    /\ Bytes(upTo(e)) <= PageBytes}}

Expired(c, n) == n < mark[c]

\* The same check inside the snapshot that reads a page; and without it.
Unchecked(s) == FALSE
Overtaken(s) == Expired(Watches[s], scan[s])

-----------------------------------------------------------------------------
Init ==
  /\ log = {}
  /\ head = [c \in Collection |-> 0] /\ mark = head
  /\ exists = Collection /\ admitted = Collection /\ session = Stream
  /\ unpublished = head
  /\ subs = {} /\ wake = {} /\ closing = FALSE
  /\ slots = 0 /\ phase = [s \in Stream |-> "off"]
  /\ scan = [s \in Stream |-> 0] /\ page = [s \in Stream |-> {}]
  /\ cursor = [s \in Stream |-> None]
  /\ offered = scan

(* Record mutations and the owner's actions. *)

\* AppendEventInTransaction inside a Record transaction that commits; one that
\* rolls back leaves nothing.
AppendEvent(c) ==
  /\ c \in exists /\ head[c] < MaxSequence[c] /\ unpublished[c] < Writers
  /\ \E size \in Sizes :
       Pruned(log \cup {[ordinal |-> NextOrdinal, c |-> c, seq |-> head[c] + 1,
                         size |-> size]})
  /\ head' = [head EXCEPT ![c] = @ + 1]
  /\ unpublished' = [unpublished EXCEPT ![c] = @ + 1]
  /\ UNCHANGED <<access, subs, wake, closing, stream, client>>

\* The subscriptions a publication wakes: those of the Collection, whatever they
\* are doing.  An unbuffered channel would reach only the waiting ones.
WokenWaiting(c) == {s \in subs : Watches[s] = c /\ phase[s] = "wait"}
Woken(c)        == {s \in subs : Watches[s] = c}

\* The committing request wakes every subscription of the Collection; a wake
\* already buffered absorbs this one.
PublishCommitted(c) ==
  /\ unpublished[c] > 0
  /\ unpublished' = [unpublished EXCEPT ![c] = @ - 1]
  /\ wake' = wake \cup Woken(c)
  /\ UNCHANGED <<store, access, subs, closing, stream, client>>

\* Deleting a Collection takes its Events, sequence and watermark with it.
DeleteCollection(c) ==
  /\ c \in exists /\ exists' = exists \ {c}
  /\ log' = {e \in log : e.c # c}
  /\ head' = [head EXCEPT ![c] = 0]
  /\ mark' = [mark EXCEPT ![c] = 0]
  /\ UNCHANGED <<admitted, session, registry, stream, client>>

\* The owner applies a list rule that refuses, or again admits, the subscribers.
ApplyListRule(c) ==
  /\ admitted' = IF c \in admitted THEN admitted \ {c} ELSE admitted \cup {c}
  /\ UNCHANGED <<store, exists, session, registry, stream, client>>

\* A Session is revoked or expires.
Revoke(s) ==
  /\ s \in session \ Anonymous /\ session' = session \ {s}
  /\ UNCHANGED <<store, exists, admitted, registry, stream, client>>

\* A client signs in again; its next connection carries the new token.
SignIn(s) ==
  /\ phase[s] = "off" /\ s \notin session /\ session' = session \cup {s}
  /\ UNCHANGED <<store, exists, admitted, registry, stream, client>>

\* What the client is entitled to.
HasAccess(s) == s \in session /\ Watches[s] \in exists \cap admitted

\* revalidate and collectionAllowed both pass. The mutant of Allowed: the rule alone.
AllowedByRule(s)    == Watches[s] \in exists \cap admitted
Allowed(s)          == s \in session /\ Watches[s] \in exists \cap admitted

-----------------------------------------------------------------------------
(* One request handler: handleSubscribe and streamEvents. *)

\* The handler returns; its deferred Close removes the subscription, and `held`
\* replay slots are given back.
End(s, held) ==
  /\ phase' = [phase EXCEPT ![s] = "off"]
  /\ page' = [page EXCEPT ![s] = {}]
  /\ scan' = [scan EXCEPT ![s] = 0]
  /\ slots' = slots - held
  /\ subs' = subs \ {s} /\ wake' = wake \ {s}
  /\ UNCHANGED <<unpublished, closing>>

Goto(s, p) == phase' = [phase EXCEPT ![s] = p]

Room == ~closing /\ Cardinality(subs) < Connections

\* Authenticated and admitted, the request takes a subscription unless the
\* Runtime is full or closing.
Subscribe(s) ==
  /\ phase[s] = "off" /\ Allowed(s) /\ Room
  /\ subs' = subs \cup {s} /\ wake' = wake \ {s}
  /\ Goto(s, "opening")
  /\ UNCHANGED <<store, access, closing, unpublished, slots, scan, page, client>>

\* The position read after subscribing turns away a cursor ahead of the head
\* or behind the watermark; such a client starts again without a cursor.
Turned(s) == LET c == Watches[s] IN
  /\ cursor[s] # None
  /\ cursor[s] > head[c] \/ Expired(c, cursor[s])

Refuse(s) ==
  /\ phase[s] = "opening" /\ Turned(s)
  /\ cursor' = [cursor EXCEPT ![s] = None]
  /\ offered' = [offered EXCEPT ![s] = 0]
  /\ End(s, 0)
  /\ UNCHANGED <<store, access>>

\* The rule is evaluated once more, and the first write may fail.
Abandon(s) ==
  /\ phase[s] = "opening" /\ ~Turned(s)
  /\ End(s, 0)
  /\ UNCHANGED <<store, access, client>>

\* A resumed stream scans on from its cursor, a new one from the head, which
\* stream.ready hands to the client as its first cursor.
Ready(s) == LET c == Watches[s] IN
  /\ phase[s] = "opening" /\ ~Turned(s) /\ c \in exists \cap admitted
  /\ LET from == IF cursor[s] = None THEN head[c] ELSE cursor[s] IN
       /\ scan' = [scan EXCEPT ![s] = from]
       /\ cursor' = [cursor EXCEPT ![s] = from]
       /\ offered' = [offered EXCEPT ![s] = IF cursor[s] = None THEN from ELSE @]
  /\ Goto(s, "check")
  /\ UNCHANGED <<store, access, registry, slots, page>>

\* The top of the loop: a stream the watermark has overtaken ends.
Check(s) ==
  /\ phase[s] = "check"
  /\ IF Expired(Watches[s], scan[s])
     THEN End(s, 0)
     ELSE Goto(s, "slot") /\ UNCHANGED <<registry, slots, scan, page>>
  /\ UNCHANGED <<store, access, client>>

SlotFree       == slots < ReplayPages

TakeSlot(s) ==
  /\ phase[s] = "slot" /\ SlotFree
  /\ slots' = slots + 1
  /\ Goto(s, "read")
  /\ UNCHANGED <<store, access, registry, scan, page, client>>

\* ReadAfter: the watermark is checked again in the snapshot that reads the page.
ReadAfter(s) == LET c == Watches[s] IN
  /\ phase[s] = "read"
  /\ \/ Overtaken(s) /\ End(s, 1)
     \/ /\ ~Overtaken(s) /\ Page(c, scan[s]) # {}
        /\ page' = [page EXCEPT ![s] = Page(c, scan[s])]
        /\ Goto(s, "deliver")
        /\ UNCHANGED <<registry, slots, scan>>
     \/ /\ ~Overtaken(s) /\ Page(c, scan[s]) = {}
        /\ Goto(s, "empty")
        /\ UNCHANGED <<registry, slots, scan, page>>
  /\ UNCHANGED <<store, access, client>>

\* With nothing to deliver the slot is returned, and the stream waits.
ReturnSlot(s) ==
  /\ phase[s] = "empty"
  /\ slots' = slots - 1
  /\ Goto(s, "wait")
  /\ UNCHANGED <<store, access, registry, scan, page, client>>

\* After an Event is written or hidden, the rest of the page follows; the slot
\* is returned with the last one.
Advance(s) ==
  /\ page' = [page EXCEPT ![s] = @ \ {Min(@)}]
  /\ IF page[s] # {Min(page[s])}
     THEN Goto(s, "deliver") /\ UNCHANGED slots
     ELSE Goto(s, "check") /\ slots' = slots - 1

\* The client's offers once the Event n has been hidden from it or received.
Offered(s, n) == [offered EXCEPT ![s] = IF n = @ + 1 THEN n ELSE @]

\* Before each Event the Session and the list rule are evaluated again; then
\* the row rule shows the Event or hides it.
Revalidate(s) == LET event == Min(page[s]) IN
  /\ phase[s] = "deliver"
  /\ \/ ~Allowed(s) /\ End(s, 1) /\ UNCHANGED offered
     \/ /\ Allowed(s)
        /\ scan' = [scan EXCEPT ![s] = event]
        /\ \/ Goto(s, "write") /\ UNCHANGED <<slots, page, offered>>
           \/ Advance(s) /\ offered' = Offered(s, event)
        /\ UNCHANGED registry
  /\ UNCHANGED <<store, access, cursor>>

\* writeFrame within its deadline: the client has the Event's identity.
WriteFrame(s) ==
  /\ phase[s] = "write"
  /\ cursor' = [cursor EXCEPT ![s] = scan[s]]
  /\ offered' = Offered(s, scan[s])
  /\ Advance(s)
  /\ UNCHANGED <<store, access, registry, scan>>

\* Waiting: a wake-up, or a heartbeat that revalidates, starts the loop again.
Wake(s) ==
  /\ phase[s] = "wait" /\ s \in wake
  /\ wake' = wake \ {s}
  /\ Goto(s, "check")
  /\ UNCHANGED <<store, access, subs, closing, unpublished, slots, scan, page, client>>

Heartbeat(s) ==
  /\ phase[s] = "wait"
  /\ IF Allowed(s)
     THEN Goto(s, "check") /\ UNCHANGED <<registry, slots, scan, page>>
     ELSE End(s, 0)
  /\ UNCHANGED <<store, access, client>>

Held(s)        == IF phase[s] \in Holding THEN 1 ELSE 0

\* The client goes away, a read fails, or a write misses its deadline, in which
\* case the client may still have received the frame.
Disconnect(s) ==
  /\ phase[s] \in Replaying
  /\ End(s, Held(s))
  /\ \/ UNCHANGED client
     \/ /\ phase[s] = "write"
        /\ cursor' = [cursor EXCEPT ![s] = scan[s]]
        /\ offered' = Offered(s, scan[s])
  /\ UNCHANGED <<store, access>>

\* Service.Close cancels every subscription; a stream notices at its selects.
Close ==
  /\ ~closing /\ closing' = TRUE
  /\ UNCHANGED <<store, access, subs, wake, unpublished, stream, client>>

\* Mutant of Cancelled: the end is noticed with the next Event only.
CancelledOnceWoken(s) ==
  /\ closing /\ phase[s] \in {"slot", "wait"} /\ s \in wake
  /\ End(s, 0)
  /\ UNCHANGED <<store, access, client>>

Cancelled(s) ==
  /\ closing /\ phase[s] \in {"slot", "wait"}
  /\ End(s, 0)
  /\ UNCHANGED <<store, access, client>>

-----------------------------------------------------------------------------
(* The process. *)

\* Everything but the database and the clients is lost.
Reset ==
  /\ unpublished' = [c \in Collection |-> 0]
  /\ subs' = {} /\ wake' = {} /\ closing' = FALSE /\ slots' = 0
  /\ phase' = [s \in Stream |-> "off"] /\ page' = [s \in Stream |-> {}]
  /\ scan' = [s \in Stream |-> 0]

Restart ==
  /\ Reset
  /\ UNCHANGED <<store, access, client>>

-----------------------------------------------------------------------------
Step(s) ==
  \/ Refuse(s) \/ Abandon(s) \/ Ready(s) \/ Check(s) \/ ReadAfter(s) \/ ReturnSlot(s)
  \/ Revalidate(s) \/ WriteFrame(s) \/ Wake(s) \/ Heartbeat(s)

Next ==
  \/ \E c \in Collection : \/ AppendEvent(c) \/ PublishCommitted(c)
                           \/ DeleteCollection(c) \/ ApplyListRule(c)
  \/ \E s \in Stream : \/ Revoke(s) \/ SignIn(s) \/ Subscribe(s) \/ Step(s)
                       \/ TakeSlot(s) \/ Cancelled(s) \/ Disconnect(s)
  \/ Close \/ Restart

Spec == Init /\ [][Next]_vars

\* A handler that can go on does and the ticker ticks, blocked sends on
\* replaySlots are served in turn, and a select that finds its context cancelled
\* time after time does not choose the other ready case for ever.
Fairness ==
  \A s \in Stream : WF_vars(Step(s)) /\ SF_vars(TakeSlot(s)) /\ SF_vars(Cancelled(s))

FairSpec == Spec /\ Fairness

-----------------------------------------------------------------------------
(* Properties. *)

\* Every variable stays in its type; the replay slots never exceed their channel.
TypeOK ==
  /\ log \subseteq EventRow
  /\ {head, mark, unpublished} \subseteq [Collection -> Nat]
  /\ {exists, admitted} \subseteq SUBSET Collection
  /\ {session, subs, wake} \subseteq SUBSET Stream
  /\ closing \in BOOLEAN /\ slots \in 0..ReplayPages
  /\ phase \in [Stream -> Phases] /\ page \in [Stream -> SUBSET Nat]
  /\ {scan, offered} \subseteq [Stream -> Nat]
  /\ cursor \in [Stream -> Nat \cup {None}]

\* What is retained fits both limits, and is exactly the Events of each
\* Collection between its watermark and its head, in commit order: pruning by
\* Project-wide ordinal and byte budget never leaves a hole that no watermark
\* announces (pruneInTransaction).
RetainedWindow ==
  /\ WithinLimits(log)
  /\ \A c \in Collection : SequencesOf(c) = (mark[c] + 1)..head[c]
  /\ \A e, f \in log : e.c = f.c /\ e.ordinal < f.ordinal => e.seq < f.seq

\* However a client's connections, its cursors, the retention watermark and the
\* process come and go, no stream scans past an Event it has not examined for
\* that client, and no cursor it is given runs ahead of what it was offered.
NothingMissed ==
  \A s \in Stream : /\ phase[s] \in Replaying \ {"write"} => scan[s] <= offered[s]
                    /\ phase[s] = "write" => scan[s] <= offered[s] + 1
                    /\ cursor[s] <= offered[s]

\* A stream that has gone to sleep behind its Collection's head has a wake-up
\* in its channel or a committed mutation that is about to send it one: the
\* commit, the publication and the last empty read may fall in any order.
WakeNotLost ==
  \A s \in Stream :
    phase[s] = "wait" /\ scan[s] < head[Watches[s]]
      => s \in wake \/ unpublished[Watches[s]] > 0

\* A stream whose client has lost access ends, or the client regains it, even
\* when no Event is ever written again.
LostAccessEnds ==
  \A s \in Stream : phase[s] # "off" /\ ~HasAccess(s) ~> phase[s] = "off" \/ HasAccess(s)

\* Closing the service ends every stream, and none starts until it is restarted.
CloseEndsStreams == closing ~> ~closing \/ \A s \in Stream : phase[s] = "off"

=============================================================================
