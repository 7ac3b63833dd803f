------------------------------ MODULE Dashboard ------------------------------
(***************************************************************************)
(* The live event stream of the web application: events.jsonl, which other *)
(* processes append to, the tailer that polls it, the queues of the SSE    *)
(* clients and the paged list (src/src/webapp: server.py,                  *)
(* routers/events.py, services/event_tailer.py, sse_manager.py).  A poll   *)
(* hands a whole batch over without giving the event loop a turn.          *)
(***************************************************************************)
EXTENDS Naturals, Sequences, Functions, Sublists

CONSTANTS
    Client,   \* SSE connections
    Reader,   \* requests for a page of events
    Limit,    \* limit of the pages
    MaxEvents \* bound: lines in the log

Malformed == 0

VARIABLES
    log,      \* events.jsonl: complete lines, numbers of events or Malformed
    half,     \* a last line is written in part
    position, \* lines behind the tailer's position
    fed,      \* events broadcast so far
    feed,     \* "running", "raised": an exception ended the task, "stopped"
    client,   \* per client: "none", "registered", "streaming", "leaked", "gone"
    joined,   \* per client: events broadcast before it was registered
    queue,    \* per client: its asyncio.Queue
    sent,     \* per client: what it was sent
    page      \* per reader: what it answers, step by step

dashboardVars == <<log, half, position, fed, feed, client, joined, queue, sent, page>>

NoPage == [step |-> "idle", offset |-> 0, events |-> << >>, total |-> 0]

TypeOK ==
    /\ log \in Seq(0 .. MaxEvents) /\ half \in BOOLEAN
    /\ position \in 0 .. Len(log) /\ fed \in 0 .. Len(log)
    /\ feed \in {"running", "raised", "stopped"}
    /\ client \in [Client -> {"none", "registered", "streaming", "leaked", "gone"}]
    /\ joined \in [Client -> 0 .. MaxEvents]
    /\ \A c \in Client : queue[c] \in Seq(1 .. MaxEvents) /\ sent[c] \in Seq(1 .. MaxEvents)
    /\ \A r \in Reader : /\ page[r].step \in {"idle", "loaded", "answered"}
                         /\ page[r].events \in Seq(1 .. MaxEvents)
                         /\ page[r].total \in 0 .. MaxEvents + 1

Init ==
    /\ log = << >> /\ half = FALSE /\ position = 0 /\ fed = 0 /\ feed = "running"
    /\ client = [c \in Client |-> "none"] /\ joined = [c \in Client |-> 0]
    /\ queue = [c \in Client |-> << >>] /\ sent = [c \in Client |-> << >>]
    /\ page = [r \in Reader |-> NoPage]

Quiet == UNCHANGED <<position, fed, feed, client, joined, queue, sent, page>>

-----------------------------------------------------------------------------
(* The processes that append.  The reader takes no lock.                    *)

locked_append ==
    /\ Len(log) < MaxEvents /\ ~half
    /\ \/ log' = Append(log, Len(log) + 1) /\ UNCHANGED half
       \/ half' = TRUE /\ UNCHANGED log
    /\ Quiet

\* The rest of the line follows, or its writer has died and the next event
\* ends up on the same line.
Complete ==
    /\ half /\ half' = FALSE
    /\ log' \in {Append(log, Len(log) + 1), Append(log, Malformed)}
    /\ Quiet

-----------------------------------------------------------------------------
(* The feed.                                                                *)

Size == Len(log) + (IF half THEN 1 ELSE 0)

InClients(c) == client[c] \in {"registered", "streaming", "leaked"}

broadcast(events) ==
    queue' = [c \in Client |-> IF InClients(c) THEN queue[c] \o events ELSE queue[c]]

\* Mutant: the position is not advanced past what was read.
tail_Again ==
    /\ feed = "running" /\ Size > position
    /\ LET new == SubSeq(log, position + 1, Len(log))
       IN  /\ ~half /\ Malformed \notin Range(new)
           /\ broadcast(new) /\ fed' = Len(log)
    /\ UNCHANGED <<log, half, position, feed, client, joined, sent, page>>

\* What is new is broadcast line by line; a line that is no JSON raises out
\* of the feed, and the position is only moved after the last line.
tail ==
    /\ feed = "running" /\ Size > position
    /\ LET new == SubSeq(log, position + 1, Len(log))
       IN  \E good \in 0 .. Len(new) :
             /\ \A i \in 1 .. good : new[i] # Malformed
             /\ good < Len(new) => new[good + 1] = Malformed
             /\ broadcast(SubSeq(new, 1, good)) /\ fed' = fed + good
             /\ IF good = Len(new) /\ ~half
                  THEN position' = Len(log) /\ UNCHANGED feed
                  ELSE feed' = "raised" /\ UNCHANGED position
    /\ UNCHANGED <<log, half, client, joined, sent, page>>

\* lifespan(): the feed is cancelled when the application shuts down.
lifespan ==
    /\ feed = "running" /\ feed' = "stopped"
    /\ UNCHANGED <<log, half, position, fed, client, joined, queue, sent, page>>

-----------------------------------------------------------------------------
(* SSE clients.                                                             *)

\* The queue is registered before the generator runs.
stream_events(c) ==
    /\ client[c] = "none"
    /\ client' = [client EXCEPT ![c] = "registered"]
    /\ joined' = [joined EXCEPT ![c] = fed]
    /\ UNCHANGED <<log, half, position, fed, feed, queue, sent, page>>

event_generator(c) ==
    /\ client[c] = "registered"
    /\ client' = [client EXCEPT ![c] = "streaming"]
    /\ UNCHANGED <<log, half, position, fed, feed, joined, queue, sent, page>>

Send(c) ==
    /\ client[c] = "streaming" /\ queue[c] # << >>
    /\ sent' = [sent EXCEPT ![c] = Append(@, Head(queue[c]))]
    /\ queue' = [queue EXCEPT ![c] = Tail(@)]
    /\ UNCHANGED <<log, half, position, fed, feed, client, joined, page>>

\* The generator's finally removes the queue; one that never ran has none.
Disconnect(c) ==
    /\ client[c] \in {"registered", "streaming"}
    /\ client' = [client EXCEPT ![c] = IF @ = "streaming" THEN "gone" ELSE "leaked"]
    /\ UNCHANGED <<log, half, position, fed, feed, joined, queue, sent, page>>

-----------------------------------------------------------------------------
(* list_events(): one pass over the file for the page, one for the total.   *)

\* Malformed lines of the page are left out; a file that cannot be read has none.
load_events(r, offset) ==
    /\ page[r].step = "idle"
    /\ LET lines == SubSeq(log, offset + 1,
                           IF offset + Limit <= Len(log) THEN offset + Limit ELSE Len(log))
       IN  \E events \in {<< >>, Kept(lines, {i \in DOMAIN lines : lines[i] # Malformed})} :
             page' = [page EXCEPT ![r] =
               [step |-> "loaded", offset |-> offset, total |-> 0, events |-> events]]
    /\ UNCHANGED <<log, half, position, fed, feed, client, joined, queue, sent>>

\* ... and counts nothing if that happens now, whatever is on the page.
list_events(r) ==
    /\ page[r].step = "loaded"
    /\ \E total \in {0, Size} :
         page' = [page EXCEPT ![r].step = "answered", ![r].total = total]
    /\ UNCHANGED <<log, half, position, fed, feed, client, joined, queue, sent>>

Next ==
    \/ locked_append \/ Complete \/ tail \/ lifespan
    \/ \E c \in Client : stream_events(c) \/ event_generator(c) \/ Send(c) \/ Disconnect(c)
    \/ \E r \in Reader : list_events(r) \/ \E offset \in 0 .. 1 : load_events(r, offset)

Spec == Init /\ [][Next]_dashboardVars

-----------------------------------------------------------------------------

(* What a client was sent, and then what waits for it, are the events that  *)
(* were broadcast since it was registered, each once and in the order of    *)
(* the log, with no malformed line - the first of those ends the feed.  A   *)
(* page fits the total counted later, unless the file could not be read     *)
(* then and nothing was counted.                                            *)
StreamIsTheLog ==
    /\ \A i \in 1 .. fed : log[i] = i
    /\ feed = "running" => position = fed
    /\ \A c \in Client :
         LET stream == sent[c] \o queue[c]
         IN  /\ joined[c] + Len(stream) <= fed
             /\ stream = SubSeq(log, joined[c] + 1, joined[c] + Len(stream))
             /\ InClients(c) => joined[c] + Len(stream) = fed
    /\ \A r \in Reader : page[r].step = "answered" =>
         \/ page[r].events = << >> \/ page[r].total = 0
         \/ page[r].total >= page[r].offset + Len(page[r].events)

=============================================================================
