--------------------------------- MODULE Chat ---------------------------------
(***************************************************************************)
(* src/src/webapp/chat_server.py: the message store and its broadcasts.  A *)
(* broadcast walks the live list of listeners and waits at every send, so  *)
(* that others connect, leave and broadcast in between.                    *)
(***************************************************************************)
EXTENDS Naturals, Sequences, Functions, Sublists

CONSTANTS
    Socket, \* WebSocket connections
    Post    \* messages, each broadcast once by the request that posts it

VARIABLES
    listeners, \* _listeners
    messages,  \* _messages
    link,      \* per socket: "new", "open": its sends succeed, "closed"
    received,  \* per socket: the messages it got
    place,     \* per message: how many listeners the walk has passed, "new" or "done"
    failed,    \* per message: sockets whose send failed
    audience,  \* per message: the listeners when it was posted
    missed,    \* per message: listeners that a removal took from what the walk had
               \* before it: those removed, and those shifted behind the walk
    during     \* per message: the messages that were broadcast when it was posted

history == <<audience, missed, during>>
chatVars == <<listeners, messages, link, received, place, failed, history>>

Walking(m) == place[m].step = "walking"

TypeOK ==
    /\ listeners \in Seq(Socket) /\ messages \in Seq(Post) /\ link \in [Socket -> {"new", "open", "closed"}]
    /\ received \in [Socket -> Seq(Post)]
    /\ \A m \in Post : /\ place[m].step \in {"new", "walking", "done"}
                       /\ place[m].index \in Nat
    /\ failed \in [Post -> SUBSET Socket] /\ audience \in [Post -> SUBSET Socket]
    /\ missed \in [Post -> SUBSET Socket] /\ during \in [Post -> SUBSET Post]

Init ==
    /\ listeners = << >> /\ messages = << >> /\ link = [s \in Socket |-> "new"]
    /\ received = [s \in Socket |-> << >>]
    /\ place = [m \in Post |-> [step |-> "new", index |-> 0]]
    /\ failed = [m \in Post |-> {}] /\ audience = [m \in Post |-> {}]
    /\ missed = audience /\ during = audience

Without(gone) == Kept(listeners, {i \in DOMAIN listeners : listeners[i] \notin gone})

\* What a walk that has passed some listeners has before it.
Remaining(list, passed) == {list[i] : i \in passed + 1 .. Len(list)}

Remove(gone) ==
    /\ listeners' = Without(gone)
    /\ missed' = [m \in Post |->
         IF Walking(m) THEN missed[m] \cup (Remaining(listeners, place[m].index)
                                              \ Remaining(Without(gone), place[m].index))
                       ELSE missed[m]]

\* chat_websocket(): accepted and added; a socket connects once.
add_listener(s) ==
    /\ link[s] = "new" /\ link' = [link EXCEPT ![s] = "open"]
    /\ listeners' = Append(listeners, s)
    /\ UNCHANGED <<messages, received, place, failed, history>>

\* The client disconnects and the receiving loop notices.
remove_listener(s) ==
    /\ link[s] = "open" /\ link' = [link EXCEPT ![s] = "closed"]
    /\ Remove({s})
    /\ UNCHANGED <<messages, received, place, failed, audience, during>>

\* The loop ends by another exception: the listener stays in the list.
Break(s) ==
    /\ link[s] = "open" /\ link' = [link EXCEPT ![s] = "closed"]
    /\ UNCHANGED <<listeners, messages, received, place, failed, history>>

\* post_message(), or a message of a socket.
add(m) ==
    /\ place[m].step = "new" /\ messages' = Append(messages, m)
    /\ place' = [place EXCEPT ![m].step = "walking"]
    /\ audience' = [audience EXCEPT ![m] = Range(listeners)]
    /\ during' = [during EXCEPT ![m] = {n \in Post : Walking(n)}]
    /\ UNCHANGED <<listeners, link, received, failed, missed>>

\* Mutant: a failed listener is removed at once, under the walk.
broadcast_RemoveNow(m) ==
    /\ Walking(m) /\ place[m].index < Len(listeners)
    /\ LET s == listeners[place[m].index + 1]
       IN  /\ place' = [place EXCEPT ![m].index = @ + 1]
           /\ IF link[s] = "open"
                THEN received' = [received EXCEPT ![s] = Append(@, m)] /\ UNCHANGED <<listeners, failed>>
                ELSE failed' = [failed EXCEPT ![m] = @ \cup {s}] /\ listeners' = Without({s})
                     /\ UNCHANGED received
    /\ UNCHANGED <<messages, link, history>>

\* One step of the walk.
broadcast(m) ==
    /\ Walking(m) /\ place[m].index < Len(listeners)
    /\ LET s == listeners[place[m].index + 1]
       IN  /\ place' = [place EXCEPT ![m].index = @ + 1]
           /\ IF link[s] = "open"
                THEN received' = [received EXCEPT ![s] = Append(@, m)] /\ UNCHANGED failed
                ELSE failed' = [failed EXCEPT ![m] = @ \cup {s}] /\ UNCHANGED received
    /\ UNCHANGED <<listeners, messages, link, history>>

\* After the walk the failed ones are removed.
Finish(m) ==
    /\ Walking(m) /\ place[m].index >= Len(listeners)
    /\ Remove(failed[m])
    /\ place' = [place EXCEPT ![m].step = "done"]
    /\ UNCHANGED <<messages, link, received, failed, audience, during>>

Next ==
    \/ \E s \in Socket : add_listener(s) \/ remove_listener(s) \/ Break(s)
    \/ \E m \in Post : add(m) \/ broadcast(m) \/ Finish(m)

Spec == Init /\ [][Next]_chatVars

-----------------------------------------------------------------------------

(* No socket gets a message twice, or one that is not stored.  A listener   *)
(* that was there when a message was posted got it or failed, unless it     *)
(* left before its turn or the removal of one that had had its turn shifted *)
(* it behind the walk.  A message comes before an earlier one only if it    *)
(* was posted during the broadcast of that one.                             *)
AudienceIsServed ==
    /\ \A s \in Socket : /\ IsInjective(received[s])
                         /\ Range(received[s]) \subseteq Range(messages)
    /\ \A m \in Post : place[m].step = "done" =>
         \A s \in audience[m] \ (failed[m] \cup missed[m]) : m \in Range(received[s])
    /\ \A s \in Socket, a, b \in DOMAIN messages : \A i, j \in DOMAIN received[s] :
         a < b /\ i < j /\ received[s][i] = messages[b] /\ received[s][j] = messages[a]
           => messages[a] \in during[messages[b]]

=============================================================================
