------------------------------ MODULE EventFeed ------------------------------
(***************************************************************************)
(* What the event stream of a Codex promises its clients, without run ids, *)
(* buffers, channels, floors or reloads: a numbered log, and clients that  *)
(* move forward in it.                                                     *)
(***************************************************************************)
EXTENDS Integers

CONSTANTS Clients, Lossy

VARIABLES
    head,       \* events 1 .. head are in the log
    position,   \* per client: the event it has applied up to, or Away
    hidden      \* per client: events that are withheld from it

feed == <<head, position, hidden>>

Away == -1

\* An event is logged; only a lossy log may hide it from some clients.
Log(from) ==
    /\ Lossy \/ from = {}
    /\ head' = head + 1
    /\ hidden' = [c \in Clients |-> IF c \in from THEN hidden[c] \cup {head + 1}
                                    ELSE hidden[c]]
    /\ UNCHANGED position

\* A client gets a snapshot of the whole log.
Snapshot(c) ==
    /\ position' = [position EXCEPT ![c] = head]
    /\ hidden' = [hidden EXCEPT ![c] = {}]
    /\ UNCHANGED head

\* A client gets the next logged event that is not hidden from it.
NextEvent(c) ==
    /\ position[c] # Away
    /\ \E e \in position[c] + 1 .. head :
          /\ (position[c] + 1 .. e - 1) \subseteq hidden[c]
          /\ position' = [position EXCEPT ![c] = e]
    /\ UNCHANGED <<head, hidden>>

\* A client drops the Codex.
Leave(c) ==
    /\ position' = [position EXCEPT ![c] = Away]
    /\ hidden' = [hidden EXCEPT ![c] = {}]
    /\ UNCHANGED head

\* The log is being closed: a client may lose an event it has not applied yet.
Close(from) ==
    /\ \A c \in Clients : from[c] \subseteq position[c] + 1 .. head
    /\ hidden' = [c \in Clients |-> hidden[c] \cup from[c]]
    /\ UNCHANGED <<head, position>>

FeedInit ==
    /\ head \in Nat
    /\ position = [c \in Clients |-> Away]
    /\ hidden = [c \in Clients |-> {}]

FeedNext ==
    \/ \E from \in SUBSET Clients : Log(from)
    \/ \E c \in Clients : Snapshot(c) \/ NextEvent(c) \/ Leave(c)
    \/ \E from \in [Clients -> SUBSET (1 .. head)] : Close(from)

FeedSpec == FeedInit /\ [][FeedNext]_feed
=============================================================================
