-------------------------- MODULE ActivityStoreFeed --------------------------
(* ActivityStore implements EventFeed: the log is the committed events, a    *)
(* client's position is the cursor it holds, and only events the Store       *)
(* withheld are hidden.                                                      *)
EXTENDS ActivityStore

Feed == INSTANCE EventFeed WITH
            Lossy <- Indeterminate,
            head <- dHead,
            position <- [c \in Clients |-> IF cursor[c].run = 0 THEN -1 ELSE cursor[c].seq],
            hidden <- lost

\* Every step of the Store, its clients and its crashes is a step of the feed
\* or changes nothing the clients can see: a client only ever takes a whole
\* snapshot or the next event that was not withheld from it.
ImplementsFeed == Feed!FeedSpec
=============================================================================
