-------------------------- MODULE MCServerThreads --------------------------
(* Who calls what in ServerThreads, for TLC. *)
EXTENDS ServerThreads

CONSTANTS main, worker

\* main starts and stops the server, the worker serves the clients.
Shared == [g \in Users |-> IF g = main
                           THEN {"server.Start", "server.Stop", "server.Disconnect"}
                           ELSE {"server.Send", "server.SendEmpty", "server.Disconnect"}]
Everything == [g \in Users |-> API]
StartAndStop == [g \in Users |-> {"server.Start", "server.Stop"}]

Reply == {"server.Send"}
Any   == {"server.Send", "server.Disconnect"}

\* Callbacks that answer, and say a last word: OnError only looks on.
Polite == [OnConnected |-> Any, OnData |-> Any, OnDisconnected |-> Reply,
           OnError |-> {}]

\* Callbacks that give up on every error: OnDisconnected only looks on.
Strict == [OnConnected |-> Any, OnData |-> Any, OnDisconnected |-> {},
           OnError |-> {"server.Disconnect"}]

\* The echo example: OnData answers.
Echo == [OnConnected |-> {}, OnData |-> Reply, OnDisconnected |-> {}, OnError |-> {}]
=============================================================================
