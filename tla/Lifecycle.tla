----------------------------- MODULE Lifecycle -----------------------------
(***************************************************************************)
(* The life of the server process: startServer(), the loading of the       *)
(* optional modules, and the graceful shutdown of src/src/server.ts, with  *)
(* the connections of src/src/config.  One action is one awaited call or   *)
(* one try block; nothing else runs before the server listens.             *)
(*                                                                         *)
(* A connection stands for its one request.  Its socket is busy while the  *)
(* request or the answer is under way on it and quiet meanwhile; it times  *)
(* out only when it has been quiet, and the handler then runs on, detached.*)
(***************************************************************************)
EXTENDS Integers, FiniteSets

CONSTANTS
    Connections,    \* slots for connections
    MaxTroubles     \* bound: failures other than of a module to load

LifecycleAssumption ==
    IsFiniteSet(Connections) /\ MaxTroubles \in Nat

Modules == {"auth", "users", "sessions", "inventory", "catalog", "cart",
            "wishlist", "checkout"}

(* What may fail to load: the modules, and the repositories of the catalog *)
(* that the inventory shares.                                              *)
Parts == Modules \cup {"repositories"}

VARIABLES
    pc,             \* the next step of the process
    mounted,        \* the modules whose routes are mounted
    broken,         \* the parts that failed to load
    db, redis,      \* "off", "up" or "lost"
    connection,     \* of each slot: "none", "busy", "quiet" or "detached"
    signalled,      \* SIGTERM or SIGINT has been received
    timer,          \* the forced exit: "unset", "armed" or "cleared"
    code,           \* the exit code, or Running
    troubles        \* for the bound

loads == <<mounted, broken>>
stores == <<db, redis>>
ending == <<signalled, timer, code>>
vars == <<pc, loads, stores, connection, ending, troubles>>

Running == -1

Startup == {"connect_db", "connect_redis", "auth", "users", "sessions",
            "repositories", "inventory", "catalog", "catalog_alone", "cart",
            "wishlist", "checkout", "listen"}
Shutdown == {"close_server", "close_redis", "close_db", "exit"}
Steps == Startup \cup {"serving"} \cup Shutdown \cup {"exited"}

Init ==
    /\ pc = "connect_db"
    /\ mounted = {} /\ broken = {}
    /\ db = "off" /\ redis = "off"
    /\ connection = [c \in Connections |-> "none"]
    /\ signalled = FALSE /\ timer = "unset" /\ code = Running
    /\ troubles = 0

Exit(n) == pc' = "exited" /\ code' = n

Trouble == troubles < MaxTroubles /\ troubles' = troubles + 1

-----------------------------------------------------------------------------
(***************************************************************************)
(* startServer()                                                           *)
(***************************************************************************)

(* A store that cannot be reached ends the process.                        *)
ConnectDatabase ==
    /\ pc = "connect_db"
    /\ \/ /\ db' = "up" /\ pc' = "connect_redis"
          /\ UNCHANGED <<code, troubles>>
       \/ Trouble /\ Exit(1) /\ UNCHANGED db
    /\ UNCHANGED <<loads, redis, connection, signalled, timer>>

(* createKafkaClient() opens no connection, and may fail.                  *)
ConnectRedis ==
    /\ pc = "connect_redis"
    /\ \/ /\ redis' = "up" /\ pc' = "auth"
          /\ UNCHANGED <<code, troubles>>
       \/ Trouble /\ Exit(1) /\ UNCHANGED redis
    /\ UNCHANGED <<loads, db, connection, signalled, timer>>

(* A part loads, its routes are mounted, and the next one follows; or it   *)
(* does not, and the step otherwise follows.  The Faulty... operators here *)
(* and below are variants with a fault seeded, against which the           *)
(* properties are tried; nothing else uses them.                           *)
Load(part, next, otherwise) ==
    /\ \/ /\ mounted' = mounted \cup ({part} \cap Modules)
          /\ pc' = next
          /\ UNCHANGED broken
       \/ /\ broken' = broken \cup {part}
          /\ pc' = otherwise
          /\ UNCHANGED mounted
    /\ UNCHANGED <<stores, connection, ending, troubles>>

LoadAuth == pc = "auth" /\ Load("auth", "users", "listen")
LoadUsers == pc = "users" /\ Load("users", "sessions", "sessions")
LoadSessions == pc = "sessions" /\ Load("sessions", "repositories", "repositories")

LoadRepositories ==
    pc = "repositories" /\ Load("repositories", "inventory", "listen")

LoadInventory == pc = "inventory" /\ Load("inventory", "catalog", "catalog_alone")

(* With the lookup of the inventory; a failure is caught as one of the     *)
(* inventory, whose routes stay, and the catalog is tried without it.      *)
LoadCatalog ==
    /\ pc = "catalog"
    /\ \/ mounted' = mounted \cup {"catalog"} /\ pc' = "cart"
       \/ pc' = "catalog_alone" /\ UNCHANGED mounted
    /\ UNCHANGED <<broken, stores, connection, ending, troubles>>

FaultyLoadCatalogAlone ==
    pc = "catalog_alone" /\ Load("catalog", "cart", "cart")

LoadCatalogAlone == pc = "catalog_alone" /\ Load("catalog", "cart", "listen")

LoadCart == pc = "cart" /\ Load("cart", "wishlist", "wishlist")
LoadWishlist == pc = "wishlist" /\ Load("wishlist", "checkout", "checkout")

(* Only when the services it needs are there.                              *)
LoadCheckout ==
    /\ pc = "checkout"
    /\ IF {"cart", "inventory", "users"} \subseteq mounted
       THEN Load("checkout", "listen", "listen")
       ELSE /\ pc' = "listen"
            /\ UNCHANGED <<loads, stores, connection, ending, troubles>>

(* If auth fails, so does all the rest: nothing is mounted.                *)
Listen ==
    /\ pc = "listen"
    /\ \/ pc' = "serving" /\ UNCHANGED <<code, troubles>>
       \/ Trouble /\ Exit(1)
    /\ UNCHANGED <<loads, stores, connection, signalled, timer>>

-----------------------------------------------------------------------------
(***************************************************************************)
(* Serving                                                                 *)
(***************************************************************************)

Open(c) == connection[c] \in {"busy", "quiet"}

Becomes(c, state) ==
    /\ connection' = [connection EXCEPT ![c] = state]
    /\ UNCHANGED <<pc, loads, stores, ending, troubles>>

Connect(c) == pc = "serving" /\ connection[c] = "none" /\ Becomes(c, "busy")

Alive == pc \notin Startup \cup {"exited"}

(* The answer is sent.                                                     *)
Respond(c) == Alive /\ Open(c) /\ Becomes(c, "none")

FallsQuiet(c) == Alive /\ connection[c] = "busy" /\ Becomes(c, "quiet")

(* More of the request comes, or of the answer goes.                       *)
Traffic(c) == Alive /\ connection[c] = "quiet" /\ Becomes(c, "busy")

(* server.setTimeout() destroys a socket that has been quiet for so long;  *)
(* the handler knows nothing.                                              *)
TimeOut(c) == Alive /\ connection[c] = "quiet" /\ Becomes(c, "detached")

HandlerEnds(c) == Alive /\ connection[c] = "detached" /\ Becomes(c, "none")

(* The clients reconnect; Redis gives up after REDIS_MAX_RETRIES.          *)
LoseStore ==
    /\ Alive /\ Trouble
    /\ \/ db = "up" /\ db' = "lost" /\ UNCHANGED redis
       \/ redis = "up" /\ redis' = "lost" /\ UNCHANGED db
    /\ UNCHANGED <<pc, loads, connection, ending>>

RegainStore ==
    /\ Alive
    /\ \/ db = "lost" /\ db' = "up" /\ UNCHANGED redis
       \/ redis = "lost" /\ redis' = "up" /\ UNCHANGED db
    /\ UNCHANGED <<pc, loads, connection, ending, troubles>>

-----------------------------------------------------------------------------
(***************************************************************************)
(* Signals, the graceful shutdown, and exceptions                          *)
(***************************************************************************)

FaultySignal ==
    /\ pc # "exited"
    /\ signalled' = TRUE
    /\ IF pc \in Startup THEN Exit(1)
       ELSE pc' = "close_server" /\ UNCHANGED code
    /\ UNCHANGED <<loads, stores, connection, timer, troubles>>

(* Before setupGracefulShutdown() a signal kills the process; isShutting-  *)
(* Down lets only the first one after it through.                          *)
Signal ==
    /\ pc \in Startup \cup {"serving"}
    /\ signalled' = TRUE
    /\ IF pc \in Startup THEN Exit(1)
       ELSE pc' = "close_server" /\ UNCHANGED code
    /\ UNCHANGED <<loads, stores, connection, timer, troubles>>

FaultyServerCloses ==
    /\ pc = "close_server"
    /\ timer' = "armed" /\ pc' = "close_redis"
    /\ UNCHANGED <<loads, stores, connection, signalled, code, troubles>>

(* server.close() calls back when no connection is open, and only then is  *)
(* the timer of the forced exit armed.  There are no Kafka consumers or    *)
(* producers to disconnect.                                                *)
ServerCloses ==
    /\ pc = "close_server"
    /\ \A c \in Connections : ~Open(c)
    /\ timer' = "armed" /\ pc' = "close_redis"
    /\ UNCHANGED <<loads, stores, connection, signalled, code, troubles>>

FaultyCloseRedis ==
    /\ pc = "close_redis"
    /\ \/ redis' = (IF redis = "up" THEN "closed" ELSE redis) /\ UNCHANGED troubles
       \/ Trouble /\ UNCHANGED redis
    /\ pc' = "close_db"
    /\ UNCHANGED <<loads, db, connection, ending>>

(* A store that is lost is left alone; an error is logged.                 *)
CloseRedis ==
    /\ pc = "close_redis"
    /\ \/ redis' = (IF redis = "up" THEN "off" ELSE redis) /\ UNCHANGED troubles
       \/ Trouble /\ UNCHANGED redis
    /\ pc' = "close_db"
    /\ UNCHANGED <<loads, db, connection, ending>>

CloseDatabase ==
    /\ pc = "close_db"
    /\ \/ db' = "off" /\ UNCHANGED troubles
       \/ Trouble /\ UNCHANGED db
    /\ pc' = "exit" /\ timer' = "cleared"
    /\ UNCHANGED <<loads, redis, connection, signalled, code>>

Finishes ==
    /\ pc = "exit" /\ Exit(0)
    /\ UNCHANGED <<loads, stores, connection, signalled, timer, troubles>>

(* The timer goes off while a store is being closed.                       *)
ForcedExit ==
    /\ timer = "armed" /\ pc \in Shutdown /\ Exit(1)
    /\ UNCHANGED <<loads, stores, connection, signalled, timer, troubles>>

(* uncaughtException or unhandledRejection.                                *)
Crash ==
    /\ Alive /\ Trouble /\ Exit(1)
    /\ UNCHANGED <<loads, stores, connection, signalled, timer>>

-----------------------------------------------------------------------------
LoadStep ==
    \/ LoadAuth \/ LoadUsers \/ LoadSessions \/ LoadRepositories
    \/ LoadInventory \/ LoadCatalog \/ LoadCatalogAlone \/ LoadCart
    \/ LoadWishlist \/ LoadCheckout

StartStep == ConnectDatabase \/ ConnectRedis \/ LoadStep \/ Listen

Transfer(c) ==
    \/ Connect(c) \/ Respond(c) \/ FallsQuiet(c) \/ Traffic(c) \/ TimeOut(c)
    \/ HandlerEnds(c)

Next ==
    \/ StartStep
    \/ \E c \in Connections : Transfer(c)
    \/ LoseStore \/ RegainStore
    \/ Signal \/ ServerCloses \/ CloseRedis \/ CloseDatabase \/ Finishes
    \/ ForcedExit \/ Crash

(* What is under way on a socket gets there, and one that stays quiet      *)
(* times out.  That a request is ever complete or answered is up to the    *)
(* client and the handler.  Closing a store may hang, but not the timer.   *)
Fairness ==
    /\ WF_vars(StartStep) /\ WF_vars(ServerCloses) /\ WF_vars(Finishes)
    /\ \A c \in Connections : WF_vars(FallsQuiet(c)) /\ WF_vars(TimeOut(c))
    /\ WF_vars(ForcedExit)

Spec == Init /\ [][Next]_vars /\ Fairness

-----------------------------------------------------------------------------
(***************************************************************************)
(* Properties                                                              *)
(***************************************************************************)

TypeOK ==
    /\ pc \in Steps
    /\ mounted \subseteq Modules /\ broken \subseteq Parts
    /\ db \in {"off", "up", "lost"} /\ redis \in {"off", "up", "lost"}
    /\ connection \in [Connections -> {"none", "busy", "quiet", "detached"}]
    /\ signalled \in BOOLEAN /\ timer \in {"unset", "armed", "cleared"}
    /\ code \in {Running, 0, 1}
    /\ troubles \in 0..MaxTroubles

(* The parts without which a module is not mounted, itself included.       *)
Needs(m) ==
    {m, "auth"} \cup
    CASE m \in {"auth", "users", "sessions"} -> {}
      [] m \in {"inventory", "catalog"} -> {"repositories"}
      [] m \in {"cart", "wishlist"} -> {"repositories", "catalog"}
      [] m = "checkout" -> {"repositories", "catalog", "cart", "inventory", "users"}

(* Once the modules are loaded, those mounted are just the ones none of    *)
(* whose parts is broken: a module that fails takes only its dependents    *)
(* with it (loadOptionalModuleRoutes()).                                   *)
FailureContained ==
    pc \in {"listen", "serving"} =>
        mounted = {m \in Modules : Needs(m) \cap broken = {}}

(* While a connection is open no store has been closed under it, and a     *)
(* process that exits with 0 leaves none open (setupGracefulShutdown()).   *)
DrainedFirst ==
    \A c \in Connections : Open(c) =>
        db # "off" /\ redis # "off" /\ code # 0

(* A process that has been told to stop stops, if no socket has traffic    *)
(* for ever: nothing else can keep it, neither a handler that does not     *)
(* answer nor a store that does not close (setupGracefulShutdown()).       *)
ShutdownEnds ==
    (\A c \in Connections : <>[](connection[c] # "busy"))
        => (signalled ~> pc = "exited")

(* docs/graceful-shutdown.md promises it of every shutdown, by the forced  *)
(* exit; but setupGracefulShutdown() arms the timer only when no           *)
(* connection is left.                                                     *)
ShutdownBounded == signalled ~> pc = "exited"

=============================================================================
