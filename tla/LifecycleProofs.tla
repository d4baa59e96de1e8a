-------------------------- MODULE LifecycleProofs --------------------------
(***************************************************************************)
(* Theorems about Lifecycle, for any number of connections and failures.   *)
(*                                                                         *)
(* The invariant says, for every step of the start, which modules have     *)
(* been decided and which parts are known to be sound; and, for every step *)
(* of the shutdown, that the connections are gone before the stores.       *)
(***************************************************************************)
EXTENDS Lifecycle, TLAPS

(* The modules that have been mounted or given up when a step is reached.  *)
Decided(step) ==
    CASE step \in {"connect_db", "connect_redis", "auth"} -> {}
      [] step = "users" -> {"auth"}
      [] step = "sessions" -> {"auth", "users"}
      [] step \in {"repositories", "inventory"} -> {"auth", "users", "sessions"}
      [] step \in {"catalog", "catalog_alone"} ->
             {"auth", "users", "sessions", "inventory"}
      [] step = "cart" -> {"auth", "users", "sessions", "inventory", "catalog"}
      [] step = "wishlist" -> Modules \ {"wishlist", "checkout"}
      [] step = "checkout" -> Modules \ {"checkout"}
      [] step \in {"listen", "serving"} -> Modules

(* The parts that a step is reached only with.                             *)
Granted(step) ==
    CASE step \in {"users", "sessions", "repositories"} -> {"auth"}
      [] step \in {"inventory", "catalog", "catalog_alone"} ->
             {"auth", "repositories"}
      [] step \in {"cart", "wishlist", "checkout"} ->
             {"auth", "repositories", "catalog"}
      [] OTHER -> {}

Loading == Startup \cup {"serving"}

LoadsInv ==
    pc \in Loading =>
        /\ broken \cap Granted(pc) = {}
        /\ pc \notin {"listen", "serving"} => broken \subseteq Decided(pc)
        /\ \A m \in Modules :
              m \in mounted <=> m \in Decided(pc) /\ Needs(m) \cap broken = {}

(* Nothing is connected before the server listens or after it has closed,  *)
(* and both stores are there in between.                                   *)
DrainInv ==
    /\ pc \in Startup => \A c \in Connections : connection[c] = "none"
    /\ pc \in {"close_redis", "close_db", "exit"} =>
          \A c \in Connections : ~Open(c)
    /\ pc \in Loading \cup {"close_server"} => code = Running
    /\ pc \in (Loading \cup {"close_server"}) \ {"connect_db"} => db # "off"
    /\ pc \in (Loading \cup {"close_server"}) \ {"connect_db", "connect_redis"} =>
          redis # "off"

ProcessInv == TypeOK /\ LoadsInv /\ DrainInv /\ DrainedFirst

-----------------------------------------------------------------------------
LEMMA InitProcess ==
    ASSUME LifecycleAssumption, Init
    PROVE  ProcessInv
<1>1. TypeOK
  <2>1. 0 \in 0..MaxTroubles /\ pc \in Steps
    BY DEF Init, Steps, Startup, LifecycleAssumption
  <2>2. connection \in [Connections -> {"none", "busy", "quiet", "detached"}]
    BY DEF Init
  <2> QED
    BY <2>1, <2>2 DEF Init, TypeOK
<1>2. LoadsInv
    BY DEF Init, LoadsInv, Decided
<1>3. DrainInv /\ DrainedFirst
    BY DEF Init, DrainInv, DrainedFirst, Open, Startup
<1> QED
    BY <1>1, <1>2, <1>3 DEF ProcessInv

LEMMA TypeStep ==
    ASSUME LifecycleAssumption, TypeOK, [Next]_vars
    PROVE  TypeOK'
<1> USE DEF TypeOK, Steps, Startup, Shutdown, Exit, Trouble, loads, stores,
            ending, LifecycleAssumption
<1>1. CASE ConnectDatabase \/ ConnectRedis \/ Listen
    BY <1>1 DEF ConnectDatabase, ConnectRedis, Listen
<1>2. CASE LoadStep
  <2>1. /\ UNCHANGED <<stores, connection, ending, troubles>>
        /\ pc' \in Steps /\ mounted' \subseteq Modules
        /\ broken' \subseteq Parts
    <3>1. ASSUME NEW part \in Parts, NEW next \in Startup,
                 NEW otherwise \in Startup, Load(part, next, otherwise)
          PROVE  /\ UNCHANGED <<stores, connection, ending, troubles>>
                 /\ pc' \in Steps /\ mounted' \subseteq Modules
                 /\ broken' \subseteq Parts
      BY <3>1 DEF Load
    <3>2. CASE LoadCatalog
      BY <3>2 DEF LoadCatalog, Modules
    <3>3. CASE LoadCheckout
      BY <3>1, <3>3 DEF LoadCheckout, Parts, Modules
    <3> QED
      BY <1>2, <3>1, <3>2, <3>3
      DEF LoadStep, LoadAuth, LoadUsers, LoadSessions, LoadRepositories,
          LoadInventory, LoadCatalogAlone, LoadCart, LoadWishlist, Parts, Modules
  <2> QED
    BY <2>1
<1>3. ASSUME NEW c \in Connections, Transfer(c)
      PROVE  TypeOK'
    BY <1>3 DEF Transfer, Connect, Respond, FallsQuiet, Traffic, TimeOut,
               HandlerEnds, Becomes
<1>4. CASE LoseStore \/ RegainStore
    BY <1>4 DEF LoseStore, RegainStore
<1>5. CASE Signal \/ ServerCloses \/ CloseRedis \/ CloseDatabase
  <2>1. CASE Signal
    BY <2>1 DEF Signal
  <2>2. CASE ServerCloses
    BY <2>2 DEF ServerCloses
  <2>3. CASE CloseRedis
    BY <2>3 DEF CloseRedis
  <2>4. CASE CloseDatabase
    BY <2>4 DEF CloseDatabase
  <2> QED
    BY <1>5, <2>1, <2>2, <2>3, <2>4
<1>6. CASE Finishes \/ ForcedExit \/ Crash
    BY <1>6 DEF Finishes, ForcedExit, Crash
<1>7. CASE UNCHANGED vars
    BY <1>7 DEF vars
<1> QED
    BY <1>1, <1>2, <1>3, <1>4, <1>5, <1>6, <1>7 DEF Next, StartStep

-----------------------------------------------------------------------------
(* What the needs of a module are.                                         *)
LEMMA NeedsOfAll ==
    /\ Needs("auth") = {"auth"}
    /\ Needs("users") = {"users", "auth"}
    /\ Needs("sessions") = {"sessions", "auth"}
    /\ Needs("inventory") = {"inventory", "auth", "repositories"}
    /\ Needs("catalog") = {"catalog", "auth", "repositories"}
    /\ Needs("cart") = {"cart", "auth", "repositories", "catalog"}
    /\ Needs("wishlist") = {"wishlist", "auth", "repositories", "catalog"}
    /\ Needs("checkout") = {"checkout", "auth", "repositories", "catalog",
                            "cart", "inventory", "users"}
BY DEF Needs

(* A step that loads a part keeps its promise to each module.              *)
LEMMA LoadKeeps ==
    ASSUME TypeOK, LoadsInv, LoadStep
    PROVE  LoadsInv'
<1> USE NeedsOfAll DEF LoadsInv, Decided, Granted, Load, Loading, Startup
<1>1. CASE LoadAuth
    BY <1>1 DEF LoadAuth, Modules
<1>2. CASE LoadUsers
    BY <1>2 DEF LoadUsers, Modules
<1>3. CASE LoadSessions
    BY <1>3 DEF LoadSessions, Modules
<1>4. CASE LoadRepositories
  <2>1. /\ broken \subseteq {"auth", "users", "sessions"}
        /\ "auth" \notin broken /\ {"repositories"} \cap Modules = {}
        /\ \A m \in Modules : m \in mounted <=>
              m \in {"auth", "users", "sessions"} /\ Needs(m) \cap broken = {}
    BY <1>4 DEF LoadRepositories, Modules
  <2>2. CASE pc' = "inventory"
    BY <1>4, <2>1, <2>2 DEF LoadRepositories, Modules
  <2>3. CASE pc' = "listen"
    <3>1. broken' = broken \cup {"repositories"} /\ mounted' = mounted
      BY <1>4, <2>3 DEF LoadRepositories
    <3> QED
      BY <2>1, <2>3, <3>1 DEF Modules
  <2> QED
    BY <1>4, <2>2, <2>3 DEF LoadRepositories
<1>5. CASE LoadInventory
    BY <1>5 DEF LoadInventory, Modules
<1>6. CASE LoadCatalog
    BY <1>6 DEF LoadCatalog, Modules
<1>7. CASE LoadCatalogAlone
    BY <1>7 DEF LoadCatalogAlone, Modules
<1>8. CASE LoadCart
    BY <1>8 DEF LoadCart, Modules
<1>9. CASE LoadWishlist
    BY <1>9 DEF LoadWishlist, Modules
<1>10. CASE LoadCheckout
  <2>1. /\ pc' = "listen"
        /\ broken \subseteq Modules \ {"checkout"}
        /\ broken \cap {"auth", "repositories", "catalog"} = {}
        /\ \A m \in Modules : m \in mounted <=>
              m # "checkout" /\ Needs(m) \cap broken = {}
    BY <1>10 DEF LoadCheckout, Modules
  <2>2. {"cart", "inventory", "users"} \subseteq mounted <=>
            {"cart", "inventory", "users"} \cap broken = {}
    <3>1. /\ "cart" \in mounted <=> Needs("cart") \cap broken = {}
          /\ "inventory" \in mounted <=> Needs("inventory") \cap broken = {}
          /\ "users" \in mounted <=> Needs("users") \cap broken = {}
      BY <2>1 DEF Modules
    <3> QED
      BY <2>1, <3>1
  <2>3. CASE mounted' = mounted \cup {"checkout"} /\ broken' = broken
             /\ {"cart", "inventory", "users"} \subseteq mounted
    BY <2>1, <2>2, <2>3 DEF Modules
  <2>4. CASE mounted' = mounted /\ broken' = broken \cup {"checkout"}
    BY <2>1, <2>4 DEF Modules
  <2>5. CASE mounted' = mounted /\ broken' = broken
             /\ ~({"cart", "inventory", "users"} \subseteq mounted)
    BY <2>1, <2>2, <2>5 DEF Modules
  <2> QED
    BY <1>10, <2>3, <2>4, <2>5 DEF LoadCheckout, Modules, loads
<1> QED
    BY <1>1, <1>2, <1>3, <1>4, <1>5, <1>6, <1>7, <1>8, <1>9, <1>10 DEF LoadStep

LEMMA LoadsStep ==
    ASSUME TypeOK, LoadsInv, [Next]_vars
    PROVE  LoadsInv'
<1> USE DEF LoadsInv, Loading, loads
<1>1. CASE ConnectDatabase \/ ConnectRedis
    BY <1>1
    DEF ConnectDatabase, ConnectRedis, Exit, Decided, Granted, Startup
<1>2. CASE Listen
    BY <1>2 DEF Listen, Exit, Decided, Granted, Startup
<1>3. ASSUME NEW c \in Connections, Transfer(c)
      PROVE  LoadsInv'
    BY <1>3 DEF Transfer, Connect, Respond, FallsQuiet, Traffic, TimeOut,
               HandlerEnds, Becomes
<1>4. CASE LoseStore \/ RegainStore
    BY <1>4 DEF LoseStore, RegainStore
<1>5. CASE Signal \/ ServerCloses \/ CloseRedis \/ CloseDatabase \/ Finishes
           \/ ForcedExit \/ Crash
    BY <1>5
    DEF Signal, ServerCloses, CloseRedis, CloseDatabase, Finishes, ForcedExit,
        Crash, Exit, Startup
<1>6. CASE UNCHANGED vars
    BY <1>6 DEF vars
<1> QED
    BY <1>1, <1>2, <1>3, <1>4, <1>5, <1>6, LoadKeeps DEF Next, StartStep

-----------------------------------------------------------------------------
(* Connections and stores.                                                 *)
LEMMA DrainStep ==
    ASSUME TypeOK, DrainInv, DrainedFirst, [Next]_vars
    PROVE  DrainInv' /\ DrainedFirst'
<1> USE DEF DrainInv, DrainedFirst, Loading, Startup, Shutdown, Exit, stores,
            ending, TypeOK, Running, Open
<1>1. CASE ConnectDatabase \/ ConnectRedis \/ Listen
    BY <1>1 DEF ConnectDatabase, ConnectRedis, Listen
<1>2. CASE LoadStep
  <2>1. /\ UNCHANGED <<stores, connection, ending>>
        /\ pc \in Startup \ {"connect_db", "connect_redis"}
        /\ pc' \in Startup \ {"connect_db", "connect_redis"}
    BY <1>2
    DEF LoadStep, LoadAuth, LoadUsers, LoadSessions, LoadRepositories,
        LoadInventory, LoadCatalog, LoadCatalogAlone, LoadCart, LoadWishlist,
        LoadCheckout, Load
  <2> QED
    BY <2>1
<1>3. ASSUME NEW c \in Connections, Transfer(c)
      PROVE  DrainInv' /\ DrainedFirst'
    BY <1>3 DEF Transfer, Connect, Respond, FallsQuiet, Traffic, TimeOut,
               HandlerEnds, Becomes, Alive
<1>4. CASE LoseStore \/ RegainStore
    BY <1>4 DEF LoseStore, RegainStore, Alive
<1>5. CASE Signal
    BY <1>5 DEF Signal
<1>6. CASE ServerCloses
    BY <1>6 DEF ServerCloses
<1>7. CASE CloseRedis
    BY <1>7 DEF CloseRedis
<1>8. CASE CloseDatabase
    BY <1>8 DEF CloseDatabase
<1>9. CASE Finishes \/ ForcedExit \/ Crash
    BY <1>9 DEF Finishes, ForcedExit, Crash, Alive
<1>10. CASE UNCHANGED vars
    BY <1>10 DEF vars
<1> QED
    BY <1>1, <1>2, <1>3, <1>4, <1>5, <1>6, <1>7, <1>8, <1>9, <1>10
    DEF Next, StartStep

-----------------------------------------------------------------------------
LEMMA ProcessStep ==
    ASSUME LifecycleAssumption, ProcessInv, [Next]_vars
    PROVE  ProcessInv'
BY TypeStep, LoadsStep, DrainStep DEF ProcessInv

(* The invariant holds in every state.                                     *)
THEOREM ProcessInvariance ==
    ASSUME LifecycleAssumption
    PROVE  Spec => []ProcessInv
<1>1. Init => ProcessInv
    BY InitProcess
<1>2. ProcessInv /\ [Next]_vars => ProcessInv'
    BY ProcessStep
<1> QED
    BY <1>1, <1>2, PTL DEF Spec

(* What the invariant says, in terms of the properties.                    *)
LEMMA InvImplies ==
    ASSUME ProcessInv
    PROVE  TypeOK /\ FailureContained /\ DrainedFirst
<1>1. FailureContained
  <2> SUFFICES ASSUME pc \in {"listen", "serving"}
               PROVE  mounted = {m \in Modules : Needs(m) \cap broken = {}}
    BY DEF FailureContained
  <2>1. \A m \in Modules : m \in mounted <=> Needs(m) \cap broken = {}
    BY DEF ProcessInv, LoadsInv, Loading, Startup, Decided
  <2> QED
    BY <2>1 DEF ProcessInv, TypeOK
<1> QED
    BY <1>1 DEF ProcessInv

(* The state of the process keeps its type.                                *)
THEOREM ProcessTypeCorrect ==
    ASSUME LifecycleAssumption
    PROVE  Spec => []TypeOK
<1>1. ProcessInv => TypeOK
    BY DEF ProcessInv
<1> QED
    BY <1>1, ProcessInvariance, PTL

(* Whichever parts fail to load, in whatever combination, the modules      *)
(* mounted in the end are those that need none of them                     *)
(* (loadOptionalModuleRoutes()).                                           *)
THEOREM FailuresAreContained ==
    ASSUME LifecycleAssumption
    PROVE  Spec => []FailureContained
<1>1. ProcessInv => FailureContained
    BY InvImplies
<1> QED
    BY <1>1, ProcessInvariance, PTL

(* No store is closed under an open connection, and an exit with 0 leaves  *)
(* none open, whatever fails and whenever a signal comes                   *)
(* (setupGracefulShutdown()).                                              *)
THEOREM StoresOutliveConnections ==
    ASSUME LifecycleAssumption
    PROVE  Spec => []DrainedFirst
<1>1. ProcessInv => DrainedFirst
    BY DEF ProcessInv
<1> QED
    BY <1>1, ProcessInvariance, PTL

=============================================================================
