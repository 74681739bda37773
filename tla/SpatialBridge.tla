--------------------------- MODULE SpatialBridge ---------------------------
(***************************************************************************)
(* The C++ accelerator: CppSpatialBridge of                                *)
(* src/spatial/cpp_spatial_bridge.ts, the child process of                 *)
(* cpp-engine/engine_bridge.cpp behind its two pipes, the registry's index *)
(* funnel (src/core/driver_registry.ts) that keeps the engine's tree a     *)
(* copy of the TypeScript index, and the seeding done by src/server.ts.    *)
(*                                                                         *)
(* A request is a promise, numbered in the order of creation.  The engine  *)
(* answers line by line without naming the request: the bridge gives every *)
(* line to the oldest promise it holds.  Positions are not modelled, only  *)
(* who is in which index.                                                  *)
(***************************************************************************)
EXTENDS Integers, Sequences, SequencesExt

CONSTANTS
    Drivers,        \* driver ids, all of them well formed (isValidId)
    Virtual,        \* those of the simulator, which the server seeds
    None,           \* no driver
    Pending,        \* the result of a promise that has not settled
    Error,          \* the result of a promise settled with status "error"
    EarlyTraffic,   \* TRUE: drivers come and go before the engine said PONG
    MaxRequests,    \* bound on the promises made
    MaxPipe         \* bound on the commands in the pipe when an update is added

ASSUME BridgeAssumption ==
    /\ Virtual \subseteq Drivers
    /\ IsFiniteSet(Virtual)
    /\ None \notin Drivers
    /\ Pending # Error
    /\ MaxRequests \in Nat
    /\ MaxRequests >= Cardinality(Virtual) + 2   \* PING and the seeding
    /\ {Pending, Error} \cap 1..MaxRequests = {}
    /\ EarlyTraffic \in BOOLEAN

VARIABLES
    process,        \* CppSpatialBridge.process: "running" or "none"
    isReady,        \* CppSpatialBridge.isReady
    pendingQueue,   \* CppSpatialBridge.pendingQueue: promises by number
    results,        \* for every promise made: Pending, Error, or the number of
                    \* the request whose answer it was given
    pipe,           \* process.stdin: "open", or "broken" after its error event
    engine,         \* the child process: "alive" or "exited"
    stdin,          \* lines written and not yet read by the engine
    stdout,         \* lines printed and not yet read by the bridge
    tree,           \* drivers in the engine's Quadtree
    index           \* drivers in the TypeScript QuadTree

bridgeVars == <<process, isReady, pendingQueue, results>>
engineVars == <<engine, tree>>
vars == <<bridgeVars, engineVars, pipe, stdin, stdout, index>>

-----------------------------------------------------------------------------
(* Commands *)

\* A command line; request is the number of its promise, 0 if it has none.
Command(op, d, n) == [op |-> op, driver |-> d, request |-> n]

\* Mutant: the engine prints a line for an update too.
IsAnsweredAlways(cmd) == TRUE

\* UPDATE and BATCH_UPDATE are fire and forget.
IsAnswered(cmd) == cmd.op # "UPDATE"

\* What a command makes of the engine's tree.  Quadtree::update moves a driver
\* it knows and ignores one it does not.
Apply(t, cmd) ==
    CASE cmd.op = "INIT"   -> {}
      [] cmd.op = "INSERT" -> t \cup {cmd.driver}
      [] cmd.op = "REMOVE" -> t \ {cmd.driver}
      [] OTHER             -> t

\* isAvailable()
Available == isReady /\ process = "running"

\* The lines of ops, whose promises follow the n-th.
Numbered(ops, n) ==
    [i \in DOMAIN ops |-> Command(ops[i].op, ops[i].driver, n + i)]

\* sendCommand for each of ops: a promise joins the queue, a line the pipe.  What
\* is written to an engine that is gone is lost.
Send(ops) ==
    LET n == Len(results)
    IN  /\ n + Len(ops) <= MaxRequests
        /\ results' = results \o [i \in DOMAIN ops |-> Pending]
        /\ pendingQueue' = pendingQueue \o [i \in DOMAIN ops |-> n + i]
        /\ stdin' = IF engine = "alive" THEN stdin \o Numbered(ops, n) ELSE stdin

\* insert, remove and the queries do nothing before the engine is ready.
SendIfAvailable(ops) ==
    IF Available THEN Send(ops) ELSE UNCHANGED <<pendingQueue, results, stdin>>

\* What a caller asks for.
Op(op, d) == [op |-> op, driver |-> d]

\* insert for every simulated driver, whatever its status.
InsertVirtual == [i \in 1..Cardinality(Virtual) |-> Op("INSERT", SetToSeq(Virtual)[i])]

\* initRegion and the inserts that follow it.
Seed == <<Op("INIT", None)>> \o InsertVirtual

-----------------------------------------------------------------------------
(* The index funnel of the registry, and the server's use of the engine *)

\* Drivers may come and go while the engine starts, or only afterwards.
Traffic == EarlyTraffic \/ isReady \/ process = "none"

\* idxInsert: registration, unlock, completion, return to service.
IdxInsert(d) ==
    /\ Traffic
    /\ index' = index \cup {d}
    /\ SendIfAvailable(<<Op("INSERT", d)>>)
    /\ UNCHANGED <<process, isReady, engineVars, pipe, stdout>>

\* idxUpdate of an indexed driver, or one batchUpdate of the telemetry tick.
Update ==
    /\ Available
    /\ engine = "alive"
    /\ Len(stdin) < MaxPipe
    /\ stdin' = Append(stdin, Command("UPDATE", None, 0))
    /\ UNCHANGED <<bridgeVars, engineVars, pipe, stdout, index>>

\* Mutant: the mirror is not told of removals, as it once was not.
IdxRemoveUntold(d) ==
    /\ Traffic
    /\ index' = index \ {d}
    /\ UNCHANGED <<bridgeVars, engineVars, pipe, stdin, stdout>>

\* idxRemove: lock, disconnect, eviction.
IdxRemove(d) ==
    /\ Traffic
    /\ index' = index \ {d}
    /\ SendIfAvailable(<<Op("REMOVE", d)>>)
    /\ UNCHANGED <<process, isReady, engineVars, pipe, stdout>>

\* kNearestNeighbors, for the route that stages a race between two riders.
Query ==
    /\ Available
    /\ Send(<<Op("KNN", None)>>)
    /\ UNCHANGED <<process, isReady, engineVars, pipe, stdout, index>>

\* Another operating region: an empty index, in which the simulator registers its
\* drivers anew, and then the engine is seeded.
ResetRegion ==
    /\ Traffic
    /\ index' = Virtual
    /\ SendIfAvailable(InsertVirtual \o Seed)
    /\ UNCHANGED <<process, isReady, engineVars, pipe, stdout>>

-----------------------------------------------------------------------------
(* The bridge *)

\* Mutant: the promises are left in the queue.
DrainNothing == UNCHANGED <<results, pendingQueue>>

\* Every promise in the queue settles with an error.
Drain ==
    /\ results' = [i \in DOMAIN results |->
                      IF results[i] = Pending THEN Error ELSE results[i]]
    /\ pendingQueue' = <<>>

\* The exit event of the child process.
ProcessExits ==
    /\ engine = "exited"
    /\ process = "running"
    /\ process' = "none"
    /\ isReady' = FALSE
    /\ Drain
    /\ UNCHANGED <<engineVars, pipe, stdin, stdout, index>>

\* A write after the engine's end fails, and stdin reports it before the exit
\* event.  The stream is destroyed and never reports another failure.
StdinFails ==
    /\ engine = "exited"
    /\ process = "running"
    /\ pipe = "open"
    /\ pipe' = "broken"
    /\ Drain
    /\ UNCHANGED <<process, isReady, engineVars, stdin, stdout, index>>

\* stop(): QUIT, kill, and no promise is kept.
Stop ==
    /\ process = "running"
    /\ process' = "none"
    /\ isReady' = FALSE
    /\ engine' = "exited"
    /\ stdin' = <<>>
    /\ Drain
    /\ UNCHANGED <<pipe, stdout, tree, index>>

\* Mutant: the newest promise is served first.
NextResolverLast == Last(pendingQueue)

\* pendingQueue.shift()
NextResolver == Head(pendingQueue)

\* What the waiting promise makes of a line; one cut short does not parse.
Outcome(line) == IF line.whole THEN line.request ELSE Error

\* The next line is the PONG start() waits for.
IsPong == pendingQueue = <<1>> /\ Head(stdout).whole

\* The bridge reads a line: the promise in turn settles with it.
ReadLine ==
    /\ stdout # <<>>
    /\ pendingQueue # <<>>
    /\ ~ IsPong
    /\ stdout' = Tail(stdout)
    /\ results' = [results EXCEPT ![NextResolver] = Outcome(Head(stdout))]
    /\ pendingQueue' = Tail(pendingQueue)
    /\ UNCHANGED <<process, isReady, engineVars, pipe, stdin, index>>

\* The line nobody waits for is dropped.
DropLine ==
    /\ stdout # <<>>
    /\ pendingQueue = <<>>
    /\ stdout' = Tail(stdout)
    /\ UNCHANGED <<bridgeVars, engineVars, pipe, stdin, index>>

\* With the PONG the engine is ready, and the server seeds it in the same turn.
ReadPong ==
    /\ stdout # <<>>
    /\ IsPong
    /\ stdout' = Tail(stdout)
    /\ isReady' = TRUE
    /\ results' = <<1>> \o [i \in DOMAIN Seed |-> Pending]
    /\ pendingQueue' = [i \in DOMAIN Seed |-> 1 + i]
    /\ stdin' = IF engine = "alive" THEN stdin \o Numbered(Seed, 1) ELSE stdin
    /\ UNCHANGED <<process, engineVars, pipe, index>>

-----------------------------------------------------------------------------
(* The engine *)

\* One turn of the command loop.
EngineStep ==
    /\ engine = "alive"
    /\ stdin # <<>>
    /\ LET cmd == Head(stdin)
       IN  /\ tree' = Apply(tree, cmd)
           /\ stdout' = IF IsAnswered(cmd)
                        THEN Append(stdout, [request |-> cmd.request, whole |-> TRUE])
                        ELSE stdout
    /\ stdin' = Tail(stdin)
    /\ UNCHANGED <<bridgeVars, engine, pipe, index>>

\* The process dies, perhaps half-way through printing an answer.
EngineDies ==
    /\ engine = "alive"
    /\ engine' = "exited"
    /\ stdin' = <<>>
    /\ \/ UNCHANGED stdout
       \/ /\ stdin # <<>>
          /\ IsAnswered(Head(stdin))
          /\ stdout' = Append(stdout, [request |-> Head(stdin).request, whole |-> FALSE])
    /\ UNCHANGED <<bridgeVars, tree, pipe, index>>

-----------------------------------------------------------------------------
\* start() has spawned the engine and sent PING; the simulator has registered its
\* drivers.
Init ==
    /\ process = "running"
    /\ isReady = FALSE
    /\ pendingQueue = <<1>>
    /\ results = <<Pending>>
    /\ pipe = "open"
    /\ engine = "alive"
    /\ stdin = <<Command("PING", None, 1)>>
    /\ stdout = <<>>
    /\ tree = {}
    /\ index = Virtual

Next ==
    \/ \E d \in Drivers : IdxInsert(d) \/ IdxRemove(d)
    \/ Update
    \/ Query
    \/ ResetRegion
    \/ ProcessExits
    \/ StdinFails
    \/ Stop
    \/ ReadLine
    \/ DropLine
    \/ ReadPong
    \/ EngineStep
    \/ EngineDies

Spec == Init /\ [][Next]_vars

\* A living engine reads its commands, Node reads the engine's lines and delivers
\* the exit event.
Fairness ==
    /\ WF_vars(EngineStep)
    /\ WF_vars(ReadLine)
    /\ WF_vars(ReadPong)
    /\ WF_vars(ProcessExits)

FairSpec == Spec /\ Fairness

-----------------------------------------------------------------------------
(* Properties *)

Lines ==
    [op : {"INSERT", "REMOVE"}, driver : Drivers, request : 1..MaxRequests]
    \cup [op : {"PING", "INIT", "KNN"}, driver : {None}, request : 1..MaxRequests]
    \cup [op : {"UPDATE"}, driver : {None}, request : {0}]

Answers == [request : 1..MaxRequests, whole : BOOLEAN]

\* Every variable has its type.
TypeOK ==
    /\ process \in {"running", "none"}
    /\ isReady \in BOOLEAN
    /\ pendingQueue \in Seq(1..MaxRequests)
    /\ results \in Seq({Pending, Error} \cup 1..MaxRequests)
    /\ pipe \in {"open", "broken"}
    /\ engine \in {"alive", "exited"}
    /\ stdin \in Seq(Lines)
    /\ stdout \in Seq(Answers)
    /\ tree \subseteq Drivers
    /\ index \subseteq Drivers

\* Answers carry no request number, yet as long as no write has failed no promise
\* is ever given the answer to another request: updates that are not answered,
\* a crash, a line cut short and stop() leave queue and pipes aligned.
OwnAnswer ==
    pipe = "open" =>
        \A i \in DOMAIN results : results[i] \in {Pending, Error, i}

\* Promises settle in the order they were made: no request overtakes one that is
\* still waiting, whatever the engine and the pipe do.
SettledInOrder ==
    \A i, j \in DOMAIN results :
        i < j /\ results[i] = Pending => results[j] = Pending

\* The engine's tree, once it has read what is in the pipe, is the TypeScript
\* index: the available-only rule holds on whichever engine answers a query.
MirrorInSync ==
    Available /\ engine = "alive" => FoldLeft(Apply, tree, stdin) = index

\* Promise i was made and has not settled.
Waiting(i) == i \in DOMAIN results /\ results[i] = Pending

\* No caller of the bridge waits forever: every promise is answered, or fails
\* when the engine is gone.
EveryPromiseSettles == \A i \in 1..MaxRequests : Waiting(i) ~> ~ Waiting(i)
=============================================================================
