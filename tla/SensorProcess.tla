---------------------------- MODULE SensorProcess ----------------------------
(***************************************************************************)
(* main() and SensorNode of src/robobaton_sensors_node.cpp with both       *)
(* publishers in one process: who is built and started in which order, who *)
(* is stopped when a step throws, who shuts ROS down while the other still *)
(* publishes, and what the exit status says.                               *)
(*                                                                         *)
(* A publisher is what CameraLifecycle and ImuLifecycle show of it: a      *)
(* library thread that admits items to a backlog, and a worker that        *)
(* publishes them.  The camera's workers are one here.                     *)
(***************************************************************************)
EXTENDS Naturals, Sequences

CONSTANTS
    Backlog,  \* bound: items a publisher holds
    Faults    \* the operations that may fail in this instance

ASSUME BacklogAssumption == Backlog \in Nat \ {0}

Publishers == {"imu", "camera"}

VARIABLES
    main,           \* where the main thread is
    todo,           \* the publishers it has still to visit, the current one first
    thrown,         \* an exception unwinds main's try block
    exit_code,      \* main's exit_code
    signalled,      \* g_stop_requested
    process_failed, \* g_process_failed
    ros,            \* whether the ROS context is valid
    node,           \* whether the node, and with it the timestamp mapper, exists
    pub             \* the two publishers

vars == <<main, todo, thrown, exit_code, signalled, process_failed, ros, node, pub>>

\* What StartEnabledPublishers visits, and what the destruction of the members
\* of a half-built node visits: the reverse of their declaration.
Built == <<"imu", "camera">>
\* What StopPublishers visits.
Stopped == <<"camera", "imu">>

StopLabels == {"stop", "close", "join", "wait", "destroy", "record", "notify", "shut", "finish"}
MainLabels ==
    StopLabels \cup {"load", "build", "start", "starting", "executor", "spin", "remove",
                     "left", "shutdown", "exit", "exited"}

\* The failure notifier's two steps are labels of each thread that may run it.
Lives == {"absent", "built", "starting", "failed", "started", "gone"}
PublisherStates ==
    [life : Lives, open : BOOLEAN, stop : BOOLEAN, failed : BOOLEAN, notified : BOOLEAN,
     stop_failed : BOOLEAN, backlog : 0..Backlog, library : {"off", "on", "notify", "shut"},
     worker : {"none", "loop", "sink", "notify", "shut", "exited"}]

Absent ==
    [life |-> "absent", open |-> FALSE, stop |-> FALSE, failed |-> FALSE, notified |-> FALSE,
     stop_failed |-> FALSE, backlog |-> 0, library |-> "off", worker |-> "none"]

Init ==
    /\ main = "load" /\ todo = Built /\ thrown = FALSE /\ exit_code = 0
    /\ signalled = FALSE /\ process_failed = FALSE /\ ros = TRUE /\ node = TRUE
    /\ pub = [p \in Publishers |-> Absent]

Is(p, field, value) == pub[p][field] = value
P == Head(todo)
MayFail(operation) == operation \in Faults

\* An rclcpp call that needs a valid context may throw without one.
RosMayThrow == MayFail("ros") \/ ~ros

-----------------------------------------------------------------------------
(* Steps of the main thread.                                               *)

Process == <<thrown, exit_code, signalled, process_failed, ros, node>>
MainStep(from, to) == main = from /\ main' = to
\* A step that leaves the publishers alone.
MainMoves(from, to) == MainStep(from, to) /\ UNCHANGED <<todo, Process, pub>>

Visited == todo' = Tail(todo)
Next1(here, after) == IF Len(todo) > 1 THEN here ELSE after

Throw(order) ==
    /\ main' = "stop" /\ todo' = order /\ thrown' = TRUE
    /\ UNCHANGED <<exit_code, signalled, process_failed, ros, node>>

\* The node's base, its parameters and the mapper's snapshot.
Load == MainMoves("load", "build")
LoadThrows == main = "load" /\ MayFail("load") /\ Throw(Built) /\ UNCHANGED pub

SkipDisabled ==
    /\ MainStep("build", Next1("build", "executor")) /\ Visited
    /\ UNCHANGED <<Process, pub>>

Build ==
    /\ MainStep("build", "start")
    /\ pub' = [pub EXCEPT ![P].life = "built"]
    /\ UNCHANGED <<todo, Process>>

\* LoadImuConfig or LoadCameraConfig, or the constructor: the member stays empty.
BuildThrows == main = "build" /\ RosMayThrow /\ Throw(Built) /\ UNCHANGED pub

\* Options that the publisher rejects leave the core untouched.
StartRejects == main = "start" /\ MayFail("start") /\ Throw(Built) /\ UNCHANGED pub

\* The worker is spawned and the library runs; items come before Start returns.
Start ==
    /\ MainStep("start", "starting")
    /\ pub' = [pub EXCEPT ![P].life = "starting", ![P].open = TRUE,
                          ![P].library = "on", ![P].worker = "loop"]
    /\ UNCHANGED <<todo, Process>>

\* The library cannot even be set up.
StartFailsEarly ==
    /\ MayFail("start") /\ MainStep("start", "record")
    /\ pub' = [pub EXCEPT ![P].life = "starting"]
    /\ UNCHANGED <<todo, Process>>

StartReturnsOk ==
    /\ MainStep("starting", Next1("build", "executor")) /\ Visited
    /\ pub' = [pub EXCEPT ![P].life = "started"]
    /\ UNCHANGED Process

\* The core has started, and then the rate timer cannot be created.
StartTimerThrows ==
    /\ main = "starting" /\ RosMayThrow /\ Throw(Built)
    /\ pub' = [pub EXCEPT ![P].life = "started"]

\* The camera records the failure and cleans up, the IMU closes and records it last.
StartReturnsFailure ==
    /\ MayFail("start")
    /\ MainStep("starting", IF P = "camera" THEN "record" ELSE "wait")
    /\ pub' = [pub EXCEPT ![P].open = @ /\ P = "camera"]
    /\ UNCHANGED <<todo, Process>>

Executor == MainMoves("executor", "spin")
ExecutorThrows == main = "executor" /\ RosMayThrow /\ Throw(Stopped) /\ UNCHANGED pub

\* Mutants: the loop looks at the context only, or at the signal and the context.
LeaveLoopRosOnly == ~ros /\ MainMoves("spin", "remove")
LeaveLoopSignalOnly == signalled /\ MainMoves("spin", "remove")

\* Main looks at the condition of the loop again each time spin_once returns.
SpinOnce == MainMoves("spin", "spin")
LeaveLoop == (signalled \/ ~ros \/ process_failed) /\ MainMoves("spin", "remove")
SpinThrows == main = "spin" /\ RosMayThrow /\ Throw(Stopped) /\ UNCHANGED pub

\* node.reset() runs ~SensorNode.
RemoveNode ==
    /\ MainStep("remove", "stop") /\ todo' = Stopped
    /\ UNCHANGED <<Process, pub>>
RemoveThrows == main = "remove" /\ RosMayThrow /\ Throw(Stopped) /\ UNCHANGED pub

-----------------------------------------------------------------------------
(* The failure notifier, run by the thread that wins the exchange.         *)

\* RecordProcessFailure, then rclcpp::shutdown.
Notify == process_failed' = TRUE /\ UNCHANGED ros
ShutRos == ros' = FALSE /\ UNCHANGED process_failed

\* A thread of p closes admission; the camera's queues stop with it.
Closed(p, field, to) ==
    [pub[p] EXCEPT ![field] = to, !.open = FALSE, !.stop = @ \/ p = "camera",
                   !.failed = TRUE, !.notified = TRUE]

\* RecordFailure on a thread of p: it notifies, or another has won the exchange.
Recorded(p, field, loser) ==
    IF pub[p].notified THEN Closed(p, field, loser)
    ELSE [pub[p] EXCEPT ![field] = "notify", !.failed = TRUE, !.notified = TRUE,
                        !.open = @ /\ p = "camera"]

OthersUnchanged == UNCHANGED <<main, todo, thrown, exit_code, signalled, node>>
Quiet == OthersUnchanged /\ UNCHANGED <<process_failed, ros>>

NotifierRuns(p, field, after) ==
    \/ /\ Is(p, field, "notify") /\ Notify
       /\ pub' = [pub EXCEPT ![p][field] = "shut"] /\ OthersUnchanged
    \/ /\ Is(p, field, "shut") /\ ShutRos
       /\ pub' = [pub EXCEPT ![p] = Closed(p, field, after)] /\ OthersUnchanged

-----------------------------------------------------------------------------
(* The library's thread and the worker of a publisher.                     *)

\* A full backlog holds the camera's callback up and ends the IMU.
Deliver(p) ==
    /\ Is(p, "library", "on") /\ pub[p].open /\ pub[p].backlog < Backlog
    /\ pub' = [pub EXCEPT ![p].backlog = @ + 1]
    /\ Quiet

\* The IMU's acquisition thread only sets the flag.  A callback in flight when
\* admission closes may still fail.
ImuCallbackFails ==
    /\ MayFail("callback") \/ Is("imu", "backlog", Backlog)
    /\ Is("imu", "library", "on")
    /\ pub' = [pub EXCEPT !["imu"].open = FALSE, !["imu"].failed = TRUE]
    /\ Quiet

CameraCallbackFails ==
    /\ MayFail("callback")
    /\ Is("camera", "library", "on")
    /\ pub' = [pub EXCEPT !["camera"] =
                   [Recorded("camera", "library", "on") EXCEPT !.open = FALSE, !.stop = TRUE]]
    /\ Quiet

\* The IMU's worker drains; the camera's leaves what is queued to the cleanup.
Take(p) ==
    /\ Is(p, "worker", "loop") /\ pub[p].backlog > 0
    /\ IF p = "imu" THEN ~pub[p].failed ELSE ~pub[p].stop
    /\ pub' = [pub EXCEPT ![p].worker = "sink", ![p].backlog = @ - 1]
    /\ Quiet

\* Without a valid context the item goes nowhere, or the publish throws.
Publish(p) ==
    /\ Is(p, "worker", "sink")
    /\ pub' = [pub EXCEPT ![p].worker = "loop"]
    /\ Quiet

PublishThrows(p) ==
    /\ Is(p, "worker", "sink")
    /\ MayFail("publish") \/ ~ros
    /\ pub' = [pub EXCEPT ![p] = Recorded(p, "worker", "exited")]
    /\ Quiet

ImuWorkerSeesFailure ==
    /\ Is("imu", "worker", "loop") /\ pub["imu"].failed
    /\ pub' = [pub EXCEPT !["imu"] = Recorded("imu", "worker", "exited")]
    /\ Quiet

\* Also when it has just looked for a failure and one comes now.
WorkerExits(p) ==
    /\ Is(p, "worker", "loop") /\ pub[p].stop
    /\ p = "imu" => Is(p, "backlog", 0)
    /\ pub' = [pub EXCEPT ![p].worker = "exited"]
    /\ Quiet

-----------------------------------------------------------------------------
(* Stopping a publisher: Stop and ~Impl, or the end of a Start that failed *)
(* after the library had run.                                              *)

\* A publisher that is not there, or whose Start never reached the core.
StopReturnsEarly ==
    /\ MainStep("stop", Next1("stop", "left")) /\ Visited
    /\ Is(P, "life", "absent") \/ Is(P, "life", "built")
    /\ pub' = [pub EXCEPT ![P].life = "gone"]
    /\ UNCHANGED Process

StopBegins ==
    /\ MainStep("stop", IF P = "camera" THEN "close"
                        ELSE IF Is(P, "life", "failed") THEN "finish" ELSE "wait")
    /\ pub[P].life \in {"started", "failed"}
    /\ UNCHANGED <<todo, Process, pub>>

\* The library's stop waits for its callback; icm42688_stop may fail instead.
WaitForLibrary ==
    /\ MainStep("wait", IF P = "camera" THEN "finish" ELSE "close")
    /\ pub[P].library \in {"on", "off"}
    /\ pub' = [pub EXCEPT ![P].library = "off"]
    /\ UNCHANGED <<todo, Process>>

DriverStopFails ==
    /\ MayFail("stop") /\ MainStep("wait", "close") /\ P = "imu"
    /\ pub' = [pub EXCEPT ![P].stop_failed = TRUE]
    /\ UNCHANGED <<todo, Process>>

\* The camera detaches what is queued; the IMU leaves it to the worker.
Close ==
    /\ MainStep("close", "join")
    /\ pub' = [pub EXCEPT ![P].open = FALSE, ![P].stop = TRUE,
                          ![P].backlog = IF P = "camera" THEN 0 ELSE @]
    /\ UNCHANGED <<todo, Process>>

\* Mutant: the worker is detached.
JoinDetaches ==
    /\ MainStep("join", IF P = "camera" THEN "wait" ELSE "destroy")
    /\ UNCHANGED <<todo, Process, pub>>

Join ==
    /\ MainStep("join", IF P = "camera" THEN "wait" ELSE "destroy")
    /\ pub[P].worker \in {"none", "exited"}
    /\ pub' = [pub EXCEPT ![P].worker = "none"]
    /\ UNCHANGED <<todo, Process>>

\* A Stop that cannot join ends the process with _Exit; a Start goes on to throw.  The
\* notifier runs here only if no other thread has won the exchange before.
JoinFails ==
    /\ MayFail("join")
    /\ MainStep("join", IF Is(P, "life", "starting") THEN "finish" ELSE "exited")
    /\ P = "camera" /\ pub[P].worker # "none"
    /\ process_failed' =
        (process_failed \/ ~pub[P].notified \/ ~Is(P, "life", "starting"))
    /\ ros' = (ros /\ pub[P].notified)
    /\ exit_code' = IF Is(P, "life", "starting") THEN exit_code ELSE 1
    /\ pub' = [pub EXCEPT ![P].failed = TRUE, ![P].notified = TRUE]
    /\ UNCHANGED <<todo, thrown, signalled, node>>

\* icm42688_destroy waits for the acquisition thread.
DestroyDriver ==
    /\ MainStep("destroy", IF Is(P, "life", "starting") \/ pub[P].stop_failed
                           THEN "record" ELSE "finish")
    /\ pub' = [pub EXCEPT ![P].library = "off"]
    /\ UNCHANGED <<todo, Process>>

\* RecordFailure on the main thread; the camera's comes before its cleanup.
AfterRecord == IF P = "camera" THEN "close" ELSE "finish"

OwnerRecords ==
    /\ MainStep("record", IF pub[P].notified THEN AfterRecord ELSE "notify")
    /\ pub' = [pub EXCEPT ![P].failed = TRUE, ![P].notified = TRUE]
    /\ UNCHANGED <<todo, Process>>

OwnerNotifies ==
    /\ MainStep("notify", "shut") /\ Notify
    /\ UNCHANGED <<todo, thrown, exit_code, signalled, node, pub>>

OwnerShutsRos ==
    /\ MainStep("shut", AfterRecord) /\ ShutRos
    /\ UNCHANGED <<todo, thrown, exit_code, signalled, node, pub>>

StartThrows ==
    /\ main = "finish" /\ Is(P, "life", "starting")
    /\ pub' = [pub EXCEPT ![P].life = "failed"]
    /\ Throw(Built)

\* Mutant: Stop trusts the notifier to have told the process.
FinishStopSilent ==
    /\ MainStep("finish", Next1("stop", "left")) /\ Visited
    /\ pub[P].life \in {"started", "failed"}
    /\ pub' = [pub EXCEPT ![P].life = "gone"]
    /\ UNCHANGED Process

FinishStop ==
    /\ MainStep("finish", Next1("stop", "left")) /\ Visited
    /\ pub[P].life \in {"started", "failed"}
    /\ pub' = [pub EXCEPT ![P].life = "gone"]
    /\ process_failed' = (process_failed \/ pub[P].failed \/ pub[P].stop_failed)
    /\ UNCHANGED <<thrown, exit_code, signalled, ros, node>>

-----------------------------------------------------------------------------
(* The end of main, and the environment.                                   *)

\* The node is gone with its last member; the exception, if any, is caught.
LeaveTry ==
    /\ MainStep("left", "shutdown")
    /\ node' = FALSE /\ exit_code' = IF thrown THEN 1 ELSE exit_code
    /\ UNCHANGED <<todo, thrown, signalled, process_failed, ros, pub>>

Shutdown ==
    /\ MainStep("shutdown", "exit") /\ ShutRos
    /\ UNCHANGED <<todo, thrown, exit_code, signalled, node, pub>>

Exit ==
    /\ MainStep("exit", "exited")
    /\ exit_code' = IF process_failed THEN 1 ELSE exit_code
    /\ UNCHANGED <<todo, thrown, signalled, process_failed, ros, node, pub>>

\* Mutant: rclcpp's own handler runs on the signal too.
SignalWithDefaultHandler ==
    /\ ~signalled /\ signalled' = TRUE /\ ros' = FALSE
    /\ UNCHANGED <<main, todo, thrown, exit_code, process_failed, node, pub>>

\* SIGINT or SIGTERM, at any time.
RequestStop ==
    /\ ~signalled /\ signalled' = TRUE
    /\ UNCHANGED <<main, todo, thrown, exit_code, process_failed, ros, node, pub>>

SensorNode ==
    Load \/ LoadThrows \/ SkipDisabled \/ Build \/ BuildThrows \/ Start \/ StartRejects
        \/ StartFailsEarly \/ StartReturnsOk \/ StartReturnsFailure \/ StartThrows
        \/ StartTimerThrows

StopPublishers ==
    StopReturnsEarly \/ StopBegins \/ WaitForLibrary \/ DriverStopFails \/ Close \/ Join
        \/ JoinFails \/ DestroyDriver \/ OwnerRecords \/ OwnerNotifies \/ OwnerShutsRos
        \/ FinishStop

Main ==
    SensorNode \/ Executor \/ ExecutorThrows \/ SpinOnce \/ LeaveLoop \/ RemoveNode
        \/ RemoveThrows \/ StopPublishers \/ LeaveTry \/ Shutdown \/ Exit

Worker(p) ==
    \/ Take(p) \/ Publish(p) \/ PublishThrows(p) \/ WorkerExits(p)
    \/ p = "imu" /\ ImuWorkerSeesFailure
    \/ NotifierRuns(p, "worker", "exited")

Library(p) == NotifierRuns(p, "library", "on")

Environment ==
    RequestStop \/ ImuCallbackFails \/ CameraCallbackFails \/ \E p \in Publishers : Deliver(p)

\* The process is over, also for the threads that _Exit leaves behind.
Exited == main = "exited" /\ UNCHANGED vars

Next ==
    \/ /\ main # "exited"
       /\ Main \/ SpinThrows \/ Environment \/ \E p \in Publishers : Worker(p) \/ Library(p)
    \/ Exited

\* Every thread is scheduled.  Neither items nor signals need come, and no
\* exception of the executor.
Fairness ==
    /\ WF_vars(Main)
    /\ \A p \in Publishers : WF_vars(Worker(p)) /\ WF_vars(Library(p))

Spec == Init /\ [][Next]_vars
FairSpec == Spec /\ Fairness

-----------------------------------------------------------------------------
(* Properties.                                                             *)

\* "ROS stays valid until publisher queues drain" (robobaton_sensors_node.cpp:242):
\* nothing is published into an invalid context, unless the process has failed.
RosValidWhileDraining ==
    \A p \in Publishers : Is(p, "worker", "sink") /\ ~ros => process_failed

\* Exit status 0 means that nothing failed anywhere, that whatever was started has
\* been stopped, and that nothing admitted was left behind.
SuccessIsComplete ==
    main = "exited" /\ exit_code = 0 =>
        \A p \in Publishers :
            ~pub[p].failed /\ Is(p, "backlog", 0) /\ Is(p, "life", "gone")

\* No thread runs in a publisher that is destroyed, or on a node and mapper that are:
\* not after a stop, not when a constructor or a start throws half way.
NoThreadOutlivesItsPublisher ==
    \A p \in Publishers :
        pub[p].library # "off" \/ pub[p].worker \notin {"none", "exited"} =>
            node /\ pub[p].life \in {"starting", "failed", "started"}

\* A signal ends the process, even one that arrives during the start.
SignalEnds == signalled ~> main = "exited"

\* A failure of either publisher ends the process, with status 1.
FailureEnds == process_failed ~> main = "exited" /\ exit_code = 1
=============================================================================
