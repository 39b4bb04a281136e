------------------------ MODULE SensorProcessProofs ------------------------
(***************************************************************************)
(* Theorems about SensorProcess: in whichever step a publisher's start or  *)
(* stop goes wrong, no thread outlives what it uses, nothing is published  *)
(* into a context that a clean shutdown has ended, and exit status 0 tells *)
(* the truth.                                                              *)
(***************************************************************************)
EXTENDS SensorProcess, TLAPS

-----------------------------------------------------------------------------
(* The inductive invariant.                                                *)

Life(p) == pub[p].life
Silent(p) == pub[p].library = "off" /\ pub[p].worker \in {"none", "exited"}
Emptied(p) == ~pub[p].open /\ pub[p].backlog = 0
AllGone == \A p \in Publishers : Life(p) = "gone"

TypeOK ==
    /\ main \in MainLabels
    /\ todo \in {Built, Stopped, << "camera" >>, << "imu" >>, << >>}
    /\ thrown \in BOOLEAN /\ exit_code \in {0, 1} /\ signalled \in BOOLEAN
    /\ process_failed \in BOOLEAN /\ ros \in BOOLEAN /\ node \in BOOLEAN
    /\ pub \in [Publishers -> PublisherStates]

\* Building and starting in order: what comes after the current publisher is not there
\* yet, what came before is started or disabled.
StartWalk ==
    \/ todo = Built /\ Life("camera") = "absent"
    \/ todo = << "camera" >> /\ Life("imu") \in {"absent", "started"}

\* Stopping in order: what has been visited is gone, the rest waits for its turn.
Waiting(p) == Life(p) \in {"absent", "built", "started", "failed"}
StopWalk ==
    \/ todo = Built /\ Waiting("camera")
    \/ todo = Stopped /\ Waiting("imu")
    \/ todo = << "camera" >> /\ Life("imu") = "gone"
    \/ todo = << "imu" >> /\ Life("camera") = "gone"

\* Where the main thread is.
WalkOK ==
    /\ main = "load" => todo = Built /\ \A p \in Publishers : Life(p) = "absent"
    /\ main \in {"build", "start", "starting"} => StartWalk
    /\ main = "build" => Life(P) = "absent"
    /\ main = "start" => Life(P) = "built"
    /\ main = "starting" => Life(P) = "starting"
    /\ main \in {"executor", "spin", "remove"} =>
         \A p \in Publishers : Life(p) \in {"absent", "started"}
    /\ main = "stop" => StopWalk /\ Waiting(P)
    /\ main \in StopLabels \ {"stop"} =>
         IF Life(P) = "starting" THEN StartWalk
         ELSE StopWalk /\ Life(P) \in {"started", "failed"}
    /\ main \in {"left", "shutdown", "exit"} => AllGone

\* What the end of main says.
EndOK ==
    /\ ~node => main \in {"shutdown", "exit", "exited"} /\ AllGone
    /\ main = "exited" /\ exit_code = 0 => AllGone /\ ~process_failed
    /\ ~ros => process_failed \/ main = "exit" \/ (main = "exited" /\ AllGone)
    /\ main = "shut" => process_failed

\* What a publisher's threads may be doing at each stage of its life.
PublisherOK(p) ==
    /\ Life(p) \in {"absent", "built"} => pub[p] = [Absent EXCEPT !.life = Life(p)]
    /\ Life(p) = "gone" =>
         /\ Silent(p) /\ (pub[p].failed => process_failed)
         /\ pub[p].failed \/ pub[p].backlog = 0
    /\ pub[p].library = "shut" \/ pub[p].worker = "shut" => process_failed
    /\ pub[p].stop => ~pub[p].open
    /\ p = "imu" =>
         /\ pub[p].library \in {"off", "on"}
         /\ pub[p].worker \in {"none", "exited"} => pub[p].failed \/ Emptied(p)
         /\ Life(p) = "failed" => Silent(p)

\* What the stop of the current publisher has reached.
CameraStopOK ==
    P = "camera" =>
        /\ main \in {"join", "wait"} => Emptied(P)
        /\ main = "wait" => pub[P].worker = "none"
        /\ main = "finish" /\ Life(P) # "starting" => Emptied(P) /\ Silent(P)
        /\ main # "destroy"
        /\ main \in {"record", "notify", "shut"} => Life(P) = "starting"

ImuStopOK ==
    P = "imu" =>
        /\ main = "destroy" => pub[P].worker = "none"
        /\ main \in {"record", "notify", "shut", "finish"} => Silent(P)

StopOK == main \in StopLabels => CameraStopOK /\ ImuStopOK

IInv == TypeOK /\ WalkOK /\ EndOK /\ (\A p \in Publishers : PublisherOK(p)) /\ StopOK

-----------------------------------------------------------------------------
(* The walks over the publishers.                                          *)

Walks == {Built, Stopped, << "camera" >>, << "imu" >>, << >>}

LEMMA WalkSequences ==
  /\ Len(Built) = 2 /\ Head(Built) = "imu" /\ Tail(Built) = << "camera" >>
  /\ Len(Stopped) = 2 /\ Head(Stopped) = "camera" /\ Tail(Stopped) = << "imu" >>
  /\ Len(<< "camera" >>) = 1 /\ Head(<< "camera" >>) = "camera" /\ Tail(<< "camera" >>) = << >>
  /\ Len(<< "imu" >>) = 1 /\ Head(<< "imu" >>) = "imu" /\ Tail(<< "imu" >>) = << >>
BY DEF Built, Stopped

LEMMA Distinct ==
  /\ Built # Stopped /\ Built # << "camera" >> /\ Built # << "imu" >>
  /\ Stopped # << "camera" >> /\ Stopped # << "imu" >> /\ << "camera" >> # << "imu" >>
BY DEF Built, Stopped

\* Where a walk begins and what is left of it after a visit.
LEMMA StartWalks ==
  ASSUME StartWalk
  PROVE  /\ P \in Publishers
         /\ P = "imu" => todo = Built /\ Len(todo) = 2 /\ Tail(todo) = << "camera" >>
                         /\ Life("camera") = "absent"
         /\ P = "camera" => todo = << "camera" >> /\ Len(todo) = 1 /\ Tail(todo) = << >>
                            /\ Life("imu") \in {"absent", "started"}
BY WalkSequences DEF StartWalk, P, Publishers

LEMMA StopWalks ==
  ASSUME StopWalk
  PROVE  /\ P \in Publishers
         /\ P = "imu" /\ Len(todo) > 1 => Tail(todo) = << "camera" >> /\ Waiting("camera")
         /\ P = "camera" /\ Len(todo) > 1 => Tail(todo) = << "imu" >> /\ Waiting("imu")
         /\ P = "imu" /\ ~(Len(todo) > 1) => Tail(todo) = << >> /\ Life("camera") = "gone"
         /\ P = "camera" /\ ~(Len(todo) > 1) => Tail(todo) = << >> /\ Life("imu") = "gone"
<1>1. CASE todo = Built /\ Waiting("camera")
  BY <1>1, WalkSequences DEF P, Publishers
<1>2. CASE todo = Stopped /\ Waiting("imu")
  BY <1>2, WalkSequences DEF P, Publishers
<1>3. CASE todo = << "camera" >> /\ Life("imu") = "gone"
  BY <1>3, WalkSequences DEF P, Publishers
<1>4. CASE todo = << "imu" >> /\ Life("camera") = "gone"
  BY <1>4, WalkSequences DEF P, Publishers
<1> QED
  BY <1>1, <1>2, <1>3, <1>4 DEF StopWalk

-----------------------------------------------------------------------------
(* Steps of the libraries' threads and the workers.                        *)

\* What a thread of publisher p may do to it.
ThreadStep(p, r) ==
    /\ r \in PublisherStates /\ pub' = [pub EXCEPT ![p] = r] /\ ~Silent(p)
    /\ r.life = Life(p)
    /\ pub[p].worker = "none" => r.worker = "none"
    /\ p = "imu" => r.library \in {"off", "on"}
    /\ r.open => pub[p].open
    /\ r.stop => ~r.open
    /\ ~pub[p].open => r.backlog <= pub[p].backlog
    /\ p = "imu" /\ r.worker \in {"none", "exited"} => r.failed \/ (~r.open /\ r.backlog = 0)
    /\ r.library = "shut" \/ r.worker = "shut" => process_failed'
    /\ UNCHANGED <<main, todo, thrown, exit_code, signalled, node>>

LEMMA ThreadStepKeeps ==
  ASSUME IInv, NEW p \in Publishers, NEW r, ThreadStep(p, r), main # "exited",
         process_failed' \in BOOLEAN, ros' \in BOOLEAN, process_failed => process_failed',
         ~ros' => ~ros \/ process_failed'
  PROVE  IInv'
<1>1. /\ pub'[p] = r /\ \A q \in Publishers : q # p => pub'[q] = pub[q]
      /\ pub \in [Publishers -> PublisherStates] /\ pub' \in [Publishers -> PublisherStates]
  BY DEF IInv, TypeOK, ThreadStep
<1>2. \A q \in Publishers : Life(q)' = Life(q)
  BY <1>1 DEF Life, ThreadStep
<1>3. /\ UNCHANGED <<main, todo, thrown, exit_code, signalled, node>> /\ P' = P
      /\ "imu" \in Publishers /\ "camera" \in Publishers
  BY DEF ThreadStep, P, Publishers
<1>4. TypeOK'
  BY <1>1, <1>3 DEF IInv, TypeOK
<1>5. WalkOK'
  <2>1. (StartWalk' <=> StartWalk) /\ (StopWalk' <=> StopWalk) /\ (AllGone' <=> AllGone)
    BY <1>2, <1>3 DEF StartWalk, StopWalk, Waiting, AllGone
  <2>2. P \in Publishers => Life(P)' = Life(P) /\ (Waiting(P)' <=> Waiting(P))
    BY <1>2, <1>3 DEF Waiting
  <2>3. main \in {"build", "start", "starting"} \cup StopLabels => P \in Publishers
    BY StartWalks, StopWalks DEF IInv, WalkOK, StopLabels
  <2> QED
    BY <1>2, <1>3, <2>1, <2>2, <2>3 DEF IInv, WalkOK, StopLabels
<1>6. EndOK'
  BY <1>2, <1>3 DEF IInv, EndOK, AllGone, TypeOK
<1>7. Life(p) \notin {"absent", "built", "gone"} /\ ~(p = "imu" /\ Life(p) = "failed")
  <2>1. Life(p) \in {"absent", "built"} => pub[p].library = "off" /\ pub[p].worker = "none"
    BY DEF IInv, PublisherOK, Absent
  <2> QED
    BY <2>1 DEF IInv, PublisherOK, ThreadStep, Silent
<1>8. PublisherOK(p)'
  BY <1>1, <1>2, <1>3, <1>7 DEF PublisherOK, ThreadStep, Emptied
<1>9. \A q \in Publishers : q # p => PublisherOK(q)'
  BY <1>1, <1>2 DEF IInv, PublisherOK, Silent, Emptied
<1>10. Emptied(p) => Emptied(p)'
  BY <1>1 DEF IInv, TypeOK, ThreadStep, Emptied, PublisherStates
<1>11. \A q \in Publishers : q # p => (Emptied(q) => Emptied(q)') /\ (Silent(q) => Silent(q)')
  BY <1>1 DEF Emptied, Silent
<1>12. CameraStopOK'
  BY <1>1, <1>2, <1>3, <1>10, <1>11 DEF IInv, StopOK, CameraStopOK, ThreadStep, StopLabels
<1>13. ImuStopOK'
  BY <1>1, <1>2, <1>3, <1>10, <1>11 DEF IInv, StopOK, ImuStopOK, ThreadStep, StopLabels
<1> QED
  BY <1>4, <1>5, <1>6, <1>8, <1>9, <1>12, <1>13 DEF IInv, StopOK

LEMMA FieldTypes ==
  ASSUME IInv, NEW p \in Publishers
  PROVE  pub[p] \in PublisherStates
BY DEF IInv, TypeOK

\* What RecordFailure and a closing of admission leave.
LEMMA ClosedFields ==
  ASSUME IInv, NEW p \in Publishers, NEW to,
         NEW field \in {"worker", "library"},
         field = "worker" => to \in {"none", "loop", "sink", "notify", "shut", "exited"},
         field = "library" => to \in {"off", "on", "notify", "shut"}
  PROVE  LET r == Closed(p, field, to)
         IN /\ r \in PublisherStates /\ r.life = pub[p].life /\ r.backlog = pub[p].backlog
            /\ r.failed /\ r.notified /\ ~r.open
            /\ r.library = IF field = "library" THEN to ELSE pub[p].library
            /\ r.worker = IF field = "worker" THEN to ELSE pub[p].worker
<1>1. pub[p] \in PublisherStates
  BY FieldTypes
<1>2. CASE field = "worker"
  BY <1>1, <1>2 DEF Closed, PublisherStates
<1>3. CASE field = "library"
  BY <1>1, <1>3 DEF Closed, PublisherStates
<1> QED
  BY <1>2, <1>3

LEMMA RecordedFields ==
  ASSUME IInv, NEW p \in Publishers, NEW loser,
         NEW field \in {"worker", "library"},
         field = "worker" => loser \in {"none", "loop", "sink", "exited"},
         field = "library" => loser \in {"off", "on"}
  PROVE  LET r == Recorded(p, field, loser)
         IN /\ r \in PublisherStates /\ r.life = pub[p].life /\ r.backlog = pub[p].backlog
            /\ r.failed /\ r.notified /\ (r.open => pub[p].open)
            /\ (r.stop => ~r.open \/ pub[p].stop)
            /\ r.library \in IF field = "library" THEN {loser, "notify"} ELSE {pub[p].library}
            /\ r.worker \in IF field = "worker" THEN {loser, "notify"} ELSE {pub[p].worker}
<1>1. pub[p] \in PublisherStates
  BY FieldTypes
<1>2. CASE pub[p].notified
  BY <1>2, ClosedFields DEF Recorded
<1>3. CASE ~pub[p].notified /\ field = "worker"
  BY <1>1, <1>3 DEF Recorded, PublisherStates
<1>4. CASE ~pub[p].notified /\ field = "library"
  BY <1>1, <1>4 DEF Recorded, PublisherStates
<1> QED
  BY <1>2, <1>3, <1>4

LEMMA DeliverStep ==
  ASSUME IInv, NEW p \in Publishers, Deliver(p)
  PROVE  \E r : ThreadStep(p, r)
<1> DEFINE r == [pub[p] EXCEPT !.backlog = pub[p].backlog + 1]
<1>1. pub[p] \in PublisherStates /\ pub[p].open /\ pub[p].backlog < Backlog
      /\ pub[p].library = "on"
  BY FieldTypes DEF Deliver, Is
<1>2. r \in PublisherStates
  BY <1>1, BacklogAssumption DEF PublisherStates
<1>3. pub' = [pub EXCEPT ![p] = r] /\ UNCHANGED <<main, todo, thrown, exit_code, signalled, node, process_failed>>
  BY DEF Deliver, Quiet, OthersUnchanged
<1>4. /\ r.life = pub[p].life /\ r.worker = pub[p].worker /\ r.library = pub[p].library
      /\ r.open = pub[p].open /\ r.stop = pub[p].stop /\ r.failed = pub[p].failed
  BY <1>1 DEF PublisherStates
<1> HIDE DEF r
<1>5. PublisherOK(p)
  BY DEF IInv
<1>6. ThreadStep(p, r)
  BY <1>1, <1>2, <1>3, <1>4, <1>5 DEF ThreadStep, PublisherOK, Silent, Emptied, Life
<1> QED
  BY <1>6

LEMMA CallbackFailsStep ==
  ASSUME IInv, ImuCallbackFails \/ CameraCallbackFails
  PROVE  \E p \in Publishers : \E r : ThreadStep(p, r)
<1>1. CASE ImuCallbackFails
  <2> DEFINE r == [pub["imu"] EXCEPT !.open = FALSE, !.failed = TRUE]
  <2>1. "imu" \in Publishers /\ pub["imu"] \in PublisherStates /\ pub["imu"].library = "on"
    BY <1>1, FieldTypes DEF ImuCallbackFails, Is, Publishers
  <2>2. /\ r \in PublisherStates /\ r.life = pub["imu"].life /\ r.worker = pub["imu"].worker
        /\ r.library = pub["imu"].library /\ ~r.open /\ r.failed
        /\ r.backlog = pub["imu"].backlog
    BY <2>1 DEF PublisherStates
  <2>3. pub' = [pub EXCEPT !["imu"] = r]
        /\ UNCHANGED <<main, todo, thrown, exit_code, signalled, node, process_failed>>
    BY <1>1 DEF ImuCallbackFails, Quiet, OthersUnchanged
  <2> HIDE DEF r
  <2>4. r.backlog \in Nat /\ (r.worker = "shut" => process_failed)
    <3>1. PublisherOK("imu")
      BY <2>1 DEF IInv
    <3> QED
      BY <2>1, <2>2, <3>1 DEF PublisherStates, PublisherOK
  <2>5. ThreadStep("imu", r)
    BY <2>1, <2>2, <2>3, <2>4 DEF ThreadStep, Silent, Life
  <2> QED
    BY <2>1, <2>5
<1>2. CASE CameraCallbackFails
  <2> DEFINE q == Recorded("camera", "library", "on")
             r == [q EXCEPT !.open = FALSE, !.stop = TRUE]
  <2>1. "camera" \in Publishers /\ pub["camera"] \in PublisherStates
        /\ pub["camera"].library = "on"
    BY <1>2, FieldTypes DEF CameraCallbackFails, Is, Publishers
  <2>2. /\ q \in PublisherStates /\ q.life = pub["camera"].life
        /\ q.backlog = pub["camera"].backlog
        /\ q.library \in {"on", "notify"} /\ q.worker = pub["camera"].worker
    BY <2>1, RecordedFields
  <2>3. pub' = [pub EXCEPT !["camera"] = r]
        /\ UNCHANGED <<main, todo, thrown, exit_code, signalled, node, process_failed>>
    BY <1>2 DEF CameraCallbackFails, Quiet, OthersUnchanged
  <2> HIDE DEF q
  <2>4. /\ r \in PublisherStates /\ r.life = q.life /\ r.backlog = q.backlog
        /\ r.library = q.library /\ r.worker = q.worker /\ ~r.open
    BY <2>2 DEF PublisherStates
  <2> HIDE DEF r
  <2>5. r.backlog \in Nat /\ (r.worker = "shut" => process_failed)
    <3>1. PublisherOK("camera")
      BY <2>1 DEF IInv
    <3> QED
      BY <2>1, <2>2, <2>4, <3>1 DEF PublisherStates, PublisherOK
  <2>6. ThreadStep("camera", r)
    BY <2>1, <2>2, <2>3, <2>4, <2>5 DEF ThreadStep, Silent, Life
  <2> QED
    BY <2>1, <2>6
<1> QED
  BY <1>1, <1>2

LEMMA WorkerStep ==
  ASSUME IInv, NEW p \in Publishers,
         Take(p) \/ Publish(p) \/ WorkerExits(p)
  PROVE  \E r : ThreadStep(p, r)
<1>1. pub[p] \in PublisherStates /\ PublisherOK(p)
  BY FieldTypes DEF IInv
<1>2. UNCHANGED <<main, todo, thrown, exit_code, signalled, node, process_failed>>
  BY DEF Take, Publish, WorkerExits, Quiet, OthersUnchanged
<1>3. CASE Take(p)
  <2> DEFINE r == [pub[p] EXCEPT !.worker = "sink", !.backlog = pub[p].backlog - 1]
  <2>1. pub[p].worker = "loop" /\ pub[p].backlog > 0 /\ pub' = [pub EXCEPT ![p] = r]
    BY <1>3 DEF Take, Is
  <2>2. r \in PublisherStates
    <3>1. pub[p].backlog - 1 \in 0..Backlog
      BY <1>1, <2>1, BacklogAssumption DEF PublisherStates
    <3> QED
      BY <1>1, <3>1 DEF PublisherStates
  <2>3. /\ r.life = pub[p].life /\ r.worker = "sink" /\ r.library = pub[p].library
        /\ r.open = pub[p].open /\ r.stop = pub[p].stop /\ r.backlog = pub[p].backlog - 1
        /\ pub[p].backlog \in Nat
    BY <1>1 DEF PublisherStates
  <2> HIDE DEF r
  <2>4. ThreadStep(p, r)
    BY <1>1, <1>2, <2>1, <2>2, <2>3 DEF ThreadStep, PublisherOK, Silent, Life
  <2> QED
    BY <2>4
<1>4. CASE Publish(p)
  <2> DEFINE r == [pub[p] EXCEPT !.worker = "loop"]
  <2>1. pub[p].worker = "sink" /\ pub' = [pub EXCEPT ![p] = r]
    BY <1>4 DEF Publish, Is
  <2>2. /\ r \in PublisherStates
        /\ r.life = pub[p].life /\ r.worker = "loop" /\ r.library = pub[p].library
        /\ r.open = pub[p].open /\ r.stop = pub[p].stop /\ r.backlog = pub[p].backlog
        /\ pub[p].backlog \in Nat
    BY <1>1 DEF PublisherStates
  <2> HIDE DEF r
  <2>3. ThreadStep(p, r)
    BY <1>1, <1>2, <2>1, <2>2 DEF ThreadStep, PublisherOK, Silent, Life
  <2> QED
    BY <2>3
<1>5. CASE WorkerExits(p)
  <2> DEFINE r == [pub[p] EXCEPT !.worker = "exited"]
  <2>1. /\ pub[p].worker = "loop" /\ pub[p].stop /\ (p = "imu" => pub[p].backlog = 0)
        /\ pub' = [pub EXCEPT ![p] = r]
    BY <1>5 DEF WorkerExits, Is
  <2>2. /\ r \in PublisherStates
        /\ r.life = pub[p].life /\ r.worker = "exited" /\ r.library = pub[p].library
        /\ r.open = pub[p].open /\ r.stop = pub[p].stop /\ r.backlog = pub[p].backlog
        /\ pub[p].backlog \in Nat
    BY <1>1 DEF PublisherStates
  <2> HIDE DEF r
  <2>3. ThreadStep(p, r)
    BY <1>1, <1>2, <2>1, <2>2 DEF ThreadStep, PublisherOK, Silent, Life
  <2> QED
    BY <2>3
<1> QED
  BY <1>3, <1>4, <1>5

LEMMA WorkerFailsStep ==
  ASSUME IInv, NEW p \in Publishers,
         PublishThrows(p) \/ (p = "imu" /\ ImuWorkerSeesFailure)
  PROVE  \E r : ThreadStep(p, r)
<1> DEFINE r == Recorded(p, "worker", "exited")
<1>1. /\ pub[p] \in PublisherStates /\ PublisherOK(p) /\ pub[p].worker \in {"loop", "sink"}
      /\ pub' = [pub EXCEPT ![p] = r]
      /\ UNCHANGED <<main, todo, thrown, exit_code, signalled, node, process_failed>>
  BY FieldTypes DEF IInv, PublishThrows, ImuWorkerSeesFailure, Is, Quiet, OthersUnchanged
<1>2. /\ r \in PublisherStates /\ r.life = pub[p].life /\ r.backlog = pub[p].backlog
      /\ r.failed /\ (r.open => pub[p].open) /\ (r.stop => ~r.open \/ pub[p].stop)
      /\ r.library = pub[p].library /\ r.worker \in {"exited", "notify"}
  BY RecordedFields
<1> HIDE DEF r
<1>3. r.backlog \in Nat
  BY <1>1, <1>2 DEF PublisherStates
<1>4. ThreadStep(p, r)
  BY <1>1, <1>2, <1>3 DEF ThreadStep, PublisherOK, Silent, Life
<1> QED
  BY <1>4

LEMMA NotifierStep ==
  ASSUME IInv, NEW p \in Publishers,
         NotifierRuns(p, "worker", "exited") \/ NotifierRuns(p, "library", "on")
  PROVE  /\ \E r : ThreadStep(p, r)
         /\ process_failed' \in BOOLEAN /\ ros' \in BOOLEAN
         /\ process_failed => process_failed'
         /\ ~ros' => ~ros \/ process_failed'
<1>1. PICK field \in {"worker", "library"} :
        NotifierRuns(p, field, IF field = "worker" THEN "exited" ELSE "on")
  OBVIOUS
<1> DEFINE after == IF field = "worker" THEN "exited" ELSE "on"
<1>2. /\ pub[p] \in PublisherStates /\ PublisherOK(p) /\ process_failed \in BOOLEAN
      /\ ros \in BOOLEAN /\ pub[p].backlog \in Nat
      /\ UNCHANGED <<main, todo, thrown, exit_code, signalled, node>>
  BY <1>1, FieldTypes DEF IInv, TypeOK, NotifierRuns, OthersUnchanged, PublisherStates
<1>3. CASE Is(p, field, "notify")
  <2> DEFINE r == [pub[p] EXCEPT ![field] = "shut"]
  <2>1. Notify /\ pub' = [pub EXCEPT ![p] = r]
    BY <1>1, <1>3 DEF NotifierRuns, Is
  <2>2. /\ r \in PublisherStates /\ r.life = pub[p].life /\ r.backlog = pub[p].backlog
        /\ r.open = pub[p].open /\ r.stop = pub[p].stop /\ r.failed = pub[p].failed
        /\ field = "worker" => r.library = pub[p].library /\ r.worker = "shut"
        /\ field = "library" => r.worker = pub[p].worker /\ r.library = "shut"
    BY <1>2 DEF PublisherStates
  <2>3. ~Silent(p) /\ (field = "worker" => pub[p].worker = "notify")
        /\ (field = "library" => pub[p].library = "notify")
    BY <1>3 DEF Is, Silent
  <2> HIDE DEF r
  <2>4. ThreadStep(p, r)
    BY <1>2, <2>1, <2>2, <2>3 DEF ThreadStep, PublisherOK, Life, Notify, Emptied
  <2> QED
    BY <1>2, <2>1, <2>4 DEF Notify
<1>4. CASE ~Is(p, field, "notify")
  <2> DEFINE r == Closed(p, field, after)
  <2>1. Is(p, field, "shut") /\ ShutRos /\ pub' = [pub EXCEPT ![p] = r]
    BY <1>1, <1>4 DEF NotifierRuns
  <2>2. /\ r \in PublisherStates /\ r.life = pub[p].life /\ r.backlog = pub[p].backlog
        /\ ~r.open /\ r.failed
        /\ field = "worker" => r.library = pub[p].library /\ r.worker = "exited"
        /\ field = "library" => r.worker = pub[p].worker /\ r.library = "on"
    BY ClosedFields
  <2>3. ~Silent(p) /\ (field = "worker" => pub[p].worker = "shut")
        /\ (field = "library" => pub[p].library = "shut") /\ process_failed
    BY <1>2, <2>1 DEF Is, Silent, PublisherOK
  <2> HIDE DEF r
  <2>4. ThreadStep(p, r)
    BY <1>2, <2>1, <2>2, <2>3 DEF ThreadStep, PublisherOK, Life, ShutRos
  <2> QED
    BY <1>2, <2>1, <2>3, <2>4 DEF ShutRos
<1> QED
  BY <1>3, <1>4

LEMMA ThreadsKeep ==
  ASSUME IInv, main # "exited",
         ImuCallbackFails \/ CameraCallbackFails
           \/ \E p \in Publishers : Deliver(p) \/ Worker(p) \/ Library(p)
  PROVE  IInv'
<1>1. process_failed \in BOOLEAN /\ ros \in BOOLEAN
  BY DEF IInv, TypeOK
<1>2. CASE ImuCallbackFails \/ CameraCallbackFails
  <2>1. UNCHANGED <<process_failed, ros>>
    BY <1>2 DEF ImuCallbackFails, CameraCallbackFails, Quiet
  <2> QED
    BY <1>1, <1>2, <2>1, CallbackFailsStep, ThreadStepKeeps
<1>3. ASSUME NEW p \in Publishers, Deliver(p) \/ Worker(p) \/ Library(p) PROVE IInv'
  <2>1. CASE NotifierRuns(p, "worker", "exited") \/ NotifierRuns(p, "library", "on")
    BY <2>1, NotifierStep, ThreadStepKeeps
  <2>2. CASE Deliver(p)
    <3>1. UNCHANGED <<process_failed, ros>>
      BY <2>2 DEF Deliver, Quiet
    <3> QED
      BY <1>1, <2>2, <3>1, DeliverStep, ThreadStepKeeps
  <2>3. CASE Take(p) \/ Publish(p) \/ WorkerExits(p)
    <3>1. UNCHANGED <<process_failed, ros>>
      BY <2>3 DEF Take, Publish, WorkerExits, Quiet
    <3> QED
      BY <1>1, <2>3, <3>1, WorkerStep, ThreadStepKeeps
  <2>4. CASE PublishThrows(p) \/ (p = "imu" /\ ImuWorkerSeesFailure)
    <3>1. UNCHANGED <<process_failed, ros>>
      BY <2>4 DEF PublishThrows, ImuWorkerSeesFailure, Quiet
    <3> QED
      BY <1>1, <2>4, <3>1, WorkerFailsStep, ThreadStepKeeps
  <2> QED
    BY <1>3, <2>1, <2>2, <2>3, <2>4 DEF Worker, Library
<1> QED
  BY <1>2, <1>3

-----------------------------------------------------------------------------
(* Steps of the main thread that leave the publishers alone.               *)

LEMMA PubStays ==
  ASSUME IInv, pub' = pub, process_failed => process_failed'
  PROVE  /\ \A p \in Publishers : PublisherOK(p)' /\ Life(p)' = Life(p)
                                  /\ (Waiting(p)' <=> Waiting(p))
         /\ AllGone' <=> AllGone
BY DEF IInv, PublisherOK, Life, Silent, Emptied, AllGone, Waiting

\* At "stop" no stage of a publisher's stop has been reached.
LEMMA StopBegun == main = "stop" => StopOK
BY DEF StopOK, CameraStopOK, ImuStopOK

LEMMA ThrowStep ==
  ASSUME IInv, NEW order \in {Built, Stopped}, Throw(order),
         \A p \in Publishers : Waiting(p)', \A p \in Publishers : PublisherOK(p)',
         pub' \in [Publishers -> PublisherStates],
         main \notin {"shutdown", "exit", "exited"}
  PROVE  IInv'
<1>1. /\ main' = "stop" /\ todo' = order /\ thrown' = TRUE
      /\ UNCHANGED <<exit_code, signalled, process_failed, ros, node>>
  BY DEF Throw
<1>2. TypeOK'
  BY <1>1 DEF IInv, TypeOK, MainLabels, StopLabels
<1>3. StopWalk' /\ Waiting(P)'
  <2>1. P' \in Publishers /\ "imu" \in Publishers /\ "camera" \in Publishers
    BY <1>1, WalkSequences DEF P, Publishers
  <2> QED
    BY <1>1, <2>1 DEF StopWalk
<1>4. WalkOK'
  BY <1>1, <1>3 DEF WalkOK
<1>5. EndOK'
  BY <1>1 DEF IInv, EndOK
<1>6. StopOK'
  BY <1>1 DEF StopOK, CameraStopOK, ImuStopOK
<1> QED
  BY <1>2, <1>4, <1>5, <1>6 DEF IInv

LEMMA EarlyThrows ==
  ASSUME IInv,
         LoadThrows \/ BuildThrows \/ StartRejects \/ ExecutorThrows \/ SpinThrows \/ RemoveThrows
  PROVE  IInv'
<1>1. /\ \E order \in {Built, Stopped} : Throw(order)
      /\ pub' = pub /\ process_failed' = process_failed
      /\ main \in {"load", "build", "start", "executor", "spin", "remove"}
  BY DEF LoadThrows, BuildThrows, StartRejects, ExecutorThrows, SpinThrows, RemoveThrows, Throw
<1>2. \A p \in Publishers : Waiting(p)
  <2>1. CASE main \in {"build", "start"}
    BY <2>1, StartWalks DEF IInv, WalkOK, Waiting, Publishers
  <2>2. CASE main \in {"load", "executor", "spin", "remove"}
    BY <2>2 DEF IInv, WalkOK, Waiting
  <2> QED
    BY <1>1, <2>1, <2>2
<1>3. /\ \A p \in Publishers : Waiting(p)' /\ PublisherOK(p)'
      /\ pub' \in [Publishers -> PublisherStates]
  BY <1>1, <1>2, PubStays DEF IInv, TypeOK
<1> QED
  BY <1>1, <1>3, ThrowStep

LEMMA LoopStep ==
  ASSUME IInv, Load \/ Executor \/ SpinOnce \/ LeaveLoop \/ RemoveNode \/ StopBegins
  PROVE  IInv'
<1>1. pub' = pub /\ UNCHANGED Process
  BY DEF Load, Executor, SpinOnce, LeaveLoop, RemoveNode, StopBegins, MainMoves
<1>2. UNCHANGED <<thrown, exit_code, signalled, process_failed, ros, node>>
  BY <1>1 DEF Process
<1>3. /\ \A p \in Publishers : PublisherOK(p)' /\ Life(p)' = Life(p)
                               /\ (Waiting(p)' <=> Waiting(p))
      /\ AllGone' <=> AllGone
  BY <1>1, <1>2, PubStays
<1>4. "imu" \in Publishers /\ "camera" \in Publishers
  BY DEF Publishers
<1>5. CASE Load
  <2>1. main = "load" /\ main' = "build" /\ todo' = todo /\ todo = Built
    BY <1>5 DEF Load, MainMoves, MainStep, IInv, WalkOK
  <2>2. P' = "imu" /\ \A p \in Publishers : Life(p) = "absent"
    BY <2>1, WalkSequences DEF P, IInv, WalkOK
  <2>3. TypeOK' /\ EndOK' /\ StopOK'
    BY <1>1, <1>2, <1>3, <2>1 DEF IInv, TypeOK, EndOK, StopOK, MainLabels, StopLabels
  <2>4. WalkOK'
    BY <1>3, <1>4, <2>1, <2>2 DEF WalkOK, StartWalk, StopLabels
  <2> QED
    BY <1>3, <2>3, <2>4 DEF IInv
<1>6. CASE Executor \/ SpinOnce \/ LeaveLoop
  <2>1. main \in {"executor", "spin"} /\ main' \in {"spin", "remove"} /\ todo' = todo
    BY <1>6 DEF Executor, SpinOnce, LeaveLoop, MainMoves, MainStep
  <2>2. \A p \in Publishers : Life(p) \in {"absent", "started"}
    BY <2>1 DEF IInv, WalkOK
  <2>3. TypeOK' /\ EndOK' /\ StopOK'
    BY <1>1, <1>2, <1>3, <2>1 DEF IInv, TypeOK, EndOK, StopOK, MainLabels, StopLabels
  <2>4. WalkOK'
    BY <1>3, <2>1, <2>2 DEF WalkOK, StopLabels
  <2> QED
    BY <1>3, <2>3, <2>4 DEF IInv
<1>7. CASE RemoveNode
  <2>1. main = "remove" /\ main' = "stop" /\ todo' = Stopped
    BY <1>7 DEF RemoveNode, MainStep
  <2>2. \A p \in Publishers : Waiting(p)
    BY <2>1 DEF IInv, WalkOK, Waiting
  <2>3. TypeOK' /\ EndOK'
    BY <1>1, <1>2, <1>3, <2>1 DEF IInv, TypeOK, EndOK, MainLabels, StopLabels
  <2>4. P' \in Publishers
    BY <2>1, WalkSequences DEF P, Publishers
  <2>5. StopOK'
    BY <2>1 DEF StopOK, CameraStopOK, ImuStopOK
  <2>6. WalkOK'
    BY <1>1, <1>3, <1>4, <2>1, <2>2, <2>4 DEF WalkOK, StopWalk, Waiting, Life
  <2> QED
    BY <1>3, <2>3, <2>5, <2>6 DEF IInv
<1>8. CASE StopBegins
  <2>1. /\ main = "stop" /\ todo' = todo /\ P' = P
        /\ main' = IF P = "camera" THEN "close"
                   ELSE IF Life(P) = "failed" THEN "finish" ELSE "wait"
        /\ Life(P) \in {"started", "failed"}
    BY <1>8 DEF StopBegins, MainStep, Is, Life, P
  <2>2. StopWalk /\ P \in Publishers
    BY <2>1, StopWalks DEF IInv, WalkOK
  <2>3. TypeOK' /\ EndOK'
    BY <1>1, <1>2, <1>3, <2>1 DEF IInv, TypeOK, EndOK, MainLabels, StopLabels
  <2>4. StopWalk' /\ Life(P)' = Life(P)
    BY <1>3, <1>4, <2>1, <2>2 DEF StopWalk
  <2>5. WalkOK'
    BY <2>1, <2>4 DEF WalkOK, StopLabels
  <2>6. P = "imu" /\ Life(P) = "failed" => Silent(P)
    BY <2>2 DEF IInv, PublisherOK
  <2>7. StopOK'
    BY <1>1, <2>1, <2>6 DEF StopOK, CameraStopOK, ImuStopOK, Silent
  <2> QED
    BY <1>3, <2>3, <2>5, <2>7 DEF IInv
<1> QED
  BY <1>5, <1>6, <1>7, <1>8

LEMMA EndStep ==
  ASSUME IInv, LeaveTry \/ Shutdown \/ Exit
  PROVE  IInv'
<1>1. /\ pub' = pub /\ todo' = todo /\ UNCHANGED <<thrown, signalled, process_failed>>
      /\ main \in {"left", "shutdown", "exit"} /\ AllGone
  BY DEF LeaveTry, Shutdown, Exit, MainStep, ShutRos, IInv, WalkOK
<1>2. (\A p \in Publishers : PublisherOK(p)') /\ AllGone'
  BY <1>1, PubStays
<1>3. CASE LeaveTry
  <2>1. /\ main = "left" /\ main' = "shutdown" /\ ~node' /\ ros' = ros
        /\ exit_code' = IF thrown THEN 1 ELSE exit_code
    BY <1>3 DEF LeaveTry, MainStep
  <2>2. TypeOK'
    BY <1>1, <1>3, <2>1 DEF LeaveTry, IInv, TypeOK, MainLabels, StopLabels
  <2>3. EndOK'
    BY <1>1, <1>2, <2>1 DEF IInv, EndOK
  <2> QED
    BY <1>2, <2>1, <2>2, <2>3 DEF IInv, WalkOK, StopOK, StopLabels
<1>4. CASE Shutdown
  BY <1>1, <1>2, <1>4 DEF Shutdown, ShutRos, MainStep, IInv, TypeOK, WalkOK, EndOK, StopOK,
     MainLabels, StopLabels
<1>5. CASE Exit
  <2>1. /\ main = "exit" /\ main' = "exited" /\ node' = node /\ ros' = ros
        /\ exit_code' = IF process_failed THEN 1 ELSE exit_code
    BY <1>5 DEF Exit, MainStep
  <2>2. TypeOK'
    BY <1>1, <2>1 DEF IInv, TypeOK, MainLabels
  <2>3. EndOK'
    BY <1>1, <1>2, <2>1 DEF IInv, EndOK
  <2> QED
    BY <1>2, <2>1, <2>2, <2>3 DEF IInv, WalkOK, StopOK, StopLabels
<1> QED
  BY <1>3, <1>4, <1>5

LEMMA StillStep ==
  ASSUME IInv, UNCHANGED <<main, todo, thrown, exit_code, process_failed, ros, node, pub>>,
         signalled' \in BOOLEAN
  PROVE  IInv'
<1>1. /\ \A p \in Publishers : PublisherOK(p)' /\ Life(p)' = Life(p)
                               /\ (Waiting(p)' <=> Waiting(p))
      /\ AllGone' <=> AllGone
  BY PubStays
<1>2. TypeOK' /\ EndOK'
  BY <1>1 DEF IInv, TypeOK, EndOK
<1>3. WalkOK' /\ StopOK'
  BY DEF IInv, WalkOK, StartWalk, StopWalk, Waiting, AllGone, Life, P, StopOK, CameraStopOK,
     ImuStopOK, Emptied, Silent
<1> QED
  BY <1>1, <1>2, <1>3 DEF IInv

-----------------------------------------------------------------------------
(* Steps of the main thread that build and start the publishers.           *)

\* What a step of the main thread that changes publisher p leaves of the other.
LEMMA OtherStays ==
  ASSUME IInv, NEW p \in Publishers, NEW r \in PublisherStates, pub' = [pub EXCEPT ![p] = r],
         process_failed => process_failed'
  PROVE  /\ pub'[p] = r /\ pub' \in [Publishers -> PublisherStates]
         /\ \A q \in Publishers : q # p => /\ Life(q)' = Life(q)
                                           /\ (Waiting(q)' <=> Waiting(q)) /\ PublisherOK(q)'
<1>1. /\ pub'[p] = r /\ pub' \in [Publishers -> PublisherStates]
      /\ \A q \in Publishers : q # p => pub'[q] = pub[q]
  BY DEF IInv, TypeOK
<1> QED
  BY <1>1 DEF IInv, PublisherOK, Life, Silent, Emptied, Waiting

LEMMA SkipStep ==
  ASSUME IInv, SkipDisabled
  PROVE  IInv'
<1>1. /\ main = "build" /\ main' = (IF Len(todo) > 1 THEN "build" ELSE "executor")
      /\ todo' = Tail(todo) /\ pub' = pub
      /\ UNCHANGED <<thrown, exit_code, signalled, process_failed, ros, node>>
      /\ StartWalk /\ Life(P) = "absent"
  BY DEF SkipDisabled, MainStep, Next1, Visited, Process, IInv, WalkOK
<1>2. \A p \in Publishers : PublisherOK(p)' /\ Life(p)' = Life(p)
  BY <1>1, PubStays
<1>3. "imu" \in Publishers /\ "camera" \in Publishers /\ P \in Publishers
  BY <1>1, StartWalks DEF Publishers
<1>4. CASE P = "imu"
  <2>1. main' = "build" /\ todo' = << "camera" >> /\ P' = "camera"
        /\ Life("camera") = "absent" /\ Life("imu") = "absent"
    <3>1. main' = "build" /\ todo' = << "camera" >>
          /\ Life("camera") = "absent" /\ Life("imu") = "absent"
      BY <1>1, <1>4, StartWalks
    <3>2. P' = Head(todo')
      BY DEF P
    <3> QED
      BY <3>1, <3>2, WalkSequences
  <2>2. TypeOK' /\ EndOK' /\ StopOK'
    BY <1>1, <2>1 DEF IInv, TypeOK, EndOK, StopOK, MainLabels, StopLabels
  <2>3. WalkOK'
    BY <1>2, <1>3, <2>1 DEF WalkOK, StartWalk, StopLabels
  <2> QED
    BY <1>2, <2>2, <2>3 DEF IInv
<1>5. CASE P = "camera"
  <2>1. main' = "executor" /\ todo' = << >>
        /\ \A p \in Publishers : Life(p) \in {"absent", "started"}
    BY <1>1, <1>5, StartWalks DEF Publishers
  <2>2. TypeOK' /\ EndOK' /\ StopOK'
    BY <1>1, <2>1 DEF IInv, TypeOK, EndOK, StopOK, MainLabels, StopLabels
  <2>3. WalkOK'
    BY <1>2, <2>1 DEF WalkOK, StopLabels
  <2> QED
    BY <1>2, <2>2, <2>3 DEF IInv
<1> QED
  BY <1>3, <1>4, <1>5 DEF Publishers

\* A step that goes on with the publisher that is being built or started.
LEMMA StartGoesOn ==
  ASSUME IInv, main \in {"build", "start", "starting"}, todo' = todo,
         UNCHANGED <<thrown, exit_code, signalled, process_failed, ros, node>>,
         NEW r \in PublisherStates, pub' = [pub EXCEPT ![P] = r], PublisherOK(P)', StopOK',
         \/ main' = "start" /\ r.life = "built"
         \/ main' \in {"starting", "wait", "record"} /\ r.life = "starting"
  PROVE  IInv'
<1>1. StartWalk /\ P \in Publishers /\ P' = P
  BY StartWalks DEF IInv, WalkOK, P
<1>2. /\ pub'[P] = r /\ pub' \in [Publishers -> PublisherStates]
      /\ \A q \in Publishers : q # P => Life(q)' = Life(q) /\ PublisherOK(q)'
  BY <1>1, OtherStays
<1>3. Life(P)' = r.life /\ \A q \in Publishers : PublisherOK(q)'
  BY <1>1, <1>2 DEF Life
<1>4. StartWalk'
  BY <1>1, <1>2, StartWalks DEF StartWalk, Publishers
<1>5. TypeOK' /\ EndOK'
  BY <1>2 DEF IInv, TypeOK, EndOK, MainLabels, StopLabels
<1>6. WalkOK'
  BY <1>3, <1>4 DEF WalkOK, StopLabels
<1> QED
  BY <1>3, <1>5, <1>6 DEF IInv

LEMMA StartStep ==
  ASSUME IInv, Build \/ Start \/ StartFailsEarly \/ StartReturnsFailure
  PROVE  IInv'
<1>1. /\ main \in {"build", "start", "starting"} /\ todo' = todo /\ P' = P
      /\ UNCHANGED <<thrown, exit_code, signalled, process_failed, ros, node>>
  BY DEF Build, Start, StartFailsEarly, StartReturnsFailure, MainStep, Process, P
<1>2. P \in Publishers /\ pub[P] \in PublisherStates /\ PublisherOK(P)
  BY <1>1, StartWalks, FieldTypes DEF IInv, WalkOK
<1>3. /\ main = "build" => Life(P) = "absent"
      /\ main = "start" => Life(P) = "built"
      /\ main = "starting" => Life(P) = "starting"
      /\ Life(P) \in {"absent", "built"} => pub[P] = [Absent EXCEPT !.life = Life(P)]
  BY <1>2 DEF IInv, WalkOK, PublisherOK
<1>4. CASE Build
  <2> DEFINE r == [pub[P] EXCEPT !.life = "built"]
  <2>1. main = "build" /\ main' = "start" /\ pub' = [pub EXCEPT ![P] = r]
    BY <1>4 DEF Build, MainStep
  <2>2. r = [Absent EXCEPT !.life = "built"] /\ r \in PublisherStates /\ r.life = "built"
    BY <1>2, <1>3, <2>1 DEF Absent, PublisherStates, Lives
  <2> HIDE DEF r
  <2>3. pub'[P'] = r
    BY <1>1, <1>2, <2>1, <2>2, OtherStays
  <2>4. PublisherOK(P)'
    BY <2>2, <2>3 DEF PublisherOK, Life, Silent, Emptied, Absent
  <2>5. StopOK'
    BY <2>1 DEF StopOK, StopLabels
  <2> QED
    BY <1>1, <2>1, <2>2, <2>4, <2>5, StartGoesOn
<1>5. CASE Start
  <2> DEFINE r == [pub[P] EXCEPT !.life = "starting", !.open = TRUE, !.library = "on",
                                 !.worker = "loop"]
  <2>1. main = "start" /\ main' = "starting" /\ pub' = [pub EXCEPT ![P] = r]
    BY <1>5 DEF Start, MainStep
  <2>2. /\ r \in PublisherStates /\ r.life = "starting" /\ r.library = "on" /\ r.worker = "loop"
        /\ ~r.stop
    BY <1>2, <1>3, <2>1 DEF Absent, PublisherStates, Lives
  <2> HIDE DEF r
  <2>3. pub'[P'] = r
    BY <1>1, <1>2, <2>1, <2>2, OtherStays
  <2>4. PublisherOK(P)'
    BY <2>2, <2>3 DEF PublisherOK, Life, Silent, Emptied
  <2>5. StopOK'
    BY <2>1 DEF StopOK, StopLabels
  <2> QED
    BY <1>1, <2>1, <2>2, <2>4, <2>5, StartGoesOn
<1>6. CASE StartFailsEarly
  <2> DEFINE r == [pub[P] EXCEPT !.life = "starting"]
  <2>1. main = "start" /\ main' = "record" /\ pub' = [pub EXCEPT ![P] = r]
    BY <1>6 DEF StartFailsEarly, MainStep
  <2>2. /\ r \in PublisherStates /\ r.life = "starting" /\ r.library = "off"
        /\ r.worker = "none" /\ ~r.stop /\ ~r.open /\ r.backlog = 0
    BY <1>2, <1>3, <2>1 DEF Absent, PublisherStates, Lives
  <2> HIDE DEF r
  <2>3. pub'[P'] = r
    BY <1>1, <1>2, <2>1, <2>2, OtherStays
  <2>4. PublisherOK(P)'
    BY <2>2, <2>3 DEF PublisherOK, Life, Silent, Emptied
  <2>5. StopOK'
    BY <2>1, <2>2, <2>3 DEF StopOK, CameraStopOK, ImuStopOK, Life, Silent
  <2> QED
    BY <1>1, <2>1, <2>2, <2>4, <2>5, StartGoesOn
<1>7. CASE StartReturnsFailure
  <2> DEFINE r == [pub[P] EXCEPT !.open = pub[P].open /\ P = "camera"]
  <2>1. /\ main = "starting" /\ main' = IF P = "camera" THEN "record" ELSE "wait"
        /\ pub' = [pub EXCEPT ![P] = r]
    BY <1>7 DEF StartReturnsFailure, MainStep
  <2>2. Life(P) = "starting"
    BY <1>3, <2>1
  <2>3. /\ r \in PublisherStates /\ r.life = "starting"
        /\ r.library = pub[P].library /\ r.worker = pub[P].worker /\ r.stop = pub[P].stop
        /\ (r.open => pub[P].open) /\ r.backlog = pub[P].backlog /\ r.failed = pub[P].failed
    BY <1>2, <2>2 DEF PublisherStates, Life
  <2> HIDE DEF r
  <2>4. pub'[P'] = r
    BY <1>1, <1>2, <2>1, <2>3, OtherStays
  <2>5. PublisherOK(P)'
    BY <1>1, <1>2, <2>3, <2>4 DEF PublisherOK, Life, Silent, Emptied
  <2>6. StopOK'
    BY <1>1, <2>1, <2>3, <2>4 DEF StopOK, CameraStopOK, ImuStopOK, Life, Silent
  <2> QED
    BY <1>1, <2>1, <2>3, <2>5, <2>6, StartGoesOn
<1> QED
  BY <1>4, <1>5, <1>6, <1>7

LEMMA StartedStep ==
  ASSUME IInv, StartReturnsOk \/ StartTimerThrows
  PROVE  IInv'
<1> DEFINE r == [pub[P] EXCEPT !.life = "started"]
<1>1. /\ main = "starting" /\ pub' = [pub EXCEPT ![P] = r]
      /\ StartWalk /\ Life(P) = "starting" /\ P \in Publishers
      /\ UNCHANGED <<exit_code, signalled, process_failed, ros, node>>
  BY StartWalks DEF StartReturnsOk, StartTimerThrows, MainStep, Throw, Process, IInv, WalkOK
<1>2. pub[P] \in PublisherStates /\ PublisherOK(P)
  BY <1>1, FieldTypes DEF IInv
<1>3. /\ r \in PublisherStates /\ r.life = "started"
      /\ r.library = pub[P].library /\ r.worker = pub[P].worker /\ r.stop = pub[P].stop
      /\ r.open = pub[P].open /\ r.backlog = pub[P].backlog /\ r.failed = pub[P].failed
  BY <1>2 DEF PublisherStates, Lives
<1> HIDE DEF r
<1>4. /\ pub'[P] = r /\ pub' \in [Publishers -> PublisherStates]
      /\ \A q \in Publishers : q # P => /\ Life(q)' = Life(q)
                                        /\ (Waiting(q)' <=> Waiting(q)) /\ PublisherOK(q)'
  BY <1>1, <1>3, OtherStays
<1>5. \A q \in Publishers : PublisherOK(q)'
  <2>1. ASSUME NEW q \in Publishers, q = P PROVE PublisherOK(q)'
    BY <1>1, <1>2, <1>3, <1>4, <2>1 DEF PublisherOK, Life, Silent, Emptied
  <2> QED
    BY <1>4, <2>1
<1>6. \A q \in Publishers : q = P => Life(q)' = "started"
  BY <1>3, <1>4 DEF Life
<1>7. CASE StartReturnsOk
  <2>1. /\ main' = (IF Len(todo) > 1 THEN "build" ELSE "executor") /\ todo' = Tail(todo)
        /\ thrown' = thrown
    BY <1>7 DEF StartReturnsOk, MainStep, Next1, Visited, Process
  <2>2. CASE P = "imu"
    <3>1. /\ main' = "build" /\ todo' = << "camera" >> /\ P' = "camera"
          /\ Life("camera")' = "absent" /\ Life("imu")' = "started"
      <4>1. main' = "build" /\ todo' = << "camera" >> /\ Life("camera") = "absent"
        BY <1>1, <2>1, <2>2, StartWalks
      <4>2. P' = Head(todo')
        BY DEF P
      <4>3. Life("imu")' = "started"
        BY <1>6, <2>2 DEF Publishers
      <4>4. Life("camera")' = Life("camera")
        BY <1>4, <2>2 DEF Publishers
      <4> QED
        BY <4>1, <4>2, <4>3, <4>4, WalkSequences
    <3>2. TypeOK' /\ EndOK' /\ StopOK'
      BY <1>1, <1>4, <2>1, <3>1 DEF IInv, TypeOK, EndOK, StopOK, MainLabels, StopLabels
    <3>3. WalkOK'
      BY <3>1 DEF WalkOK, StartWalk, StopLabels
    <3> QED
      BY <1>5, <3>2, <3>3 DEF IInv
  <2>3. CASE P = "camera"
    <3>1. main' = "executor" /\ todo' = << >>
          /\ \A q \in Publishers : Life(q)' \in {"absent", "started"}
      BY <1>1, <1>4, <1>6, <2>1, <2>3, StartWalks DEF Publishers
    <3>2. TypeOK' /\ EndOK' /\ StopOK'
      BY <1>1, <1>4, <2>1, <3>1 DEF IInv, TypeOK, EndOK, StopOK, MainLabels, StopLabels
    <3>3. WalkOK'
      BY <3>1 DEF WalkOK, StopLabels
    <3> QED
      BY <1>5, <3>2, <3>3 DEF IInv
  <2> QED
    BY <1>1, <2>2, <2>3 DEF Publishers
<1>8. CASE StartTimerThrows
  <2>1. \A q \in Publishers : Waiting(q)'
    <3>1. \A q \in Publishers : q # P => Waiting(q)
      BY <1>1, StartWalks DEF Waiting, Publishers
    <3>2. \A q \in Publishers : q = P => Waiting(q)'
      BY <1>6 DEF Waiting
    <3> QED
      BY <1>4, <3>1, <3>2
  <2> QED
    BY <1>1, <1>4, <1>5, <1>8, <2>1, ThrowStep DEF StartTimerThrows
<1> QED
  BY <1>7, <1>8

-----------------------------------------------------------------------------
(* Steps of the main thread that stop a publisher.                         *)

StageLabels == StopLabels \ {"stop"}

LEMMA StageFacts ==
  ASSUME IInv, main \in StageLabels
  PROVE  /\ P \in Publishers /\ pub[P] \in PublisherStates /\ PublisherOK(P)
         /\ CameraStopOK /\ ImuStopOK
         /\ \/ Life(P) = "starting" /\ StartWalk
            \/ Life(P) \in {"started", "failed"} /\ StopWalk
<1>1. \/ Life(P) = "starting" /\ StartWalk
      \/ Life(P) \in {"started", "failed"} /\ StopWalk
  BY DEF IInv, WalkOK, StageLabels
<1>2. P \in Publishers
  BY <1>1, StartWalks, StopWalks
<1> QED
  BY <1>1, <1>2, FieldTypes DEF IInv, StopOK, StageLabels

\* A step from one stage of a publisher's stop to another.
LEMMA StageKeeps ==
  ASSUME IInv, main \in StageLabels, main' \in StageLabels, todo' = todo,
         UNCHANGED <<thrown, exit_code, signalled, node>>,
         NEW r \in PublisherStates, pub' = [pub EXCEPT ![P] = r], r.life = Life(P),
         PublisherOK(P)', CameraStopOK', ImuStopOK',
         process_failed' \in BOOLEAN, ros' \in BOOLEAN, process_failed => process_failed',
         ~ros' => ~ros \/ process_failed', main' = "shut" => process_failed'
  PROVE  IInv'
<1>1. P \in Publishers /\ P' = P
  BY StageFacts DEF P
<1>2. /\ pub'[P] = r /\ pub' \in [Publishers -> PublisherStates]
      /\ \A q \in Publishers : q # P => Life(q)' = Life(q) /\ PublisherOK(q)'
  BY <1>1, OtherStays
<1>3. (\A q \in Publishers : Life(q)' = Life(q)) /\ Life(P)' = Life(P)
  BY <1>1, <1>2 DEF Life
<1>4. \A q \in Publishers : PublisherOK(q)'
  BY <1>1, <1>2
<1>5. "imu" \in Publishers /\ "camera" \in Publishers
  BY DEF Publishers
<1>6. (StartWalk' <=> StartWalk) /\ (StopWalk' <=> StopWalk)
  BY <1>3, <1>5 DEF StartWalk, StopWalk, Waiting
<1>7. TypeOK' /\ StopOK'
  BY <1>2 DEF IInv, TypeOK, StageLabels, StopOK, MainLabels
<1>8. EndOK'
  BY DEF IInv, EndOK, StageLabels, StopLabels
<1>9. WalkOK'
  BY <1>3, <1>6, StageFacts DEF WalkOK, StageLabels, StopLabels
<1> QED
  BY <1>4, <1>7, <1>8, <1>9 DEF IInv

LEMMA StageStep ==
  ASSUME IInv, WaitForLibrary \/ DriverStopFails \/ Close \/ Join \/ DestroyDriver \/ OwnerRecords
  PROVE  IInv'
<1>1. /\ main \in StageLabels /\ todo' = todo /\ P' = P
      /\ UNCHANGED <<thrown, exit_code, signalled, process_failed, ros, node>>
  BY DEF WaitForLibrary, DriverStopFails, Close, Join, DestroyDriver, OwnerRecords, MainStep,
     Process, P, StageLabels, StopLabels
<1>2. /\ P \in Publishers /\ pub[P] \in PublisherStates /\ PublisherOK(P)
      /\ CameraStopOK /\ ImuStopOK
  BY <1>1, StageFacts
<1>3. process_failed \in BOOLEAN /\ ros \in BOOLEAN /\ (main' = "shut" => process_failed)
  BY DEF WaitForLibrary, DriverStopFails, Close, Join, DestroyDriver, OwnerRecords, MainStep,
     IInv, TypeOK, AfterRecord
<1>4. Life(P) \notin {"absent", "built", "gone"}
  BY <1>1, StageFacts
<1>5. CASE WaitForLibrary
  <2> DEFINE r == [pub[P] EXCEPT !.library = "off"]
  <2>1. /\ main = "wait" /\ main' = (IF P = "camera" THEN "finish" ELSE "close")
        /\ pub' = [pub EXCEPT ![P] = r]
    BY <1>5 DEF WaitForLibrary, MainStep
  <2>2. /\ r \in PublisherStates /\ r.life = Life(P) /\ r.library = "off"
        /\ r.worker = pub[P].worker /\ r.stop = pub[P].stop
        /\ r.open = pub[P].open /\ r.backlog = pub[P].backlog /\ r.failed = pub[P].failed
    BY <1>2 DEF PublisherStates, Life
  <2> HIDE DEF r
  <2>3. pub'[P'] = r
    BY <1>1, <1>2, <2>1, <2>2, OtherStays
  <2>4. PublisherOK(P)'
    BY <1>1, <1>2, <1>4, <2>2, <2>3 DEF PublisherOK, Life, Silent, Emptied
  <2>5. CameraStopOK' /\ ImuStopOK'
    BY <1>1, <1>2, <2>1, <2>2, <2>3 DEF CameraStopOK, ImuStopOK, Life, Silent, Emptied
  <2> QED
    BY <1>1, <1>3, <2>1, <2>2, <2>4, <2>5, StageKeeps DEF StageLabels, StopLabels
<1>6. CASE DriverStopFails
  <2> DEFINE r == [pub[P] EXCEPT !.stop_failed = TRUE]
  <2>1. main = "wait" /\ main' = "close" /\ pub' = [pub EXCEPT ![P] = r]
    BY <1>6 DEF DriverStopFails, MainStep
  <2>2. /\ r \in PublisherStates /\ r.life = Life(P) /\ r.library = pub[P].library
        /\ r.worker = pub[P].worker /\ r.stop = pub[P].stop
        /\ r.open = pub[P].open /\ r.backlog = pub[P].backlog /\ r.failed = pub[P].failed
    BY <1>2 DEF PublisherStates, Life
  <2> HIDE DEF r
  <2>3. pub'[P'] = r
    BY <1>1, <1>2, <2>1, <2>2, OtherStays
  <2>4. PublisherOK(P)'
    BY <1>1, <1>2, <1>4, <2>2, <2>3 DEF PublisherOK, Life, Silent, Emptied
  <2>5. CameraStopOK' /\ ImuStopOK'
    BY <2>1 DEF CameraStopOK, ImuStopOK
  <2> QED
    BY <1>1, <1>3, <2>1, <2>2, <2>4, <2>5, StageKeeps DEF StageLabels, StopLabels
<1>7. CASE Close
  <2> DEFINE r == [pub[P] EXCEPT !.open = FALSE, !.stop = TRUE,
                                 !.backlog = IF P = "camera" THEN 0 ELSE pub[P].backlog]
  <2>1. main = "close" /\ main' = "join" /\ pub' = [pub EXCEPT ![P] = r]
    BY <1>7 DEF Close, MainStep
  <2>2. /\ r \in PublisherStates /\ r.life = Life(P) /\ r.library = pub[P].library
        /\ r.worker = pub[P].worker /\ r.stop /\ ~r.open /\ r.failed = pub[P].failed
        /\ r.backlog = IF P = "camera" THEN 0 ELSE pub[P].backlog
    <3>1. (IF P = "camera" THEN 0 ELSE pub[P].backlog) \in 0..Backlog
      BY <1>2, BacklogAssumption DEF PublisherStates
    <3>2. CASE P = "camera"
      BY <1>2, <3>1, <3>2 DEF PublisherStates, Life
    <3>3. CASE P # "camera"
      BY <1>2, <3>1, <3>3 DEF PublisherStates, Life
    <3> QED
      BY <3>2, <3>3
  <2> HIDE DEF r
  <2>3. pub'[P'] = r
    BY <1>1, <1>2, <2>1, <2>2, OtherStays
  <2>4. PublisherOK(P)'
    BY <1>1, <1>2, <1>4, <2>2, <2>3 DEF PublisherOK, Life, Silent, Emptied
  <2>5. CameraStopOK' /\ ImuStopOK'
    BY <1>1, <2>1, <2>2, <2>3 DEF CameraStopOK, ImuStopOK, Emptied
  <2> QED
    BY <1>1, <1>3, <2>1, <2>2, <2>4, <2>5, StageKeeps DEF StageLabels, StopLabels
<1>8. CASE Join
  <2> DEFINE r == [pub[P] EXCEPT !.worker = "none"]
  <2>1. /\ main = "join" /\ main' = (IF P = "camera" THEN "wait" ELSE "destroy")
        /\ pub[P].worker \in {"none", "exited"} /\ pub' = [pub EXCEPT ![P] = r]
    BY <1>8 DEF Join, MainStep
  <2>2. /\ r \in PublisherStates /\ r.life = Life(P) /\ r.library = pub[P].library
        /\ r.worker = "none" /\ r.stop = pub[P].stop
        /\ r.open = pub[P].open /\ r.backlog = pub[P].backlog /\ r.failed = pub[P].failed
    BY <1>2 DEF PublisherStates, Life
  <2> HIDE DEF r
  <2>3. pub'[P'] = r
    BY <1>1, <1>2, <2>1, <2>2, OtherStays
  <2>4. PublisherOK(P)'
    BY <1>1, <1>2, <1>4, <2>1, <2>2, <2>3 DEF PublisherOK, Life, Silent, Emptied
  <2>5. CameraStopOK' /\ ImuStopOK'
    BY <1>1, <1>2, <2>1, <2>2, <2>3 DEF CameraStopOK, ImuStopOK, Emptied
  <2> QED
    BY <1>1, <1>3, <2>1, <2>2, <2>4, <2>5, StageKeeps DEF StageLabels, StopLabels
<1>9. CASE DestroyDriver
  <2> DEFINE r == [pub[P] EXCEPT !.library = "off"]
  <2>1. main = "destroy" /\ main' \in {"record", "finish"} /\ pub' = [pub EXCEPT ![P] = r]
    BY <1>9 DEF DestroyDriver, MainStep
  <2>2. /\ r \in PublisherStates /\ r.life = Life(P) /\ r.library = "off"
        /\ r.worker = pub[P].worker /\ r.stop = pub[P].stop
        /\ r.open = pub[P].open /\ r.backlog = pub[P].backlog /\ r.failed = pub[P].failed
    BY <1>2 DEF PublisherStates, Life
  <2> HIDE DEF r
  <2>3. pub'[P'] = r
    BY <1>1, <1>2, <2>1, <2>2, OtherStays
  <2>4. PublisherOK(P)'
    BY <1>1, <1>2, <1>4, <2>2, <2>3 DEF PublisherOK, Life, Silent, Emptied
  <2>5. P = "imu" /\ pub[P].worker = "none"
    BY <1>2, <2>1 DEF CameraStopOK, ImuStopOK, Publishers
  <2>6. CameraStopOK' /\ ImuStopOK'
    BY <1>1, <2>1, <2>2, <2>3, <2>5 DEF CameraStopOK, ImuStopOK, Silent
  <2> QED
    BY <1>1, <1>3, <2>1, <2>2, <2>4, <2>6, StageKeeps DEF StageLabels, StopLabels
<1>10. CASE OwnerRecords
  <2> DEFINE r == [pub[P] EXCEPT !.failed = TRUE, !.notified = TRUE]
  <2>1. /\ main = "record" /\ main' \in {IF P = "camera" THEN "close" ELSE "finish", "notify"}
        /\ pub' = [pub EXCEPT ![P] = r]
    BY <1>10 DEF OwnerRecords, MainStep, AfterRecord
  <2>2. /\ r \in PublisherStates /\ r.life = Life(P) /\ r.library = pub[P].library
        /\ r.worker = pub[P].worker /\ r.stop = pub[P].stop
        /\ r.open = pub[P].open /\ r.backlog = pub[P].backlog /\ r.failed
    BY <1>2 DEF PublisherStates, Life
  <2> HIDE DEF r
  <2>3. pub'[P'] = r
    BY <1>1, <1>2, <2>1, <2>2, OtherStays
  <2>4. PublisherOK(P)'
    BY <1>1, <1>2, <1>4, <2>2, <2>3 DEF PublisherOK, Life, Silent, Emptied
  <2>5. CameraStopOK' /\ ImuStopOK'
    BY <1>1, <1>2, <2>1, <2>2, <2>3 DEF CameraStopOK, ImuStopOK, Life, Silent, Emptied
  <2> QED
    BY <1>1, <1>3, <2>1, <2>2, <2>4, <2>5, StageKeeps DEF StageLabels, StopLabels
<1> QED
  BY <1>5, <1>6, <1>7, <1>8, <1>9, <1>10

\* The notifier on the main thread.
LEMMA OwnerStep ==
  ASSUME IInv, OwnerNotifies \/ OwnerShutsRos
  PROVE  IInv'
<1>1. /\ main \in {"notify", "shut"} /\ main \in StageLabels /\ todo' = todo /\ P' = P
      /\ pub' = pub /\ UNCHANGED <<thrown, exit_code, signalled, node>>
      /\ main = "notify" => main' = "shut" /\ process_failed' = TRUE /\ ros' = ros
      /\ main = "shut" => /\ main' = (IF P = "camera" THEN "close" ELSE "finish")
                          /\ process_failed' = process_failed /\ ros' = FALSE
  BY DEF OwnerNotifies, OwnerShutsRos, MainStep, Notify, ShutRos, P, StageLabels, StopLabels,
     AfterRecord
<1>2. /\ P \in Publishers /\ pub[P] \in PublisherStates /\ PublisherOK(P)
      /\ CameraStopOK /\ ImuStopOK
  BY <1>1, StageFacts
<1>3. /\ process_failed \in BOOLEAN /\ ros \in BOOLEAN /\ (main = "shut" => process_failed)
      /\ pub = [pub EXCEPT ![P] = pub[P]]
  BY <1>2 DEF IInv, TypeOK, EndOK
<1>4. PublisherOK(P)'
  BY <1>1, <1>2, <1>3, PubStays
<1>5. CameraStopOK' /\ ImuStopOK'
  BY <1>1, <1>2 DEF CameraStopOK, ImuStopOK, Life, Silent, Emptied
<1>6. main' \in StageLabels
  BY <1>1 DEF StageLabels, StopLabels
<1> QED
  BY <1>1, <1>2, <1>3, <1>4, <1>5, <1>6, StageKeeps DEF Life

LEMMA JoinFailsStep ==
  ASSUME IInv, JoinFails
  PROVE  IInv'
<1> DEFINE r == [pub[P] EXCEPT !.failed = TRUE, !.notified = TRUE]
<1>1. /\ main = "join" /\ main' = (IF Life(P) = "starting" THEN "finish" ELSE "exited")
      /\ P = "camera" /\ ros' = (ros /\ pub[P].notified)
      /\ process_failed' = (process_failed \/ ~pub[P].notified \/ Life(P) # "starting")
      /\ exit_code' = (IF Life(P) = "starting" THEN exit_code ELSE 1)
      /\ pub' = [pub EXCEPT ![P] = r] /\ UNCHANGED <<todo, thrown, signalled, node>> /\ P' = P
  BY DEF JoinFails, MainStep, Is, Life, P
<1>2. main \in StageLabels
  BY <1>1 DEF StageLabels, StopLabels
<1>3. /\ P \in Publishers /\ pub[P] \in PublisherStates /\ PublisherOK(P)
      /\ Life(P) \in {"starting", "started", "failed"}
  BY <1>2, StageFacts
<1>4. /\ r \in PublisherStates /\ r.life = Life(P) /\ r.library = pub[P].library
      /\ r.worker = pub[P].worker /\ r.stop = pub[P].stop
      /\ r.open = pub[P].open /\ r.backlog = pub[P].backlog /\ r.failed
  BY <1>3 DEF PublisherStates, Life
<1> HIDE DEF r
<1>5. /\ pub'[P] = r /\ pub' \in [Publishers -> PublisherStates]
      /\ \A q \in Publishers : q # P => Life(q)' = Life(q) /\ PublisherOK(q)'
  BY <1>1, <1>3, <1>4, OtherStays
<1>6. PublisherOK(P)'
  BY <1>1, <1>3, <1>4, <1>5 DEF PublisherOK, Life, Silent, Emptied
<1>7. ros' \in BOOLEAN
  BY <1>1, <1>3 DEF IInv, TypeOK, PublisherStates
<1>8. CASE Life(P) = "starting"
  <2>1. main' = "finish" /\ exit_code' = exit_code
    BY <1>1, <1>8
  <2>2. CameraStopOK' /\ ImuStopOK'
    BY <1>1, <1>4, <1>5, <1>8, <2>1 DEF CameraStopOK, ImuStopOK, Life
  <2>3. main' \in StageLabels
    BY <2>1 DEF StageLabels, StopLabels
  <2> QED
    BY <1>1, <1>2, <1>4, <1>6, <1>7, <2>1, <2>2, <2>3, StageKeeps
<1>9. CASE Life(P) # "starting"
  <2>1. main' = "exited" /\ exit_code' = 1 /\ process_failed'
    BY <1>1, <1>9
  <2>2. TypeOK'
    BY <1>1, <1>5, <1>7, <2>1 DEF IInv, TypeOK, MainLabels
  <2>3. EndOK'
    BY <1>1, <2>1 DEF IInv, EndOK
  <2>4. WalkOK' /\ StopOK'
    BY <2>1 DEF WalkOK, StopOK, StopLabels
  <2>5. \A q \in Publishers : PublisherOK(q)'
    BY <1>1, <1>5, <1>6
  <2> QED
    BY <2>2, <2>3, <2>4, <2>5 DEF IInv
<1> QED
  BY <1>8, <1>9

\* The end of a Start that failed: the publisher is kept for the stop that follows.
LEMMA StartThrowsStep ==
  ASSUME IInv, StartThrows
  PROVE  IInv'
<1> DEFINE r == [pub[P] EXCEPT !.life = "failed"]
<1>1. /\ main = "finish" /\ Life(P) = "starting" /\ pub' = [pub EXCEPT ![P] = r]
      /\ Throw(Built) /\ process_failed' = process_failed /\ main \in StageLabels
  BY DEF StartThrows, Is, Life, Throw, StageLabels, StopLabels
<1>2. /\ P \in Publishers /\ pub[P] \in PublisherStates /\ PublisherOK(P)
      /\ ImuStopOK /\ StartWalk
  BY <1>1, StageFacts
<1>3. /\ r \in PublisherStates /\ r.life = "failed" /\ r.library = pub[P].library
      /\ r.worker = pub[P].worker /\ r.stop = pub[P].stop
      /\ r.open = pub[P].open /\ r.backlog = pub[P].backlog /\ r.failed = pub[P].failed
  BY <1>2 DEF PublisherStates, Lives
<1> HIDE DEF r
<1>4. /\ pub'[P] = r /\ pub' \in [Publishers -> PublisherStates]
      /\ \A q \in Publishers : q # P => (Waiting(q)' <=> Waiting(q)) /\ PublisherOK(q)'
  BY <1>1, <1>2, <1>3, OtherStays
<1>5. \A q \in Publishers : PublisherOK(q)'
  <2>1. ASSUME NEW q \in Publishers, q = P PROVE PublisherOK(q)'
    <3>1. q = "imu" => Silent(P)
      BY <1>1, <1>2, <2>1 DEF ImuStopOK
    <3> QED
      BY <1>1, <1>2, <1>3, <1>4, <2>1, <3>1 DEF PublisherOK, Life, Silent, Emptied
  <2> QED
    BY <1>4, <2>1
<1>6. \A q \in Publishers : Waiting(q)'
  <2>1. \A q \in Publishers : q # P => Waiting(q)
    BY <1>2, StartWalks DEF Waiting, Publishers
  <2>2. \A q \in Publishers : q = P => Waiting(q)'
    BY <1>3, <1>4 DEF Waiting, Life
  <2> QED
    BY <1>4, <2>1, <2>2
<1> QED
  BY <1>1, <1>4, <1>5, <1>6, ThrowStep

\* The current publisher is gone, and the main thread goes on to the next or leaves.
LEMMA VisitKeeps ==
  ASSUME IInv, StopWalk, NEW r \in PublisherStates, pub' = [pub EXCEPT ![P] = r],
         r.life = "gone", \A q \in Publishers : q = P => PublisherOK(q)', main \in StopLabels,
         main' = Next1("stop", "left"), todo' = Tail(todo),
         UNCHANGED <<thrown, exit_code, signalled, ros, node>>,
         process_failed' \in BOOLEAN, process_failed => process_failed'
  PROVE  IInv'
<1>1. P \in Publishers /\ "imu" \in Publishers /\ "camera" \in Publishers
  BY StopWalks DEF Publishers
<1>2. /\ pub'[P] = r /\ pub' \in [Publishers -> PublisherStates]
      /\ \A q \in Publishers : q # P => /\ Life(q)' = Life(q)
                                        /\ (Waiting(q)' <=> Waiting(q)) /\ PublisherOK(q)'
  BY <1>1, OtherStays
<1>3. \A q \in Publishers : /\ PublisherOK(q)'
                            /\ q = P => Life(q)' = "gone"
  <2>1. ASSUME NEW q \in Publishers, q = P PROVE Life(q)' = "gone"
    BY <1>2, <2>1 DEF Life
  <2> QED
    BY <1>2, <2>1
<1>4. node /\ main \notin {"shutdown", "exit", "exited"}
  BY DEF IInv, EndOK, TypeOK, StopLabels
<1>5. CASE Len(todo) > 1
  <2>1. main' = "stop" /\ P' = Head(Tail(todo))
    BY <1>5 DEF Next1, P
  <2>2. /\ Tail(todo) = (IF P = "imu" THEN << "camera" >> ELSE << "imu" >>)
        /\ P = "imu" => Waiting("camera")' /\ Life("imu")' = "gone"
        /\ P = "camera" => Waiting("imu")' /\ Life("camera")' = "gone"
    BY <1>1, <1>2, <1>3, <1>5, StopWalks DEF Publishers
  <2>3. StopWalk' /\ Waiting(P)'
    BY <1>1, <2>1, <2>2, WalkSequences DEF StopWalk, Publishers
  <2>4. TypeOK'
    BY <1>2, <2>1, <2>2 DEF IInv, TypeOK, MainLabels, StopLabels
  <2>5. WalkOK' /\ StopOK'
    BY <2>1, <2>3 DEF WalkOK, StopOK, CameraStopOK, ImuStopOK
  <2>6. EndOK'
    BY <1>4, <2>1 DEF IInv, EndOK
  <2> QED
    BY <1>3, <2>4, <2>5, <2>6 DEF IInv
<1>6. CASE ~(Len(todo) > 1)
  <2>1. main' = "left" /\ Tail(todo) = << >>
    BY <1>6, <1>1, StopWalks DEF Next1, Publishers
  <2>2. AllGone'
    BY <1>1, <1>2, <1>3, <1>6, StopWalks DEF AllGone, Publishers
  <2>3. TypeOK'
    BY <1>2, <2>1 DEF IInv, TypeOK, MainLabels, StopLabels
  <2>4. WalkOK' /\ StopOK'
    BY <2>1, <2>2 DEF WalkOK, StopOK, StopLabels
  <2>5. EndOK'
    BY <1>4, <2>1 DEF IInv, EndOK
  <2> QED
    BY <1>3, <2>3, <2>4, <2>5 DEF IInv
<1> QED
  BY <1>5, <1>6

LEMMA VisitStep ==
  ASSUME IInv, StopReturnsEarly \/ FinishStop
  PROVE  IInv'
<1> DEFINE r == [pub[P] EXCEPT !.life = "gone"]
<1>1. /\ pub' = [pub EXCEPT ![P] = r] /\ todo' = Tail(todo) /\ main' = Next1("stop", "left")
      /\ main \in {"stop", "finish"} /\ main \in StopLabels
      /\ UNCHANGED <<thrown, exit_code, signalled, ros, node>>
  BY DEF StopReturnsEarly, FinishStop, MainStep, Visited, Process, StopLabels
<1>2. StopWalk /\ P \in Publishers /\ pub[P] \in PublisherStates /\ PublisherOK(P)
  <2>1. StopWalk
    BY <1>1 DEF StopReturnsEarly, FinishStop, MainStep, Life, IInv, WalkOK, StopLabels
  <2> QED
    BY <2>1, StopWalks, FieldTypes DEF IInv
<1>3. /\ r \in PublisherStates /\ r.life = "gone" /\ r.library = pub[P].library
      /\ r.worker = pub[P].worker /\ r.stop = pub[P].stop
      /\ r.open = pub[P].open /\ r.backlog = pub[P].backlog /\ r.failed = pub[P].failed
  BY <1>2 DEF PublisherStates, Lives
<1>4. /\ process_failed' \in BOOLEAN /\ (process_failed => process_failed')
      /\ Silent(P) /\ (pub[P].failed => process_failed') /\ (pub[P].failed \/ pub[P].backlog = 0)
  <2>1. CASE StopReturnsEarly
    BY <1>2, <2>1 DEF StopReturnsEarly, Process, Is, Life, PublisherOK, Absent, Silent, IInv, TypeOK
  <2>2. CASE FinishStop
    <3>1. /\ main = "finish" /\ Life(P) \in {"started", "failed"}
          /\ process_failed' = (process_failed \/ pub[P].failed \/ pub[P].stop_failed)
      BY <2>2 DEF FinishStop, MainStep, Life
    <3>2. CameraStopOK /\ ImuStopOK
      BY <1>1 DEF IInv, StopOK
    <3>3. Silent(P) /\ (pub[P].failed \/ pub[P].backlog = 0)
      BY <1>2, <3>1, <3>2 DEF CameraStopOK, ImuStopOK, PublisherOK, Emptied, Silent, Publishers
    <3>4. process_failed' \in BOOLEAN
      BY <1>2, <3>1 DEF IInv, TypeOK, PublisherStates
    <3> QED
      BY <1>2, <3>1, <3>3, <3>4
  <2> QED
    BY <2>1, <2>2
<1> HIDE DEF r
<1>5. ASSUME NEW q \in Publishers, q = P PROVE PublisherOK(q)'
  <2>1. pub'[q] = r
    BY <1>1, <1>2, <1>3, <1>4, <1>5, OtherStays
  <2> QED
    BY <1>2, <1>3, <1>4, <1>5, <2>1 DEF PublisherOK, Life, Silent, Emptied
<1> QED
  BY <1>1, <1>2, <1>3, <1>4, <1>5, VisitKeeps

-----------------------------------------------------------------------------
(* The invariant.                                                          *)

LEMMA Initially == Init => IInv
<1> SUFFICES ASSUME Init PROVE IInv
  OBVIOUS
<1>1. Absent \in PublisherStates /\ \A p \in Publishers : pub[p] = Absent /\ Life(p) = "absent"
  BY BacklogAssumption DEF Init, Absent, PublisherStates, Lives, Life
<1>2. TypeOK
  BY <1>1 DEF Init, TypeOK, MainLabels
<1>3. \A p \in Publishers : PublisherOK(p)
  BY <1>1 DEF PublisherOK, Absent, Life, Silent, Emptied
<1> QED
  BY <1>1, <1>2, <1>3 DEF Init, IInv, WalkOK, EndOK, StopOK, StopLabels

LEMMA MainKeeps ==
  ASSUME IInv, Main \/ SpinThrows
  PROVE  IInv'
BY EarlyThrows, LoopStep, EndStep, SkipStep, StartStep, StartedStep, StartThrowsStep, StageStep,
   OwnerStep, JoinFailsStep, VisitStep DEF Main, SensorNode, StopPublishers

\* Each step of Next keeps the invariant.
LEMMA NextKeeps == IInv /\ [Next]_vars => IInv'
<1> SUFFICES ASSUME IInv, [Next]_vars PROVE IInv'
  OBVIOUS
<1>1. CASE UNCHANGED vars
  BY <1>1, StillStep DEF vars, IInv, TypeOK
<1>2. CASE Next /\ ~UNCHANGED vars
  <2>1. main # "exited"
    BY <1>2 DEF Next, Exited
  <2>2. CASE Main \/ SpinThrows
    BY <2>2, MainKeeps
  <2>3. CASE RequestStop
    BY <2>3, StillStep DEF RequestStop
  <2>4. CASE ImuCallbackFails \/ CameraCallbackFails \/ \E p \in Publishers : Deliver(p) \/ Worker(p) \/ Library(p)
    BY <2>1, <2>4, ThreadsKeep
  <2> QED
    BY <1>2, <2>2, <2>3, <2>4 DEF Next, Exited, Environment
<1> QED
  BY <1>1, <1>2

THEOREM Invariance == Spec => []IInv
BY Initially, NextKeeps, PTL DEF Spec

-----------------------------------------------------------------------------
(* The properties.                                                         *)

\* A publisher whose threads are not silent has been started and is not destroyed, and
\* the node and its mapper are there.
LEMMA RunningThreads ==
  ASSUME IInv, NEW p \in Publishers, ~Silent(p)
  PROVE  Life(p) \in {"starting", "failed", "started"} /\ node /\ ~AllGone
<1>1. PublisherOK(p) /\ pub[p] \in PublisherStates
  BY FieldTypes DEF IInv
<1>2. Life(p) \notin {"absent", "built"}
  BY <1>1 DEF PublisherOK, Absent, Silent
<1>3. Life(p) # "gone"
  BY <1>1 DEF PublisherOK
<1>4. Life(p) \in {"starting", "failed", "started"}
  BY <1>1, <1>2, <1>3 DEF PublisherStates, Lives, Life
<1> QED
  BY <1>3, <1>4 DEF IInv, EndOK, AllGone

\* No thread of either library and no worker runs in a publisher that is not there, or
\* without the node and the mapper it calls (robobaton_sensors_node.cpp, ~SensorNode and
\* the destruction of its members): for every step that may throw.
THEOREM ThreadsEndFirst == Spec => []NoThreadOutlivesItsPublisher
<1>1. IInv => NoThreadOutlivesItsPublisher
  BY RunningThreads DEF NoThreadOutlivesItsPublisher, Silent, Life
<1> QED
  BY <1>1, Invariance, PTL

\* The context that main shuts down when all is stopped is the one that the workers
\* publish into, so a worker that finds it invalid runs in a process that has failed.
THEOREM RosIsValid == Spec => []RosValidWhileDraining
<1>1. IInv => RosValidWhileDraining
  <2> SUFFICES ASSUME IInv, NEW p \in Publishers, Is(p, "worker", "sink"), ~ros
               PROVE  process_failed
    BY DEF RosValidWhileDraining
  <2>1. ~AllGone
    BY RunningThreads DEF Is, Silent
  <2> QED
    BY <2>1 DEF IInv, EndOK, WalkOK
<1> QED
  BY <1>1, Invariance, PTL

\* Exit status 0: both publishers were stopped, neither failed, and no admitted item
\* was left unpublished.
THEOREM StatusIsTrue == Spec => []SuccessIsComplete
<1>1. IInv => SuccessIsComplete
  <2> SUFFICES ASSUME IInv, main = "exited", exit_code = 0, NEW p \in Publishers
               PROVE  ~pub[p].failed /\ Is(p, "backlog", 0) /\ Is(p, "life", "gone")
    BY DEF SuccessIsComplete
  <2>1. Life(p) = "gone" /\ ~process_failed /\ PublisherOK(p)
    BY DEF IInv, EndOK, AllGone
  <2> QED
    BY <2>1 DEF PublisherOK, Is, Life
<1> QED
  BY <1>1, Invariance, PTL
=============================================================================
