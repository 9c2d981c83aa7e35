--------------------------- MODULE HarnessProofs ----------------------------
(***************************************************************************)
(* Proofs about Harness, for any number of actors, feeds, streams and      *)
(* subscriptions, any channel capacity and any bound on the events.        *)
(*                                                                         *)
(* A frame lemma per process says which variables its steps leave alone;   *)
(* each part of the inductive invariant is then preserved for a reason     *)
(* that involves only the few actions that touch its variables.            *)
(***************************************************************************)
EXTENDS Harness, TLAPS

\* What every step of run leaves alone: the subscriptions' own variables, the
\* bus and the signal.
LEMMA MainFrame == MainStep => UNCHANGED <<sub, cursor, handled, sent, signal>>
  BY DEF MainStep, BindStatus, InitBegin, InitOk, InitErr, InitDone, SpawnFeed, FeedsSpawned,
         PollFailures, PollStop, PollFeeds, Wake, CancelSubs, SubsCancelled, WindDownBegin,
         WindDownEnd, Return, subVars, busVars

\* A subscription's step leaves alone what belongs to run and to the feeds.
LEMMA SubFrame ==
  ASSUME NEW s \in Subs, SubStep(s)
  PROVE  UNCHANGED <<main, idx, reason, signal, feed, sent, subCancel, inited, woundDown>>
  BY DEF SubStep, PollCancel, RecvLagged, RecvEvent, HandlerBegin, HandlerReturns, HandlerFatal,
         ReportFailure, StopAfterFailure, mainVars, busVars, lifeVars

\* A feed's step touches the feed's state and its stream only.
LEMMA FeedFrame ==
  ASSUME NEW f \in Feeds, FeedStep(f)
  PROVE  UNCHANGED <<mainVars, shutdown, signal, failures, subVars, subCancel, lock, lifeVars>>
  BY DEF FeedStep, Publish, FeedExit

\* RequestShutdown and SignalArrives raise one flag each.
LEMMA FlagFrame ==
  ASSUME SignalArrives \/ \E a \in Actors : RequestShutdown(a)
  PROVE  /\ UNCHANGED <<mainVars, failures, busVars, subVars, subCancel, lock, lifeVars>>
         /\ signal' \in {signal, TRUE} /\ shutdown' \in {shutdown, TRUE}
  BY DEF SignalArrives, RequestShutdown

-----------------------------------------------------------------------------
(* Types, and where run's loop index may point.                            *)

\* While init or wind_down runs, idx is a real actor; otherwise it may be one
\* past the last.
IdxInv == main \in {"initializing", "windingDown"} => idx \in Actors

TypeInv == TypeOK /\ IdxInv

\* The two halves of the type invariant: what run decides with, and the rest.
MainTyped ==
  /\ main \in MainStates /\ idx \in 1..(N + 1) /\ shutdown \in BOOLEAN
  /\ reason \in Reasons \cup {"none", "BindError"}
  /\ IdxInv

RestTyped ==
  /\ signal \in BOOLEAN /\ failures \in Seq(Actors)
  /\ feed \in [Feeds -> FeedStates] /\ sent \in [Streams -> Nat]
  /\ sub \in [Subs -> SubStates] /\ cursor \in [Subs -> Nat]
  /\ subCancel \in [Actors -> BOOLEAN] /\ lock \in [Actors -> Subs \cup {Free, Run}]
  /\ inited \in [Actors -> {"new", "ready", "failed"}]
  /\ woundDown \in [Actors -> Nat] /\ handled \in [Subs -> Seq(Nat)]

LEMMA TypeSplit == TypeInv <=> MainTyped /\ RestTyped
  BY DEF TypeInv, TypeOK, MainTyped, RestTyped

LEMMA DecideTyped ==
  ASSUME NEW r \in Reasons, Decide(r)
  PROVE  MainTyped'
  BY HarnessAssumption DEF Decide, MainTyped, MainStates, IdxInv, Actors

LEMMA LoopTyped ==
  ASSUME MainTyped, NEW fs, Loop(fs)
  PROVE  MainTyped'
<1>1. CASE Decide("InputsClosed")
  BY <1>1, DecideTyped DEF Reasons
<1>2. CASE main' = "pollFailures" /\ UNCHANGED <<idx, reason, shutdown>>
  BY <1>2 DEF MainTyped, MainStates, IdxInv
<1>3. QED
  BY <1>1, <1>2 DEF Loop

LEMMA MainTypeStep ==
  ASSUME TypeInv, MainStep
  PROVE  TypeInv'
<1> USE HarnessAssumption, TypeSplit, MainFrame
<1> SUFFICES MainTyped' /\ RestTyped'
  <2>1. (MainTyped /\ RestTyped)' => TypeInv'
    BY DEF TypeInv, TypeOK, MainTyped, RestTyped
  <2>2. QED  BY <2>1
<1>0. MainTyped /\ RestTyped
  OBVIOUS
<1>1. CASE BindStatus
  BY <1>0, <1>1 DEF BindStatus, MainTyped, RestTyped, MainStates, IdxInv, busVars, subVars, lifeVars
<1>2. CASE InitBegin
  BY <1>0, <1>2 DEF InitBegin, MainTyped, RestTyped, MainStates, IdxInv, Actors, busVars, subVars,
     lifeVars
<1>3. CASE InitOk
  BY <1>0, <1>3 DEF InitOk, MainTyped, RestTyped, MainStates, IdxInv, Actors, busVars, subVars
<1>4. CASE InitErr
  <2>1. MainTyped'
    BY <1>4, DecideTyped DEF InitErr, OnInitErr, Reasons
  <2>2. RestTyped'
    BY <1>0, <1>4 DEF InitErr, RestTyped, busVars, subVars
  <2>3. QED  BY <2>1, <2>2
<1>5. CASE InitDone
  BY <1>0, <1>5 DEF InitDone, MainTyped, RestTyped, MainStates, IdxInv, busVars, subVars, lifeVars
<1>6. ASSUME NEW f \in Feeds, SpawnFeed(f)
      PROVE  MainTyped' /\ RestTyped'
  BY <1>0, <1>6 DEF SpawnFeed, MainTyped, RestTyped, IdxInv, FeedStates, mainVars, subVars, lifeVars
<1>7. CASE FeedsSpawned
  <2>1. MainTyped'
    BY <1>0, <1>7, LoopTyped DEF FeedsSpawned
  <2>2. RestTyped'
    BY <1>0, <1>7 DEF FeedsSpawned, RestTyped, busVars, subVars, lifeVars
  <2>3. QED  BY <2>1, <2>2
<1>8. CASE PollFailures
  <2>1. MainTyped'
    <3>1. CASE Decide("ActorFailed")  BY <3>1, DecideTyped DEF Reasons
    <3>2. CASE main' = "pollStop" /\ UNCHANGED <<idx, reason, shutdown>>
      BY <1>0, <3>2 DEF MainTyped, MainStates, IdxInv
    <3>3. QED  BY <1>8, <3>1, <3>2 DEF PollFailures
  <2>2. failures' \in Seq(Actors)
    <3>1. failures # <<>> => Tail(failures) \in Seq(Actors)
      BY <1>0 DEF RestTyped
    <3>2. failures' \in {failures, Tail(failures)} /\ (failures = <<>> => failures' = failures)
      BY <1>8 DEF PollFailures
    <3>3. QED  BY <1>0, <3>1, <3>2 DEF RestTyped
  <2>3. RestTyped'
    BY <1>0, <1>8, <2>2 DEF PollFailures, RestTyped, busVars, subVars, lifeVars
  <2>4. QED  BY <2>1, <2>3
<1>9. CASE PollStop
  <2>1. MainTyped'
    <3>1. CASE Decide("Signal")  BY <3>1, DecideTyped DEF Reasons
    <3>2. CASE main' = "pollFeeds" /\ UNCHANGED <<idx, reason, shutdown>>
      BY <1>0, <3>2 DEF MainTyped, MainStates, IdxInv
    <3>3. QED  BY <1>9, <3>1, <3>2 DEF PollStop
  <2>2. RestTyped'
    BY <1>0, <1>9 DEF PollStop, RestTyped, busVars, subVars, lifeVars
  <2>3. QED  BY <2>1, <2>2
<1>10. CASE PollFeeds
  <2>1. MainTyped'
    <3>1. CASE Decide("FeedFailed")  BY <3>1, DecideTyped DEF Reasons
    <3>2. CASE Loop(feed')  BY <1>0, <3>2, LoopTyped
    <3>3. CASE main' = "parked" /\ UNCHANGED <<idx, reason, shutdown>>
      BY <1>0, <3>3 DEF MainTyped, MainStates, IdxInv
    <3>4. QED  BY <1>10, <3>1, <3>2, <3>3 DEF PollFeeds
  <2>2. feed' \in [Feeds -> FeedStates]
    BY <1>0, <1>10 DEF PollFeeds, RestTyped, FeedStates
  <2>3. RestTyped'
    BY <1>0, <1>10, <2>2 DEF PollFeeds, RestTyped, subVars, lifeVars
  <2>4. QED  BY <2>1, <2>3
<1>11. CASE Wake
  BY <1>0, <1>11 DEF Wake, MainTyped, RestTyped, MainStates, IdxInv, busVars, subVars, lifeVars
<1>12. CASE CancelSubs
  BY <1>0, <1>12 DEF CancelSubs, ActorLeft, MainTyped, RestTyped, MainStates, IdxInv, Actors,
     busVars, subVars, lifeVars
<1>13. CASE SubsCancelled
  BY <1>0, <1>13 DEF SubsCancelled, MainTyped, RestTyped, MainStates, IdxInv, busVars, subVars,
     lifeVars
<1>14. CASE WindDownBegin
  BY <1>0, <1>14 DEF WindDownBegin, MainTyped, RestTyped, MainStates, IdxInv, Actors, busVars,
     subVars, lifeVars
<1>15. CASE WindDownEnd
  <2>1. idx \in Actors  BY <1>0, <1>15 DEF WindDownEnd, MainTyped, IdxInv
  <2>2. woundDown' \in [Actors -> Nat]
    BY <1>0, <1>15, <2>1 DEF WindDownEnd, RestTyped
  <2>3. MainTyped'
    BY <1>0, <1>15, <2>1 DEF WindDownEnd, MainTyped, MainStates, IdxInv, Actors
  <2>4. RestTyped'
    BY <1>0, <1>15, <2>2 DEF WindDownEnd, RestTyped, busVars, subVars
  <2>5. QED  BY <2>3, <2>4
<1>16. CASE Return
  BY <1>0, <1>16 DEF Return, MainTyped, RestTyped, MainStates, IdxInv, busVars, subVars, lifeVars
<1>17. QED
  BY <1>1, <1>2, <1>3, <1>4, <1>5, <1>6, <1>7, <1>8, <1>9, <1>10, <1>11, <1>12, <1>13, <1>14,
     <1>15, <1>16 DEF MainStep

LEMMA SubTypeStep ==
  ASSUME TypeInv, NEW s \in Subs, SubStep(s)
  PROVE  TypeInv'
<1> USE HarnessAssumption, SubFrame DEF TypeInv, TypeOK, IdxInv, SubStates, Actors, mainVars, busVars,
        subVars, lifeVars
<1>1. CASE PollCancel(s)       BY <1>1 DEF PollCancel
<1>2. CASE RecvLagged(s)
  <2>1. sent[SubStream[s]] - Capacity \in Nat
    BY <1>2 DEF RecvLagged, Lagging, HarnessAssumption
  <2>2. QED  BY <1>2, <2>1 DEF RecvLagged, AfterLag
<1>3. CASE RecvEvent(s)        BY <1>3, SMTT(20) DEF RecvEvent
<1>4. CASE HandlerBegin(s)     BY <1>4, SMTT(20) DEF HandlerBegin
<1>5. CASE HandlerReturns(s)   BY <1>5, SMTT(20) DEF HandlerReturns, Resume
<1>6. CASE HandlerFatal(s)     BY <1>6 DEF HandlerFatal
<1>7. CASE ReportFailure(s)    BY <1>7, SMTT(60) DEF ReportFailure
<1>8. CASE StopAfterFailure(s) BY <1>8, SMTT(60) DEF StopAfterFailure, DropGuard
<1>9. QED
  BY <1>1, <1>2, <1>3, <1>4, <1>5, <1>6, <1>7, <1>8 DEF SubStep

LEMMA TypeStep == TypeInv /\ [Next]_vars => TypeInv'
<1> SUFFICES ASSUME TypeInv, [Next]_vars PROVE TypeInv'
  OBVIOUS
<1>1. CASE MainStep  BY <1>1, MainTypeStep
<1>2. ASSUME NEW s \in Subs, SubStep(s) PROVE TypeInv'
  BY <1>2, SubTypeStep
<1>3. ASSUME NEW f \in Feeds, FeedStep(f) PROVE TypeInv'
  <2>1. sent' \in [Streams -> Nat] /\ feed' \in [Feeds -> FeedStates]
    <3> USE HarnessAssumption DEF TypeInv, TypeOK, FeedStates
    <3>1. CASE Publish(f)  BY <3>1 DEF Publish
    <3>2. CASE FeedExit(f, "ok")  BY <3>2 DEF FeedExit
    <3>3. CASE FeedExit(f, "err")  BY <3>3 DEF FeedExit
    <3>4. QED  BY <1>3, <3>1, <3>2, <3>3 DEF FeedStep
  <2>2. QED
    BY <1>3, <2>1, FeedFrame DEF TypeInv, TypeOK, IdxInv, mainVars, subVars, lifeVars
<1>4. CASE SignalArrives \/ \E a \in Actors : RequestShutdown(a)
  BY <1>4, FlagFrame DEF TypeInv, TypeOK, IdxInv, mainVars, busVars, subVars, lifeVars
<1>5. CASE Terminated \/ UNCHANGED vars
  BY <1>5 DEF Terminated, vars, TypeInv, TypeOK, IdxInv, mainVars, busVars, subVars, lifeVars
<1>6. QED
  BY <1>1, <1>2, <1>3, <1>4, <1>5 DEF Next

LEMMA TypeInit == Init => TypeInv
<1> SUFFICES ASSUME Init PROVE TypeInv
  OBVIOUS
<1>1. MainTyped
  <2>1. 1 \in 1..(N + 1)
    BY HarnessAssumption
  <2>2. main = "bind" /\ idx = 1 /\ reason = "none" /\ shutdown = FALSE
    BY DEF Init
  <2>3. QED  BY <2>1, <2>2 DEF MainTyped, MainStates, IdxInv
<1>2. failures \in Seq(Actors) /\ handled \in [Subs -> Seq(Nat)]
  BY DEF Init
<1>3. RestTyped
  BY <1>2 DEF Init, RestTyped, FeedStates, SubStates
<1>4. QED  BY <1>1, <1>3, TypeSplit

LEMMA TypeInvHolds == Spec => []TypeInv
  BY TypeInit, TypeStep, PTL DEF Spec

\* Every variable keeps its type, and run never indexes past its actors.
THEOREM TypeCorrect == Spec => []TypeOK
<1>1. TypeInv => TypeOK
  BY DEF TypeInv
<1>2. QED
  BY <1>1, TypeInvHolds, PTL

-----------------------------------------------------------------------------
(* The mutex.                                                              *)

\* Whoever runs code of an actor holds that actor's mutex.
LockInv ==
  /\ \A s \in Subs : sub[s] = "handling" => lock[SubActor[s]] = s
  /\ main \in {"initializing", "windingDown"} => lock[idx] = Run

LEMMA LockMainStep ==
  ASSUME TypeInv, LockInv, MainStep
  PROVE  LockInv'
<1> USE MainFrame, HarnessAssumption DEF LockInv, TypeInv, TypeOK, IdxInv, Actors
<1>1. CASE InitBegin       BY <1>1 DEF InitBegin
<1>2. CASE InitOk          BY <1>2 DEF InitOk
<1>3. CASE InitErr         BY <1>3 DEF InitErr, OnInitErr, Decide
<1>4. CASE WindDownBegin   BY <1>4 DEF WindDownBegin
<1>5. CASE WindDownEnd     BY <1>5 DEF WindDownEnd
<1>6. CASE lock' = lock /\ main' \notin {"initializing", "windingDown"}
  BY <1>6
<1>7. MainStep => \/ InitBegin \/ InitOk \/ InitErr \/ WindDownBegin \/ WindDownEnd
                  \/ lock' = lock /\ main' \notin {"initializing", "windingDown"}
  BY DEF MainStep, BindStatus, InitDone, SpawnFeed, FeedsSpawned, PollFailures, PollStop, PollFeeds,
         Wake, CancelSubs, SubsCancelled, Return, Decide, Loop, StartTime, mainVars
<1>8. QED
  BY <1>1, <1>2, <1>3, <1>4, <1>5, <1>6, <1>7

LEMMA LockSubStep ==
  ASSUME TypeInv, LockInv, NEW s \in Subs, SubStep(s)
  PROVE  LockInv'
<1> USE SubFrame, HarnessAssumption DEF LockInv, TypeInv, TypeOK, IdxInv, Actors
<1>1. CASE HandlerBegin(s)   BY <1>1 DEF HandlerBegin, ActorFree
<1>2. CASE HandlerReturns(s) BY <1>2 DEF HandlerReturns, Resume
<1>3. CASE StopAfterFailure(s)
  BY <1>3 DEF StopAfterFailure, DropGuard
<1>4. CASE lock' = lock /\ \E pc \in SubStates \ {"handling"} : sub' = [sub EXCEPT ![s] = pc]
  BY <1>4
<1>5. SubStep(s) => \/ HandlerBegin(s) \/ HandlerReturns(s) \/ StopAfterFailure(s)
                    \/ /\ lock' = lock
                       /\ \E pc \in SubStates \ {"handling"} : sub' = [sub EXCEPT ![s] = pc]
  BY DEF SubStep, PollCancel, RecvLagged, RecvEvent, HandlerFatal, ReportFailure, AfterLag, SubStates
<1>6. QED
  BY <1>1, <1>2, <1>3, <1>4, <1>5

LEMMA LockStep == TypeInv /\ LockInv /\ [Next]_vars => LockInv'
<1> SUFFICES ASSUME TypeInv, LockInv, [Next]_vars PROVE LockInv'
  OBVIOUS
<1>1. CASE MainStep  BY <1>1, LockMainStep
<1>2. ASSUME NEW s \in Subs, SubStep(s) PROVE LockInv'
  BY <1>2, LockSubStep
<1>3. CASE UNCHANGED <<main, idx, sub, lock>>
  BY <1>3 DEF LockInv
<1>4. QED
  BY <1>1, <1>2, <1>3, FeedFrame, FlagFrame
     DEF Next, Terminated, vars, mainVars, subVars

\* init, wind_down and the handlers of one actor never overlap.
THEOREM MutualExclusion == Spec => []Exclusive
<1>1. Init => LockInv
  BY DEF Init, LockInv
<1>2. LockInv /\ TypeInv => Exclusive
  BY HarnessAssumption DEF LockInv, TypeInv, TypeOK, IdxInv, Exclusive, SubsOf
<1>3. QED
  BY <1>1, <1>2, LockStep, TypeInvHolds, PTL DEF Spec

-----------------------------------------------------------------------------
(* wind_down.                                                              *)

\* A task that has ended stays ended.
LEMMA DoneStable ==
  ASSUME TypeInv, [Next]_vars, NEW s \in Subs, sub[s] = "done"
  PROVE  sub'[s] = "done"
<1>1. ASSUME NEW z \in Subs, SubStep(z) PROVE sub'[s] = "done"
  BY <1>1 DEF SubStep, PollCancel, RecvLagged, RecvEvent, HandlerBegin, HandlerReturns,
     HandlerFatal, ReportFailure, StopAfterFailure, TypeInv, TypeOK
<1>2. CASE UNCHANGED sub  BY <1>2
<1>3. QED
  BY <1>1, <1>2, MainFrame, FeedFrame, FlagFrame DEF Next, Terminated, vars, subVars

\* wind_down of an actor starts only when all its subscription tasks have
\* ended, and none ever runs again.
THEOREM WindDownIsExclusive == Spec => []WindDownExclusive
<1>1. Init => WindDownExclusive
  BY DEF Init, WindDownExclusive
<1>2. TypeInv /\ WindDownExclusive /\ [Next]_vars => WindDownExclusive'
  <2> SUFFICES ASSUME TypeInv, WindDownExclusive, [Next]_vars,
                      NEW a \in Actors,
                      (woundDown[a] > 0 \/ (main = "windingDown" /\ idx = a))'
               PROVE  Drained(a)'
    BY DEF WindDownExclusive
  <2>1. SUFFICES Drained(a)
    BY <2>1, DoneStable DEF Drained, SubsOf
  <2>2. CASE WindDownBegin
    BY <2>2 DEF WindDownBegin, WindDownExclusive, lifeVars
  <2>3. CASE WindDownEnd
    BY <2>3 DEF WindDownEnd, WindDownExclusive, TypeInv, TypeOK
  <2>4. CASE woundDown' = woundDown /\ (main' # "windingDown" \/ UNCHANGED <<main, idx>>)
    BY <2>4 DEF WindDownExclusive
  <2>5. MainStep => \/ WindDownBegin \/ WindDownEnd
                    \/ woundDown' = woundDown /\ (main' # "windingDown" \/ UNCHANGED <<main, idx>>)
    BY DEF MainStep, BindStatus, InitBegin, InitOk, InitErr, OnInitErr, InitDone, SpawnFeed,
           FeedsSpawned, PollFailures, PollStop, PollFeeds, Wake, CancelSubs, SubsCancelled, Return,
           Decide, Loop, StartTime, mainVars, lifeVars
  <2>6. QED
    BY <2>2, <2>3, <2>4, <2>5, SubFrame, FeedFrame, FlagFrame
       DEF Next, Terminated, vars, mainVars, lifeVars
<1>3. QED
  BY <1>1, <1>2, TypeInvHolds, PTL DEF Spec

-----------------------------------------------------------------------------
(* Critical streams.                                                       *)

\* What a critical subscription has handled is the initial part of its stream
\* that its receiver is past, but for the event it carries to the mutex.  It
\* does not say so of a task that is failing, which may have lagged.
StreamInv ==
  \A s \in Critical :
    /\ \A i \in DOMAIN handled[s] : handled[s][i] = i
    /\ sub[s] \in {"select", "recv", "handling"} => Len(handled[s]) = cursor[s]
    /\ sub[s] = "locking" => cursor[s] = Len(handled[s]) + 1

LEMMA StreamSubStep ==
  ASSUME TypeInv, StreamInv, NEW s \in Subs, SubStep(s)
  PROVE  StreamInv'
<1> SUFFICES ASSUME NEW c \in Critical
             PROVE  /\ \A i \in DOMAIN handled'[c] : handled'[c][i] = i
                    /\ sub'[c] \in {"select", "recv", "handling"} => Len(handled'[c]) = cursor'[c]
                    /\ sub'[c] = "locking" => cursor'[c] = Len(handled'[c]) + 1
  BY DEF StreamInv
<1> USE HarnessAssumption DEF TypeInv, TypeOK
<1>0. c \in Subs /\ handled[c] \in Seq(Nat) /\ cursor[c] \in Nat
  OBVIOUS
<1>1. CASE c # s
  <2>1. UNCHANGED <<sub[c], cursor[c], handled[c]>>
    BY <1>0, <1>1 DEF SubStep, PollCancel, RecvLagged, RecvEvent, HandlerBegin, HandlerReturns,
       HandlerFatal, ReportFailure, StopAfterFailure
  <2>2. QED  BY <2>1 DEF StreamInv
<1>2. CASE c = s
  <2> USE <1>0, <1>2 DEF StreamInv
  <2>1. CASE PollCancel(s)   BY <2>1 DEF PollCancel
  <2>2. CASE RecvLagged(s)   BY <2>2 DEF RecvLagged, AfterLag
  <2>3. CASE RecvEvent(s)    BY <2>3 DEF RecvEvent
  <2>4. CASE HandlerBegin(s)
    <3>1. handled'[s] = Append(handled[s], cursor[s]) /\ sub'[s] = "handling" /\ cursor' = cursor
      BY <2>4 DEF HandlerBegin
    <3>2. cursor[s] = Len(handled[s]) + 1
      BY <2>4 DEF HandlerBegin
    <3>3. DOMAIN handled'[s] = 1..(Len(handled[s]) + 1) /\ Len(handled'[s]) = cursor[s]
      BY <3>1, <3>2
    <3>4. ASSUME NEW i \in DOMAIN handled'[s] PROVE handled'[s][i] = i
      <4>1. CASE i \in DOMAIN handled[s]  BY <4>1, <3>1
      <4>2. CASE i = Len(handled[s]) + 1  BY <4>2, <3>1, <3>2
      <4>3. QED  BY <3>3, <3>4, <4>1, <4>2
    <3>5. QED  BY <3>1, <3>3, <3>4
  <2>5. CASE HandlerReturns(s)   BY <2>5 DEF HandlerReturns, Resume
  <2>6. CASE HandlerFatal(s)     BY <2>6 DEF HandlerFatal
  <2>7. CASE ReportFailure(s)    BY <2>7 DEF ReportFailure
  <2>8. CASE StopAfterFailure(s) BY <2>8 DEF StopAfterFailure
  <2>9. QED
    BY <2>1, <2>2, <2>3, <2>4, <2>5, <2>6, <2>7, <2>8 DEF SubStep
<1>3. QED  BY <1>1, <1>2

LEMMA StreamStep == TypeInv /\ StreamInv /\ [Next]_vars => StreamInv'
<1> SUFFICES ASSUME TypeInv, StreamInv, [Next]_vars PROVE StreamInv'
  OBVIOUS
<1>1. ASSUME NEW s \in Subs, SubStep(s) PROVE StreamInv'
  BY <1>1, StreamSubStep
<1>2. CASE UNCHANGED <<sub, cursor, handled>>
  BY <1>2 DEF StreamInv
<1>3. QED
  BY <1>1, <1>2, MainFrame, FeedFrame, FlagFrame DEF Next, Terminated, vars, subVars

LEMMA StreamInit == Init => StreamInv
  BY HarnessAssumption DEF Init, StreamInv

\* A critical subscription handles its stream from the first event on without
\* a gap.
THEOREM CriticalStreams == Spec => []CriticalContiguous
<1>1. StreamInv => CriticalContiguous
  BY DEF StreamInv, CriticalContiguous
<1>2. QED
  BY <1>1, StreamInit, StreamStep, TypeInvHolds, PTL DEF Spec

-----------------------------------------------------------------------------
(* A failure stays on record.                                              *)

Reported == failures # <<>> \/ reason = "ActorFailed"

\* Until run decides there is no reason to overwrite; a critical subscription
\* cancels the token only after its report, and ends short of its receiver's
\* position only that way.
LossInv ==
  /\ main \in {"bind", "init", "initializing", "spawnFeeds", "pollFailures", "pollStop",
               "pollFeeds", "parked"} => reason = "none"
  /\ \A s \in Critical : sub[s] = "stopping" => Reported
  /\ LossIsReported

\* run forgets neither a report nor the token.
LEMMA ReportedStable ==
  ASSUME TypeInv, LossInv, [Next]_vars
  PROVE  (Reported => Reported') /\ (shutdown => shutdown')
<1> USE DEF Reported, TypeInv, TypeOK
<1>1. CASE MainStep
  <2>1. shutdown => shutdown'
    BY <1>1 DEF MainStep, BindStatus, InitBegin, InitOk, InitErr, OnInitErr, InitDone, SpawnFeed,
       FeedsSpawned, PollFailures, PollStop, PollFeeds, Wake, CancelSubs, SubsCancelled,
       WindDownBegin, WindDownEnd, Return, Decide, Loop
  <2>2. CASE PollFailures
    <3>1. CASE Decide("ActorFailed")  BY <3>1 DEF Decide
    <3>2. CASE UNCHANGED <<reason, failures>>  BY <3>2, <2>1
    <3>3. QED  BY <2>2, <3>1, <3>2 DEF PollFailures
  <2>3. failures' = failures /\ (reason' = reason \/ reason = "none") => (Reported => Reported')
    OBVIOUS
  <2>4. MainStep => PollFailures \/ failures' = failures
    BY DEF MainStep, BindStatus, InitBegin, InitOk, InitErr, OnInitErr, InitDone, SpawnFeed,
       FeedsSpawned, PollStop, PollFeeds, Wake, CancelSubs, SubsCancelled, WindDownBegin,
       WindDownEnd, Return
  <2>5. CASE reason = "none" /\ ~PollFailures
    BY <1>1, <2>1, <2>3, <2>4, <2>5
  <2>6. CASE reason # "none"
    <3>1. reason' = reason
      BY <1>1, <2>6 DEF LossInv, MainStep, BindStatus, InitBegin, InitOk, InitErr, InitDone,
         SpawnFeed, FeedsSpawned, PollFailures, PollStop, PollFeeds, Wake, CancelSubs,
         SubsCancelled, WindDownBegin, WindDownEnd, Return, StartTime, mainVars
    <3>2. ~PollFailures
      BY <2>6 DEF LossInv, PollFailures
    <3>3. QED  BY <1>1, <2>1, <2>3, <2>4, <3>1, <3>2
  <2>7. QED  BY <2>2, <2>5, <2>6
<1>2. ASSUME NEW s \in Subs, SubStep(s)
      PROVE  (Reported => Reported') /\ (shutdown => shutdown')
  <2>1. shutdown' \in {shutdown, TRUE}
    BY <1>2 DEF SubStep, PollCancel, RecvLagged, RecvEvent, HandlerBegin, HandlerReturns,
       HandlerFatal, ReportFailure, StopAfterFailure
  <2>2. failures' = failures \/ failures' = Append(failures, SubActor[s])
    BY <1>2 DEF SubStep, PollCancel, RecvLagged, RecvEvent, HandlerBegin, HandlerReturns,
       HandlerFatal, ReportFailure, StopAfterFailure
  <2>3. failures' # <<>> \/ failures' = failures
    BY <2>2, HarnessAssumption
  <2>4. QED  BY <1>2, <2>1, <2>3, SubFrame
<1>3. CASE UNCHANGED <<failures, reason>> /\ shutdown' \in {shutdown, TRUE}
  BY <1>3
<1>4. QED
  BY <1>1, <1>2, <1>3, FeedFrame, FlagFrame DEF Next, Terminated, vars, mainVars

LEMMA LossStep == TypeInv /\ StreamInv /\ LossInv /\ [Next]_vars => LossInv'
<1> SUFFICES ASSUME TypeInv, StreamInv, LossInv, [Next]_vars PROVE LossInv'
  OBVIOUS
<1>1. (main \in {"bind", "init", "initializing", "spawnFeeds", "pollFailures", "pollStop",
                 "pollFeeds", "parked"} => reason = "none")'
  <2>1. CASE MainStep
    BY <2>1 DEF LossInv, MainStep, BindStatus, InitBegin, InitOk, InitErr, OnInitErr, InitDone,
       SpawnFeed, FeedsSpawned, PollFailures, PollStop, PollFeeds, Wake, CancelSubs, SubsCancelled,
       WindDownBegin, WindDownEnd, Return, Decide, Loop, StartTime, mainVars
  <2>2. CASE UNCHANGED <<main, reason>>
    BY <2>2 DEF LossInv
  <2>3. QED
    BY <2>1, <2>2, SubFrame, FeedFrame, FlagFrame DEF Next, Terminated, vars, mainVars
<1>2. ASSUME NEW c \in Critical
      PROVE  /\ sub'[c] = "stopping" => Reported'
             /\ sub'[c] = "done" /\ Len(handled'[c]) < cursor'[c] => shutdown' /\ Reported'
  <2> USE HarnessAssumption DEF TypeInv, TypeOK
  <2>0. c \in Subs /\ handled[c] \in Seq(Nat) /\ cursor[c] \in Nat
    OBVIOUS
  <2>1. CASE UNCHANGED <<sub[c], cursor[c], handled[c]>>
    BY <2>1, ReportedStable DEF LossInv, LossIsReported, Reported
  <2>2. ASSUME NEW s \in Subs, s # c, SubStep(s)
        PROVE  UNCHANGED <<sub[c], cursor[c], handled[c]>>
    BY <2>0, <2>2, SMTT(30) DEF SubStep, PollCancel, RecvLagged, RecvEvent, HandlerBegin, HandlerReturns,
       HandlerFatal, ReportFailure, StopAfterFailure
  <2>3. CASE SubStep(c)
    <3>1. CASE PollCancel(c)
      BY <2>0, <3>1 DEF PollCancel, StreamInv
    <3>2. CASE ReportFailure(c)
      <4>1. failures' = Append(failures, SubActor[c]) /\ sub'[c] = "stopping"
        BY <2>0, <3>2 DEF ReportFailure
      <4>2. failures' # <<>>
        BY <2>0, <4>1
      <4>3. QED  BY <4>1, <4>2 DEF Reported
    <3>3. CASE StopAfterFailure(c)
      BY <2>0, <3>3, ReportedStable DEF StopAfterFailure, LossInv
    <3>4. CASE sub'[c] \notin {"stopping", "done"}
      BY <3>4
    <3>5. QED
      BY <2>0, <2>3, <3>1, <3>2, <3>3, <3>4 DEF SubStep, RecvLagged, RecvEvent, HandlerBegin,
         HandlerReturns, HandlerFatal, AfterLag, Resume
  <2>4. QED
    BY <2>1, <2>2, <2>3, MainFrame, FeedFrame, FlagFrame DEF Next, Terminated, vars, subVars
<1>3. QED
  BY <1>1, <1>2 DEF LossInv, LossIsReported, Reported

\* No critical subscription ends short of its stream without stopping the run
\* and leaving its failure on record.
THEOREM NoSilentLoss == Spec => []LossIsReported
<1>1. Init => LossInv
  BY HarnessAssumption DEF Init, LossInv, LossIsReported
<1>2. LossInv => LossIsReported
  BY DEF LossInv
<1>3. QED
  BY <1>1, <1>2, LossStep, StreamInit, StreamStep, TypeInvHolds, PTL DEF Spec

-----------------------------------------------------------------------------
(* Start-up: no event before every init has succeeded.                     *)

AllReady == \A a \in Actors : inited[a] = "ready"
Starting == main \in {"bind", "init", "initializing"}
Looping == main \in {"spawnFeeds", "pollFailures", "pollStop", "pollFeeds", "parked"}

\* While run is initialising, the actors before idx are ready, the others are
\* untouched and no feed exists.  The loop is reached, a feed runs and an event
\* is on the bus only when all actors are ready.
StartInv ==
  /\ Starting => /\ \A f \in Feeds : feed[f] = "unspawned"
                 /\ \A e \in Streams : sent[e] = 0
                 /\ \A a \in Actors : inited[a] = IF a < idx THEN "ready" ELSE "new"
  /\ Looping => AllReady
  /\ \A f \in Feeds : feed[f] # "unspawned" => AllReady
  /\ \A e \in Streams : sent[e] > 0 => AllReady

\* The steps of run between which its start-up can be told apart.
LEMMA StartMainStep ==
  ASSUME TypeInv, StartInv, MainStep
  PROVE  StartInv'
<1> USE HarnessAssumption, MainFrame DEF StartInv, TypeInv, TypeOK, IdxInv, Actors
<1>1. CASE BindStatus
  BY <1>1 DEF BindStatus, AllReady, Starting, Looping, busVars, lifeVars
<1>2. CASE InitBegin
  BY <1>2 DEF InitBegin, AllReady, Starting, Looping, busVars, lifeVars
<1>3. CASE InitOk
  BY <1>3 DEF InitOk, AllReady, Starting, Looping, busVars
<1>4. CASE InitErr
  <2>1. main' = "cancelSubs" /\ feed' = feed /\ Starting
    BY <1>4 DEF InitErr, OnInitErr, Decide, Starting, busVars
  <2>2. QED  BY <2>1 DEF Starting, Looping
<1>5. CASE InitDone
  <2>1. AllReady
    BY <1>5 DEF InitDone, AllReady, Starting
  <2>2. QED  BY <1>5, <2>1 DEF InitDone, AllReady, Starting, Looping, busVars, lifeVars
<1>6. CASE ~Starting /\ ~Starting' /\ inited' = inited
           /\ ((Looping' \/ feed' # feed) => Looping)
  <2>1. AllReady => AllReady'
    BY <1>6 DEF AllReady
  <2>2. Looping => AllReady
    OBVIOUS
  <2>3. ASSUME NEW f \in Feeds, feed'[f] # "unspawned" PROVE AllReady
    BY <1>6, <2>2, <2>3
  <2>4. ASSUME NEW e \in Streams, sent'[e] > 0 PROVE AllReady
    BY <2>4
  <2>5. QED  BY <1>6, <2>1, <2>2, <2>3, <2>4
<1>7. \/ BindStatus \/ InitBegin \/ InitOk \/ InitErr \/ InitDone
      \/ /\ ~Starting /\ ~Starting' /\ inited' = inited
         /\ (Looping' \/ feed' # feed) => Looping
  BY DEF MainStep, SpawnFeed, FeedsSpawned, PollFailures, PollStop, PollFeeds, Wake, CancelSubs,
     SubsCancelled, WindDownBegin, WindDownEnd, Return, Decide, Loop, StartTime, Starting, Looping,
     mainVars, busVars, lifeVars
<1>8. QED  BY <1>1, <1>2, <1>3, <1>4, <1>5, <1>6, <1>7

LEMMA StartStep == TypeInv /\ StartInv /\ [Next]_vars => StartInv'
<1> SUFFICES ASSUME TypeInv, StartInv, [Next]_vars PROVE StartInv'
  OBVIOUS
<1>1. CASE MainStep  BY <1>1, StartMainStep
<1>2. CASE UNCHANGED <<main, idx, feed, sent, inited>>
  BY <1>2 DEF StartInv, AllReady, Starting, Looping
<1>3. ASSUME NEW f \in Feeds, FeedStep(f) PROVE StartInv'
  <2>1. feed[f] = "running" /\ \A g \in Feeds : feed'[g] # "unspawned" => feed[g] # "unspawned"
    BY <1>3 DEF FeedStep, Publish, FeedExit, TypeInv, TypeOK
  <2>2. AllReady /\ ~Starting
    BY <2>1 DEF StartInv
  <2>3. UNCHANGED <<main, idx, inited>>
    BY <1>3, FeedFrame DEF mainVars, lifeVars
  <2>4. QED  BY <2>1, <2>2, <2>3 DEF StartInv, AllReady, Starting, Looping
<1>4. QED
  BY <1>1, <1>2, <1>3, SubFrame, FlagFrame
     DEF Next, Terminated, vars, mainVars, busVars, lifeVars

LEMMA StartInvHolds == Spec => []StartInv
<1>1. Init => StartInv
  BY HarnessAssumption DEF Init, StartInv, Starting, Looping, AllReady, Actors
<1>2. QED
  BY <1>1, StartStep, TypeInvHolds, PTL DEF Spec

\* A receiver is never ahead of its channel, nor the channel of what may be
\* published.
CursorInv ==
  /\ \A e \in Streams : sent[e] <= MaxEvents[e]
  /\ \A s \in Subs : /\ cursor[s] <= sent[SubStream[s]]
                     /\ sub[s] = "recv" => cursor[s] < sent[SubStream[s]]

LEMMA CursorStep == TypeInv /\ CursorInv /\ [Next]_vars => CursorInv'
<1> SUFFICES ASSUME TypeInv, CursorInv, [Next]_vars PROVE CursorInv'
  OBVIOUS
<1> USE HarnessAssumption DEF CursorInv, TypeInv, TypeOK
<1>1. ASSUME NEW s \in Subs, SubStep(s) PROVE CursorInv'
  <2>1. sent' = sent
    BY <1>1, SubFrame
  <2>2. ASSUME NEW z \in Subs, z # s PROVE UNCHANGED <<cursor[z], sub[z]>>
    BY <1>1, <2>2 DEF SubStep, PollCancel, RecvLagged, RecvEvent, HandlerBegin, HandlerReturns,
       HandlerFatal, ReportFailure, StopAfterFailure
  <2>3. /\ cursor'[s] <= sent[SubStream[s]]
        /\ sub'[s] = "recv" => cursor'[s] < sent[SubStream[s]]
    BY <1>1 DEF SubStep, PollCancel, RecvLagged, RecvEvent, HandlerBegin, HandlerReturns,
       HandlerFatal, ReportFailure, StopAfterFailure, Lagging, AfterLag, Resume
  <2>4. QED  BY <2>1, <2>2, <2>3
<1>2. ASSUME NEW f \in Feeds, FeedStep(f) PROVE CursorInv'
  <2>1. \A e \in Streams : sent'[e] <= MaxEvents[e] /\ sent[e] <= sent'[e] /\ sent'[e] \in Nat
    <3>1. CASE Publish(f)   BY <3>1 DEF Publish
    <3>2. CASE sent' = sent BY <3>2
    <3>3. QED  BY <1>2, <3>1, <3>2 DEF FeedStep, FeedExit
  <2>2. UNCHANGED <<cursor, sub>>
    BY <1>2, FeedFrame DEF subVars
  <2>3. QED  BY <2>1, <2>2
<1>3. CASE UNCHANGED <<cursor, sub, sent>>
  BY <1>3
<1>4. QED
  BY <1>1, <1>2, <1>3, MainFrame, FlagFrame DEF Next, Terminated, vars, busVars, subVars

LEMMA CursorInvHolds == Spec => []CursorInv
<1>1. Init => CursorInv
  BY HarnessAssumption DEF Init, CursorInv
<1>2. QED
  BY <1>1, CursorStep, TypeInvHolds, PTL DEF Spec

\* No actor is handed an event before the init of every actor has succeeded.
THEOREM NoEarlyEvent == Spec => []ReadyBeforeEvents
<1>1. TypeInv /\ StartInv /\ CursorInv => ReadyBeforeEvents
  BY HarnessAssumption DEF TypeInv, TypeOK, StartInv, CursorInv, ReadyBeforeEvents, AllReady
<1>2. QED
  BY <1>1, TypeInvHolds, StartInvHolds, CursorInvHolds, PTL

-----------------------------------------------------------------------------
(* wind_down runs once per actor, in order.                                *)

\* The actors before idx have been wound down once when wind_down_all has got
\* to idx, and no other actor ever.
DownInv ==
  /\ main \notin {"await", "windingDown", "returned"} => \A a \in Actors : woundDown[a] = 0
  /\ main \in {"await", "windingDown"} =>
       \A a \in Actors : woundDown[a] = IF a < idx THEN 1 ELSE 0
  /\ main = "returned" => \/ reason = "BindError" /\ \A a \in Actors : woundDown[a] = 0
                          \/ \A a \in Actors : woundDown[a] = 1

LEMMA DownStep == TypeInv /\ DownInv /\ [Next]_vars => DownInv'
<1> SUFFICES ASSUME TypeInv, DownInv, [Next]_vars PROVE DownInv'
  OBVIOUS
<1> USE HarnessAssumption DEF DownInv, TypeInv, TypeOK, IdxInv, Actors
<1>1. CASE SubsCancelled  BY <1>1 DEF SubsCancelled, lifeVars
<1>2. CASE WindDownBegin  BY <1>2 DEF WindDownBegin, lifeVars
<1>3. CASE WindDownEnd    BY <1>3 DEF WindDownEnd
<1>4. CASE Return         BY <1>4 DEF Return, lifeVars
<1>5. CASE BindStatus     BY <1>5 DEF BindStatus, lifeVars
<1>6. CASE /\ woundDown' = woundDown
           /\ {main, main'} \cap {"await", "windingDown", "returned"} = {}
  BY <1>6
<1>7. CASE UNCHANGED <<main, idx, reason, woundDown>>
  BY <1>7
<1>8. MainStep =>
        \/ SubsCancelled \/ WindDownBegin \/ WindDownEnd \/ Return \/ BindStatus
        \/ /\ woundDown' = woundDown
           /\ {main, main'} \cap {"await", "windingDown", "returned"} = {}
  BY DEF MainStep, InitBegin, InitOk, InitErr, OnInitErr, InitDone, SpawnFeed, FeedsSpawned,
     PollFailures, PollStop, PollFeeds, Wake, CancelSubs, Decide, Loop, StartTime, mainVars, lifeVars
<1>9. QED
  BY <1>1, <1>2, <1>3, <1>4, <1>5, <1>6, <1>7, <1>8, SubFrame, FeedFrame, FlagFrame
     DEF Next, Terminated, vars, mainVars, lifeVars

LEMMA DownInvHolds == Spec => []DownInv
<1>1. Init => DownInv
  BY DEF Init, DownInv
<1>2. QED
  BY <1>1, DownStep, TypeInvHolds, PTL DEF Spec

\* On every way out of run but a failed status bind each actor is wound down,
\* once and in registration order.
THEOREM WoundDownOnce == Spec => []WindDownOnce
<1>1. TypeInv /\ DownInv => WindDownOnce
  <2> SUFFICES ASSUME TypeInv, DownInv PROVE WindDownOnce
    OBVIOUS
  <2> USE HarnessAssumption DEF TypeInv, TypeOK, DownInv, Actors
  <2>1. \A a, b \in Actors : a <= b => 1 >= woundDown[a] /\ woundDown[a] >= woundDown[b]
    <3>1. CASE main \in {"await", "windingDown"}
      <4>1. idx \in Nat /\ \A a \in Actors : woundDown[a] = IF a < idx THEN 1 ELSE 0
        BY <3>1
      <4>2. ASSUME NEW a \in Actors, NEW b \in Actors, a <= b
            PROVE  1 >= woundDown[a] /\ woundDown[a] >= woundDown[b]
        <5>1. a \in Nat /\ b \in Nat /\ (b < idx => a < idx)
          BY <4>1, <4>2
        <5>2. woundDown[a] = (IF a < idx THEN 1 ELSE 0) /\ woundDown[b] = (IF b < idx THEN 1 ELSE 0)
          BY <4>1
        <5>3. QED  BY <5>1, <5>2
      <4>3. QED  BY <4>2
    <3>2. CASE main \notin {"await", "windingDown"}
      BY <3>2
    <3>3. QED  BY <3>1, <3>2
  <2>2. main = "returned" /\ reason # "BindError" => \A a \in Actors : woundDown[a] = 1
    OBVIOUS
  <2>3. QED  BY <2>1, <2>2 DEF WindDownOnce
<1>2. QED
  BY <1>1, TypeInvHolds, DownInvHolds, PTL

-----------------------------------------------------------------------------
(* The harness implements the actor lifecycle.                             *)

LEMMA LockInvHolds == Spec => []LockInv
<1>1. Init => LockInv
  BY DEF Init, LockInv
<1>2. QED
  BY <1>1, LockStep, TypeInvHolds, PTL DEF Spec

LEMMA StreamInvHolds == Spec => []StreamInv
  BY StreamInit, StreamStep, TypeInvHolds, PTL DEF Spec

\* The last event that a subscription has handed to its actor is not after its
\* receiver's position, and before it while the next one waits for the mutex.
Last(s) == IF handled[s] = <<>> THEN 0 ELSE handled[s][Len(handled[s])]

LastInv ==
  \A s \in Subs : Last(s) <= cursor[s] /\ (sub[s] = "locking" => Last(s) < cursor[s])

LEMMA LastType ==
  ASSUME TypeInv, NEW s \in Subs
  PROVE  Last(s) \in Nat
<1>1. handled[s] \in Seq(Nat)
  BY DEF TypeInv, TypeOK
<1>2. QED  BY <1>1 DEF Last

LEMMA LastStep == TypeInv /\ LastInv /\ [Next]_vars => LastInv'
<1> SUFFICES ASSUME TypeInv, LastInv, [Next]_vars PROVE LastInv'
  OBVIOUS
<1>1. ASSUME NEW s \in Subs, SubStep(s) PROVE LastInv'
  <2> USE HarnessAssumption DEF TypeInv, TypeOK
  <2>1. ASSUME NEW z \in Subs, z # s
        PROVE  Last(z)' <= cursor'[z] /\ (sub'[z] = "locking" => Last(z)' < cursor'[z])
    <3>1. UNCHANGED <<cursor[z], sub[z], handled[z]>>
      BY <1>1, <2>1 DEF SubStep, PollCancel, RecvLagged, RecvEvent, HandlerBegin, HandlerReturns,
         HandlerFatal, ReportFailure, StopAfterFailure
    <3>2. QED  BY <3>1 DEF LastInv, Last
  <2>2. Last(s)' <= cursor'[s] /\ (sub'[s] = "locking" => Last(s)' < cursor'[s])
    <3>0. Last(s) \in Nat /\ cursor[s] \in Nat /\ handled[s] \in Seq(Nat)
      BY LastType
    <3>1. CASE HandlerBegin(s)
      <4>1. handled'[s] = Append(handled[s], cursor[s]) /\ sub'[s] = "handling" /\ cursor' = cursor
        BY <3>1 DEF HandlerBegin
      <4>2. handled'[s] # <<>> /\ handled'[s][Len(handled'[s])] = cursor[s]
        BY <3>0, <4>1, SMTT(30)
      <4>3. Last(s)' = cursor[s]
        BY <4>2 DEF Last
      <4>4. QED  BY <3>0, <4>1, <4>3
    <3>2. CASE RecvEvent(s)
      BY <3>0, <3>2 DEF RecvEvent, LastInv, Last
    <3>3. CASE RecvLagged(s)
      <4>1. cursor'[s] \in Nat /\ cursor[s] < cursor'[s] /\ sub'[s] # "locking"
        BY <3>3 DEF RecvLagged, Lagging, AfterLag
      <4>2. Last(s)' = Last(s)
        BY <3>3 DEF RecvLagged, Last
      <4>3. QED  BY <3>0, <4>1, <4>2 DEF LastInv
    <3>4. CASE UNCHANGED <<cursor, handled>> /\ sub'[s] # "locking"
      BY <3>4 DEF LastInv, Last
    <3>5. QED
      BY <1>1, <3>1, <3>2, <3>3, <3>4 DEF SubStep, PollCancel, HandlerReturns, HandlerFatal,
         ReportFailure, StopAfterFailure, Resume
  <2>3. QED  BY <2>1, <2>2 DEF LastInv
<1>2. CASE UNCHANGED <<cursor, sub, handled>>
  BY <1>2 DEF LastInv, Last
<1>3. QED
  BY <1>1, <1>2, MainFrame, FeedFrame, FlagFrame DEF Next, Terminated, vars, subVars

LEMMA LastInvHolds == Spec => []LastInv
<1>1. Init => LastInv
  BY HarnessAssumption DEF Init, LastInv, Last
<1>2. QED
  BY <1>1, LastStep, TypeInvHolds, PTL DEF Spec

\* The abstract variables, and everything the refinement rests on.
PhaseMap == [a \in Actors |-> Phase(a)]
BusyMap == [a \in Actors |-> IF lock[a] = Run THEN Free ELSE lock[a]]

RefinementInv ==
  /\ TypeInv /\ LockInv /\ StreamInv /\ StartInv /\ CursorInv /\ DownInv /\ LastInv
  /\ WindDownExclusive

LEMMA RefinementInvHolds == Spec => []RefinementInv
<1>1. TypeInv /\ LockInv /\ StreamInv /\ StartInv /\ CursorInv /\ DownInv /\ LastInv
        /\ WindDownExclusive => RefinementInv
  BY DEF RefinementInv
<1>2. QED
  BY <1>1, TypeInvHolds, LockInvHolds, StreamInvHolds, StartInvHolds, CursorInvHolds,
     DownInvHolds, LastInvHolds, WindDownIsExclusive, PTL

\* Each action of the lifecycle in terms of the two maps.
LEMMA PhaseActions ==
  ASSUME NEW a \in Actors, BusyMap' = BusyMap, handled' = handled,
         \/ /\ PhaseMap[a] = "new" /\ \A b \in Actors : b < a => PhaseMap[b] = "ready"
            /\ PhaseMap' = [PhaseMap EXCEPT ![a] = "initialising"]
         \/ /\ PhaseMap[a] = "initialising"
            /\ \E r \in {"ready", "failed"} : PhaseMap' = [PhaseMap EXCEPT ![a] = r]
         \/ /\ PhaseMap[a] \in {"new", "ready", "failed"} /\ BusyMap[a] = Free
            /\ \A b \in Actors : b < a => PhaseMap[b] = "down"
            /\ PhaseMap' = [PhaseMap EXCEPT ![a] = "windingDown"]
         \/ PhaseMap[a] = "windingDown" /\ PhaseMap' = [PhaseMap EXCEPT ![a] = "down"]
  PROVE  Lifecycle!Next
  BY DEF PhaseMap, BusyMap, Actors, Lifecycle!Next, Lifecycle!Actors, Lifecycle!BeginInit,
     Lifecycle!EndInit, Lifecycle!BeginWindDown, Lifecycle!EndWindDown

LEMMA BeginEventAction ==
  ASSUME NEW s \in Subs, SubActor[s] \in Actors,
         NEW n \in UNION {1..MaxEvents[e] : e \in Streams},
         \A b \in Actors : PhaseMap[b] \notin {"new", "initialising", "failed"},
         PhaseMap[SubActor[s]] = "ready", BusyMap[SubActor[s]] = Free,
         n > Last(s), s \in Critical => n = Last(s) + 1,
         handled' = [handled EXCEPT ![s] = Append(@, n)],
         BusyMap' = [BusyMap EXCEPT ![SubActor[s]] = s],
         PhaseMap' = PhaseMap
  PROVE  Lifecycle!Next
<1>1. Lifecycle!InOrder(s, n)
  BY DEF Lifecycle!InOrder, Last
<1>2. Lifecycle!BeginEvent(s, n)
  BY <1>1 DEF Lifecycle!BeginEvent, Lifecycle!Actors, PhaseMap, BusyMap, Actors
<1>3. QED  BY <1>2 DEF Lifecycle!Next

LEMMA EndEventAction ==
  ASSUME NEW s \in Subs, BusyMap[SubActor[s]] = s,
         BusyMap' = [BusyMap EXCEPT ![SubActor[s]] = Free], PhaseMap' = PhaseMap, handled' = handled
  PROVE  Lifecycle!Next
  BY DEF PhaseMap, BusyMap, Lifecycle!Next, Lifecycle!EndEvent

LEMMA StutterAction ==
  ASSUME UNCHANGED <<PhaseMap, BusyMap, handled>>
  PROVE  UNCHANGED Lifecycle!vars
  BY DEF PhaseMap, BusyMap, Lifecycle!vars

\* A step that changes the phase of one actor.
LEMMA PhaseUpdate ==
  ASSUME NEW a \in Actors, NEW v,
         \A b \in Actors : Phase(b)' = IF b = a THEN v ELSE Phase(b)
  PROVE  PhaseMap' = [PhaseMap EXCEPT ![a] = v]
  BY DEF PhaseMap

LEMMA MainStepMaps ==
  ASSUME RefinementInv, MainStep
  PROVE  [Lifecycle!Next]_Lifecycle!vars
<1> USE HarnessAssumption, MainFrame DEF RefinementInv, TypeInv, TypeOK, IdxInv, Actors
<1>1. CASE InitBegin
  <2>1. idx \in Actors /\ BusyMap' = BusyMap
    BY <1>1 DEF InitBegin, BusyMap
  <2>2. /\ \A a \in Actors : woundDown[a] = 0 /\ Phase(a) = inited[a]
        /\ \A a \in Actors : inited[a] = IF a < idx THEN "ready" ELSE "new"
    BY <1>1 DEF InitBegin, Phase, DownInv, StartInv, Starting
  <2>3. PhaseMap' = [PhaseMap EXCEPT ![idx] = "initialising"]
    BY <1>1, <2>1, <2>2 DEF InitBegin, PhaseMap, Phase, lifeVars
  <2>4. PhaseMap[idx] = "new" /\ \A b \in Actors : b < idx => PhaseMap[b] = "ready"
    BY <2>1, <2>2 DEF PhaseMap
  <2>5. QED  BY <2>1, <2>3, <2>4, PhaseActions
<1>2. CASE InitOk \/ InitErr
  <2>0. idx \in Actors /\ main = "initializing"
    BY <1>2 DEF InitOk, InitErr
  <2>1. BusyMap' = BusyMap
    BY <1>2, <2>0 DEF InitOk, InitErr, BusyMap, LockInv
  <2>2. \A a \in Actors : woundDown[a] = 0 /\ woundDown' = woundDown
    BY <1>2 DEF InitOk, InitErr, DownInv
  <2>3. main' \in {"init", "cancelSubs"} /\ \E r \in {"ready", "failed"} : inited' = [inited EXCEPT ![idx] = r]
    BY <1>2 DEF InitOk, InitErr, OnInitErr, Decide
  <2>4. PICK r \in {"ready", "failed"} : inited' = [inited EXCEPT ![idx] = r]
    BY <2>3
  <2>5. PhaseMap[idx] = "initialising"
    BY <2>0, <2>2 DEF PhaseMap, Phase
  <2>6. \A b \in Actors : Phase(b)' = IF b = idx THEN r ELSE Phase(b)
    BY <2>0, <2>2, <2>3, <2>4 DEF Phase
  <2>7. PhaseMap' = [PhaseMap EXCEPT ![idx] = r]
    BY <2>0, <2>6, PhaseUpdate
  <2>8. QED  BY <2>0, <2>1, <2>5, <2>7, PhaseActions
<1>3. CASE WindDownBegin
  <2>1. idx \in Actors /\ BusyMap' = BusyMap /\ BusyMap[idx] = Free
    BY <1>3 DEF WindDownBegin, BusyMap
  <2>2. \A a \in Actors : woundDown[a] = IF a < idx THEN 1 ELSE 0
    BY <1>3 DEF WindDownBegin, DownInv
  <2>3. PhaseMap' = [PhaseMap EXCEPT ![idx] = "windingDown"]
    <3>1. main = "await" /\ main' = "windingDown" /\ UNCHANGED <<idx, inited, woundDown>>
      BY <1>3 DEF WindDownBegin, lifeVars
    <3>2. idx \in Nat /\ woundDown[idx] = 0
      BY <2>1, <2>2
    <3>3. \A b \in Actors : Phase(b)' = IF b = idx THEN "windingDown" ELSE Phase(b)
      BY <3>1, <3>2 DEF Phase
    <3>4. QED  BY <2>1, <3>3, PhaseUpdate
  <2>4. PhaseMap[idx] \in {"new", "ready", "failed"} /\ \A b \in Actors : b < idx => PhaseMap[b] = "down"
    BY <1>3, <2>1, <2>2 DEF WindDownBegin, PhaseMap, Phase
  <2>5. QED  BY <2>1, <2>3, <2>4, PhaseActions
<1>4. CASE WindDownEnd
  <2>1. idx \in Actors /\ BusyMap' = BusyMap
    BY <1>4 DEF WindDownEnd, BusyMap, LockInv
  <2>2. \A a \in Actors : woundDown[a] = IF a < idx THEN 1 ELSE 0
    BY <1>4 DEF WindDownEnd, DownInv
  <2>3. idx \in Nat /\ woundDown[idx] = 0 /\ main = "windingDown"
    BY <1>4, <2>1, <2>2 DEF WindDownEnd
  <2>4. PhaseMap[idx] = "windingDown"
    BY <2>1, <2>3 DEF PhaseMap, Phase
  <2>5. main' = "await" /\ inited' = inited /\ woundDown' = [woundDown EXCEPT ![idx] = 1]
    BY <1>4, <2>3 DEF WindDownEnd
  <2>6. \A b \in Actors : Phase(b)' = IF b = idx THEN "down" ELSE Phase(b)
    BY <2>1, <2>3, <2>5 DEF Phase
  <2>7. PhaseMap' = [PhaseMap EXCEPT ![idx] = "down"]
    BY <2>1, <2>6, PhaseUpdate
  <2>8. QED  BY <2>1, <2>4, <2>7, PhaseActions
<1>5. CASE /\ UNCHANGED <<lock, inited, woundDown>>
           /\ {main, main'} \cap {"initializing", "windingDown"} = {}
  <2>1. UNCHANGED <<PhaseMap, BusyMap>>
    BY <1>5 DEF PhaseMap, BusyMap, Phase
  <2>2. QED  BY <2>1, StutterAction
<1>6. MainStep => \/ InitBegin \/ InitOk \/ InitErr \/ WindDownBegin \/ WindDownEnd
                  \/ /\ UNCHANGED <<lock, inited, woundDown>>
                     /\ {main, main'} \cap {"initializing", "windingDown"} = {}
  BY DEF MainStep, BindStatus, InitDone, SpawnFeed, FeedsSpawned, PollFailures, PollStop, PollFeeds,
     Wake, CancelSubs, SubsCancelled, Return, Decide, Loop, StartTime, mainVars, lifeVars
<1>7. QED
  BY <1>1, <1>2, <1>3, <1>4, <1>5, <1>6

\* Only a handler that begins or ends changes a mutex or hands an event over.
LEMMA HandlerFrame ==
  ASSUME NEW s \in Subs, SubStep(s)
  PROVE  \/ HandlerBegin(s) \/ HandlerReturns(s) \/ (StopAfterFailure(s) /\ lock[SubActor[s]] = s)
         \/ UNCHANGED <<lock, handled>>
<1>1. PollCancel(s) \/ RecvLagged(s) \/ RecvEvent(s) \/ HandlerFatal(s) \/ ReportFailure(s)
        => UNCHANGED <<lock, handled>>
  BY DEF PollCancel, RecvLagged, RecvEvent, HandlerFatal, ReportFailure
<1>2. StopAfterFailure(s) => lock[SubActor[s]] = s \/ UNCHANGED <<lock, handled>>
  BY DEF StopAfterFailure, DropGuard
<1>3. QED
  BY <1>1, <1>2 DEF SubStep

LEMMA SubStepMaps ==
  ASSUME RefinementInv, NEW s \in Subs, SubStep(s)
  PROVE  [Lifecycle!Next]_Lifecycle!vars
<1> USE HarnessAssumption DEF RefinementInv, TypeInv, TypeOK
<1> DEFINE a == SubActor[s]
<1>0. a \in Actors /\ PhaseMap' = PhaseMap
  BY SubFrame DEF PhaseMap, Phase
<1>1. CASE HandlerBegin(s)
  <2>1. sub[s] = "locking" /\ lock[a] = Free
    BY <1>1 DEF HandlerBegin, ActorFree
  <2>2. /\ handled' = [handled EXCEPT ![s] = Append(@, cursor[s])]
        /\ BusyMap' = [BusyMap EXCEPT ![a] = s] /\ BusyMap[a] = Free
    BY <1>0, <1>1, <2>1 DEF HandlerBegin, BusyMap
  <2>3. cursor[s] > Last(s) /\ Last(s) \in Nat /\ cursor[s] \in Nat
    BY <2>1, LastType DEF LastInv
  <2>4. sent[SubStream[s]] > 0 /\ cursor[s] \in 1..MaxEvents[SubStream[s]]
    BY <2>3 DEF CursorInv
  <2>5. AllReady /\ ~Starting
    BY <2>4 DEF StartInv
  <2>6. ~Drained(a)
    BY <2>1 DEF Drained, SubsOf
  <2>7. PhaseMap[a] = "ready" /\ \A b \in Actors : PhaseMap[b] \notin {"new", "initialising", "failed"}
    BY <1>0, <2>5, <2>6 DEF WindDownExclusive, PhaseMap, Phase, AllReady, Starting
  <2>8. s \in Critical => cursor[s] = Last(s) + 1
    <3>1. SUFFICES ASSUME s \in Critical PROVE cursor[s] = Last(s) + 1
      OBVIOUS
    <3>2. /\ handled[s] \in Seq(Nat) /\ cursor[s] = Len(handled[s]) + 1
          /\ \A i \in DOMAIN handled[s] : handled[s][i] = i
      BY <2>1, <3>1 DEF StreamInv
    <3>3. Last(s) = Len(handled[s])
      BY <3>2 DEF Last
    <3>4. QED  BY <3>2, <3>3
  <2>9. SubStream[s] \in Streams
    OBVIOUS
  <2>10. cursor[s] \in UNION {1..MaxEvents[e] : e \in Streams}
    BY <2>4, <2>9
  <2> HIDE DEF a
  <2>11. Lifecycle!Next
    BY <1>0, <2>2, <2>3, <2>7, <2>8, <2>10, BeginEventAction DEF a
  <2>12. QED  BY <2>11
<1>2. CASE HandlerReturns(s) \/ (StopAfterFailure(s) /\ lock[a] = s)
  <2>1. lock[a] = s /\ lock' = [lock EXCEPT ![a] = Free] /\ handled' = handled
    BY <1>2 DEF HandlerReturns, StopAfterFailure, DropGuard, LockInv
  <2>2. BusyMap[a] = s /\ BusyMap' = [BusyMap EXCEPT ![a] = Free]
    BY <1>0, <2>1 DEF BusyMap
  <2>3. QED  BY <1>0, <2>1, <2>2, EndEventAction
<1>3. CASE UNCHANGED <<lock, handled>>
  <2>1. BusyMap' = BusyMap
    BY <1>3 DEF BusyMap
  <2>2. QED  BY <1>0, <1>3, <2>1, StutterAction
<1>4. \/ HandlerBegin(s) \/ HandlerReturns(s) \/ (StopAfterFailure(s) /\ lock[a] = s)
      \/ UNCHANGED <<lock, handled>>
  BY HandlerFrame
<1>5. QED
  BY <1>1, <1>2, <1>3, <1>4

\* The harness, for every wiring, does to each actor what ActorLifecycle
\* promises its author: exclusive handler calls, all inits before the first
\* event, streams in order, wind_down last and in registration order.
THEOREM LifecycleRefined == Spec => ImplementsLifecycle
<1>1. Init => Lifecycle!Init
  BY HarnessAssumption DEF Init, Lifecycle!Init, Lifecycle!Actors, Actors, Phase
<1>2. RefinementInv /\ [Next]_vars => [Lifecycle!Next]_Lifecycle!vars
  <2> SUFFICES ASSUME RefinementInv, [Next]_vars PROVE [Lifecycle!Next]_Lifecycle!vars
    OBVIOUS
  <2>1. CASE MainStep  BY <2>1, MainStepMaps
  <2>2. ASSUME NEW s \in Subs, SubStep(s) PROVE [Lifecycle!Next]_Lifecycle!vars
    BY <2>2, SubStepMaps
  <2>3. CASE UNCHANGED <<mainVars, handled, lock, lifeVars>>
    <3>1. UNCHANGED <<PhaseMap, BusyMap, handled>>
      BY <2>3 DEF PhaseMap, BusyMap, Phase, mainVars, lifeVars
    <3>2. QED  BY <3>1, StutterAction
  <2>4. QED
    BY <2>1, <2>2, <2>3, FeedFrame, FlagFrame DEF Next, Terminated, vars, subVars
<1>3. QED
  BY <1>1, <1>2, RefinementInvHolds, PTL DEF Spec, ImplementsLifecycle, Lifecycle!Spec
=============================================================================
