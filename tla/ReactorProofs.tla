---------------------------- MODULE ReactorProofs ----------------------------
(***************************************************************************)
(* Proofs about Reactor: what the blocking calls, the deferred             *)
(* registration and the epoller keep true for any number of calls,         *)
(* coroutines and descriptors.                                             *)
(***************************************************************************)
EXTENDS Reactor, TLAPS

\* A call that has left its worker.
Away(o) == phase[o] \notin {"idle", "running"}

\* A call that its coroutine is in.
Active(o) == phase[o] \in {"running", "suspended", "resumed"}

Registered(o) == regd[FdOf[o]].item = o

-----------------------------------------------------------------------------
(* The parts of the inductive invariant                                    *)

\* An item gets into the kernel's list, and from there into ready_list_, only
\* after the switch and after enable_epoll_*.
RegisteredAway ==
  \A o \in Ops :
    Registered(o) \/ o \in ready \/ Handling(o) => Away(o) /\ enable[o] # "todo"

\* What a context says of its call: one that is complete has nothing left, and
\* read_until has nothing left only when it is complete.
ContextTrue ==
  \A o \in Ops :
    /\ result[o] = "ok" /\ Kind[o] \in {"read", "write", "read_until"} => left[o] = 0
    /\ Kind[o] = "read_until" /\ left[o] = 0 => result[o] # "none"

\* Who is about to be resumed, or has been, has a result.
ResumedHasResult ==
  \A o \in Ops :
    phase[o] \in {"resumed", "returned"} \/ Handling(o) => result[o] # "none"

\* A coroutine is in one call at a time.
OneActive ==
  \A o, p \in Ops : o # p /\ CoroOf[o] = CoroOf[p] => ~(Active(o) /\ Active(p))

\* A call whose registration was accepted has left its worker.
AcceptedAway == \A o \in Ops : accepted[o] => Away(o) /\ enable[o] # "todo"

\* Without signals the epoller handles what is registered, each item once.
HandledRegistered ==
  interrupts = 0 =>
    /\ pc \in {"handle", "update", "push", "after"} => \A o \in todo : Registered(o)
    /\ pc = "update" => Registered(cur) /\ cur \notin todo

\* No signal, and the epoller has never overtaken a worker.
Calm == ~overtaken /\ interrupts = 0

\* Then a registered item belongs to a call that waits for the first time,
\* watching_ tells whether an item is registered, and a call is resumed only
\* after its item was taken out.
CalmInv ==
  Calm =>
    \A o \in Ops :
      /\ resumes[o] <= 1
      /\ enable[o] = "todo" => resumes[o] = 0
      /\ Registered(o) => phase[o] = "suspended" /\ resumes[o] = 0
      /\ Registered(o) /\ enable[o] = "done" => watching[o]
      /\ pc = "push" /\ cur = o => ~Registered(o) /\ resumes[o] = 0

\* One coroutine for each descriptor, or no signals.
Undisturbed ==
  \/ \A o, p \in Ops : FdOf[o] = FdOf[p] => CoroOf[o] = CoroOf[p]
  \/ MaxInterrupts = 0

-----------------------------------------------------------------------------
(* What one step of the callbacks and of disable_* does                    *)

Results == {"none", "ok", "eof", "error"}
Transferring == {"read", "write", "read_until"}

\* What the callback of item o may do to its context, and where it goes on.
CalledBack(o) ==
  /\ revents[o] = "io"
  /\ HandleEvents(o, "handle") \/ HandleEvents(o, "update")
  /\ left' \in [Ops -> Nat] /\ result' \in [Ops -> Results] /\ blocks' \in Nat
  /\ \A p \in Ops \ {o} : left'[p] = left[p] /\ result'[p] = result[p]
  /\ result[o] # "none" \/ pc' = "update" => result'[o] # "none"
  /\ result'[o] = "ok" /\ Kind[o] \in Transferring => left'[o] = 0
  /\ Kind[o] = "read_until" /\ left'[o] = 0 => result'[o] # "none"

\* Every branch of every callback leaves its context true, and resumes the
\* coroutine only with a result.
LEMMA CallbackFacts ==
  ASSUME TypeOK, ContextTrue, NEW o \in Ops, CallbackStep(o)
  PROVE  CalledBack(o)
<1> USE DEF CalledBack, Callback, Results, Transferring
<1>1. /\ left \in [Ops -> Nat] /\ result \in [Ops -> Results] /\ blocks \in Nat
      /\ left[o] \in Nat /\ result[o] \in Results
      /\ result[o] = "ok" /\ Kind[o] \in Transferring => left[o] = 0
      /\ Kind[o] = "read_until" /\ left[o] = 0 => result[o] # "none"
  BY DEF TypeOK, ContextTrue
<1>2. ASSUME NEW k \in 1 .. left[o], Transfer(o, k) PROVE CalledBack(o)
  <2>1. left[o] - k \in Nat /\ (left[o] - k = 0 <=> left[o] = k)
    BY <1>1
  <2>2. left' \in [Ops -> Nat] /\ left'[o] = left[o] - k
        /\ blocks' = blocks /\ \A p \in Ops \ {o} : left'[p] = left[p]
    BY <1>1, <1>2, <2>1 DEF Transfer
  <2>3. CASE left[o] = k /\ Callback(o, "update") /\ result' = [result EXCEPT ![o] = "ok"]
    BY <1>1, <2>1, <2>2, <2>3
  <2>4. CASE left[o] # k /\ Callback(o, "handle") /\ result' = result
    <3>1. pc' = "handle"
      BY <2>4 DEF HandleEvents
    <3>2. ~(result[o] = "ok" /\ Kind[o] \in Transferring)
      BY <1>1, <1>2
    <3> QED
      BY <1>1, <2>1, <2>2, <2>4, <3>1, <3>2
  <2> QED
    BY <1>2, <2>3, <2>4 DEF Transfer
<1>3. ASSUME WouldBlock(o) PROVE CalledBack(o)
  <2>1. pc' = "handle" /\ blocks' \in Nat
    BY <1>1, <1>3 DEF WouldBlock, HandleEvents
  <2> QED
    BY <1>1, <1>3, <2>1 DEF WouldBlock
<1>4. ASSUME NEW r \in Results, Complete(o, r), r # "none",
             r = "ok" /\ Kind[o] \in Transferring => left[o] = 0
      PROVE  CalledBack(o)
  BY <1>1, <1>4 DEF Complete
<1>5. ASSUME WriteNothing(o), Kind[o] = "write" PROVE CalledBack(o)
  <2>1. pc' = "handle"
    BY <1>5 DEF WriteNothing, HandleEvents
  <2> QED
    BY <1>1, <1>5, <2>1 DEF WriteNothing, ioVars
<1>6. ASSUME EndOfFile(o) PROVE CalledBack(o)
  BY <1>1, <1>4, <1>6 DEF EndOfFile
<1> HIDE DEF CalledBack, Callback
<1>7. ASSUME SmartReadImpl(o) PROVE CalledBack(o)
  BY <1>2, <1>3, <1>4, <1>6, <1>7 DEF SmartReadImpl
<1>8. ASSUME SmartWriteImpl(o) PROVE CalledBack(o)
  BY <1>2, <1>3, <1>4, <1>5, <1>8 DEF SmartWriteImpl
<1>9. ASSUME SmartConnectImpl(o) PROVE CalledBack(o)
  BY <1>4, <1>9 DEF SmartConnectImpl
<1>10. ASSUME SmartAcceptImpl(o) PROVE CalledBack(o)
  BY <1>3, <1>4, <1>10 DEF SmartAcceptImpl
<1>11. ASSUME SmartReadUntilImpl(o) PROVE CalledBack(o)
  BY <1>1, <1>2, <1>3, <1>4, <1>6, <1>11 DEF SmartReadUntilImpl
<1> QED
  BY <1>7, <1>8, <1>9, <1>10, <1>11 DEF CallbackStep

\* Every step keeps the types.
LEMMA NextType ==
  ASSUME TypeOK, ContextTrue, [Next]_vars
  PROVE  TypeOK'
<1> USE ConstantsAssumption DEF TypeOK, Kinds
<1>1. ASSUME NEW o \in Ops, Call(o) PROVE TypeOK'
  BY <1>1 DEF Call, ioVars, kernelVars, loopVars, historyVars
<1>2. ASSUME NEW o \in Ops, Switch(o) PROVE TypeOK'
  BY <1>2 DEF Switch, ioVars, kernelVars, loopVars, historyVars
<1>3. ASSUME NEW o \in Ops, Enable(o) PROVE TypeOK'
  <2>1. AddSucceeds(o) \in BOOLEAN
    BY Zenon DEF AddSucceeds
  <2>2. accepted' \in [Ops -> BOOLEAN]
    BY <1>3, <2>1 DEF Enable
  <2>3. regd' = regd \/ regd' = [regd EXCEPT ![FdOf[o]] = [item |-> o, armed |-> TRUE]]
    BY <1>3, Zenon DEF Enable, CtlAdd
  <2>4. regd' \in [Fds -> [item : Ops \cup {NoOp}, armed : BOOLEAN]]
    <3> DEFINE Regs == [item : Ops \cup {NoOp}, armed : BOOLEAN]
               new == [item |-> o, armed |-> TRUE]
    <3>1. new \in Regs /\ regd \in [Fds -> Regs]
      OBVIOUS
    <3>2. regd' = regd \/ regd' = [regd EXCEPT ![FdOf[o]] = new]
      BY <2>3
    <3> HIDE DEF Regs, new
    <3>3. regd' \in [Fds -> Regs]
      BY <3>1, <3>2
    <3> QED
      BY <3>3 DEF Regs
  <2> QED
    BY <1>3, <2>2, <2>4 DEF Enable, ioVars, loopVars, historyVars
<1>4. ASSUME NEW o \in Ops, SetWatching(o) PROVE TypeOK'
  BY <1>4 DEF SetWatching, ioVars, kernelVars, loopVars, historyVars
<1>5. ASSUME NEW o \in Ops, Return(o) PROVE TypeOK'
  BY <1>5 DEF Return, ioVars, kernelVars, loopVars, historyVars
<1>6. ASSUME NEW S \in SUBSET Ops, NEW ev \in [Ops -> {"io", "hup"}], EpollWait(S, ev)
      PROVE  TypeOK'
  BY <1>6 DEF EpollWait, callVars, ioVars, kernelVars, historyVars
<1>7. ASSUME EpollerInit PROVE TypeOK'
  BY <1>7 DEF EpollerInit, callVars, ioVars, historyVars
<1>8. ASSUME RoundEnds PROVE TypeOK'
  BY <1>8 DEF RoundEnds, callVars, ioVars, kernelVars, historyVars
<1>9. ASSUME DisableItem PROVE TypeOK'
  <2>1. cur \in Ops
    BY <1>9 DEF DisableItem
  <2>2. regd' \in [Fds -> [item : Ops \cup {NoOp}, armed : BOOLEAN]]
    <3> DEFINE Regs == [item : Ops \cup {NoOp}, armed : BOOLEAN]
               none == [item |-> cur, armed |-> FALSE]
    <3>1. Unregistered \in Regs /\ none \in Regs /\ FdOf[cur] \in Fds
      BY <2>1 DEF Unregistered
    <3>2. \/ regd' = regd
          \/ regd' = [regd EXCEPT ![FdOf[cur]] = Unregistered]
          \/ regd' = [regd EXCEPT ![FdOf[cur]] = none]
      BY Zenon, <1>9 DEF DisableItem, CtlAdd
    <3> HIDE DEF none
    <3>3. regd \in [Fds -> Regs]
      OBVIOUS
    <3> HIDE DEF Regs, TypeOK
    <3>4. regd' \in [Fds -> Regs]
      BY <3>1, <3>2, <3>3
    <3> QED
      BY <3>4 DEF Regs
  <2>3. watching' \in [Ops -> BOOLEAN]
    BY <1>9, <2>1 DEF DisableItem
  <2>4. overtaken' \in BOOLEAN
    BY <1>9 DEF DisableItem
  <2> QED
    BY <1>9, <2>1, <2>2, <2>3, <2>4 DEF DisableItem, callVars, ioVars
<1>10. ASSUME ResumeCoro PROVE TypeOK'
  <2>1. cur \in Ops
    BY <1>10 DEF ResumeCoro
  <2> QED
    BY <1>10, <2>1 DEF ResumeCoro, ioVars, kernelVars
<1>11. ASSUME AfterReadCallback PROVE TypeOK'
  BY <1>11 DEF AfterReadCallback, callVars, ioVars, kernelVars, historyVars
<1>12. ASSUME UseAfterReturn PROVE TypeOK'
  BY <1>12 DEF UseAfterReturn, callVars, ioVars, kernelVars, loopVars
<1>13. ASSUME NEW o \in Ops, CallbackStep(o) PROVE TypeOK'
  <2>1. CalledBack(o)
    BY <1>13, CallbackFacts
  <2> QED
    BY <2>1 DEF CalledBack, HandleEvents, Results, callVars, kernelVars, historyVars
<1>14. ASSUME NEW o \in Ops, HandleHangup(o) PROVE TypeOK'
  BY <1>14 DEF HandleHangup, HandleEvents, callVars, ioVars, kernelVars, historyVars
<1>15. ASSUME EventLoopEnds PROVE TypeOK'
  BY <1>15 DEF EventLoopEnds, callVars, ioVars, kernelVars, historyVars
<1>16. ASSUME EpollInterrupted PROVE TypeOK'
  BY <1>16 DEF EpollInterrupted, callVars, ioVars, kernelVars, historyVars
<1>17. ASSUME UNCHANGED vars PROVE TypeOK'
  BY <1>17 DEF vars, callVars, ioVars, kernelVars, loopVars, historyVars
<1> QED
  BY <1>1, <1>2, <1>3, <1>4, <1>5, <1>6, <1>7, <1>8, <1>9, <1>10, <1>11, <1>12, <1>13,
     <1>14, <1>15, <1>16, <1>17 DEF Next, EpollerStep, WorkerStep, Report, Handle

\* What an item's variables may become in the steps that leave the kernel's list,
\* ready_list_ and the callback alone.
Elsewhere == UNCHANGED <<accepted, left, result, regd, ready, todo, cur, interrupts,
                         resumes, overtaken, watching>>

\* The steps of the epoller that only move it along its loop.
Quiet ==
  /\ Elsewhere
  /\ UNCHANGED <<phase, enable>>
  /\ \/ pc' = pc
     \/ pc = "init" /\ pc' = "wait"
     \/ pc' = "ended"
     \/ pc = "handle" /\ todo = {} /\ pc' = "wait"

\* A step is one of the following.
Stepped ==
  \/ \E o \in Ops :
       \/ Call(o) \/ Switch(o) \/ Enable(o) \/ SetWatching(o) \/ Return(o)
       \/ CalledBack(o) \/ HandleHangup(o)
  \/ \E S \in SUBSET Ops, ev \in [Ops -> {"io", "hup"}] : EpollWait(S, ev)
  \/ DisableItem \/ ResumeCoro \/ AfterReadCallback \/ EpollInterrupted \/ Quiet

\* This is what Next amounts to.
LEMMA StepCases ==
  ASSUME TypeOK, ContextTrue, [Next]_vars
  PROVE  Stepped
<1>1. ASSUME EpollerInit \/ RoundEnds \/ UseAfterReturn \/ EventLoopEnds \/ UNCHANGED vars
      PROVE  Quiet
  <2> USE DEF Quiet, Elsewhere, callVars, ioVars, kernelVars, loopVars, historyVars
  <2>1. CASE EpollerInit
    BY <2>1 DEF EpollerInit
  <2>2. CASE RoundEnds
    BY <2>2 DEF RoundEnds
  <2>3. CASE UseAfterReturn
    BY <2>3 DEF UseAfterReturn
  <2>4. CASE EventLoopEnds
    BY <2>4 DEF EventLoopEnds
  <2>5. CASE UNCHANGED vars
    BY <2>5 DEF vars
  <2> QED
    BY <1>1, <2>1, <2>2, <2>3, <2>4, <2>5
<1>2. ASSUME NEW o \in Ops, CallbackStep(o) PROVE CalledBack(o)
  BY <1>2, CallbackFacts
<1> QED
  BY <1>1, <1>2 DEF Stepped, Next, EpollerStep, WorkerStep, Report, Handle

\* disable_* touches only the descriptor of its item: it takes out whatever is
\* registered there, or adds its item if nothing is.
LEMMA DisableFacts ==
  ASSUME TypeOK, DisableItem
  PROVE  /\ cur \in Ops /\ FdOf[cur] \in Fds
         /\ \A f \in Fds \ {FdOf[cur]} : regd'[f] = regd[f]
         /\ watching[cur] => regd'[FdOf[cur]].item = NoOp
         /\ ~watching[cur] =>
              \/ regd' = regd
              \/ regd[FdOf[cur]].item = NoOp /\ regd'[FdOf[cur]].item = cur
<1>1. cur \in Ops /\ FdOf[cur] \in Fds /\ regd \in [Fds -> [item : Ops \cup {NoOp}, armed : BOOLEAN]]
  BY ConstantsAssumption DEF TypeOK, DisableItem
<1>2. CASE watching[cur]
  <2>1. regd' = [regd EXCEPT ![FdOf[cur]] = Unregistered]
    BY <1>2 DEF DisableItem
  <2> QED
    BY <1>1, <1>2, <2>1 DEF Unregistered
<1>3. CASE ~watching[cur]
  <2> DEFINE none == [item |-> cur, armed |-> FALSE]
  <2>1. \/ regd' = regd
        \/ regd[FdOf[cur]].item = NoOp /\ regd' = [regd EXCEPT ![FdOf[cur]] = none]
    BY <1>3 DEF DisableItem, CtlAdd, AddSucceeds
  <2>2. none.item = cur
    OBVIOUS
  <2> HIDE DEF none
  <2> QED
    BY <1>1, <1>3, <2>1, <2>2
<1> QED
  BY <1>1, <1>2, <1>3

\* Only an item whose coroutine has switched away gets to the epoller.
LEMMA StepAway ==
  ASSUME TypeOK, TypeOK', RegisteredAway, Stepped
  PROVE  RegisteredAway'
<1> SUFFICES ASSUME NEW p \in Ops, (Registered(p) \/ p \in ready \/ Handling(p))'
             PROVE  (Away(p) /\ enable[p] # "todo")'
  BY DEF RegisteredAway
<1> DEFINE Known == Registered(p) \/ p \in ready \/ Handling(p)
           Safe == Away(p) /\ enable[p] # "todo"
<1>0. Known => Safe
  BY DEF RegisteredAway
<1> USE ConstantsAssumption DEF TypeOK, Registered, Handling, Away
<1>1. ASSUME NEW o \in Ops, Call(o) PROVE Safe'
  BY <1>0, <1>1 DEF Call, kernelVars, loopVars
<1>2. ASSUME NEW o \in Ops, Switch(o) PROVE Safe'
  BY <1>0, <1>2 DEF Switch, kernelVars, loopVars
<1>3. ASSUME NEW o \in Ops, Enable(o) PROVE Safe'
  BY <1>0, <1>3 DEF Enable, CtlAdd, loopVars
<1>4. ASSUME NEW o \in Ops, SetWatching(o) PROVE Safe'
  BY <1>0, <1>4 DEF SetWatching, kernelVars, loopVars
<1>5. ASSUME NEW o \in Ops, Return(o) PROVE Safe'
  BY <1>0, <1>5 DEF Return, kernelVars, loopVars
<1>6. ASSUME NEW o \in Ops, CalledBack(o) PROVE Safe'
  BY <1>0, <1>6 DEF CalledBack, HandleEvents, callVars, kernelVars
<1>7. ASSUME NEW o \in Ops, HandleHangup(o) PROVE Safe'
  BY <1>0, <1>7 DEF HandleHangup, HandleEvents, callVars, kernelVars
<1>8. ASSUME NEW S \in SUBSET Ops, NEW ev, EpollWait(S, ev) PROVE Safe'
  BY <1>0, <1>8 DEF EpollWait, callVars, kernelVars
<1>9. ASSUME DisableItem PROVE Safe'
  <2>1. /\ phase' = phase /\ enable' = enable /\ ready' = ready /\ cur' = cur
        /\ pc = "update" /\ pc' = "push"
    BY <1>9 DEF DisableItem, callVars
  <2>2. regd'[FdOf[p]].item = p => regd[FdOf[p]].item = p \/ p = cur
    BY <1>9, DisableFacts
  <2> QED
    BY <1>0, <2>1, <2>2
<1>10. ASSUME ResumeCoro PROVE Safe'
  BY <1>0, <1>10 DEF ResumeCoro, kernelVars
<1>11. ASSUME AfterReadCallback PROVE Safe'
  BY <1>0, <1>11 DEF AfterReadCallback, callVars, kernelVars
<1>12. ASSUME EpollInterrupted PROVE Safe'
  BY <1>0, <1>12 DEF EpollInterrupted, callVars, kernelVars
<1>13. ASSUME Quiet PROVE Safe'
  BY <1>0, <1>13 DEF Quiet, Elsewhere
<1> QED
  BY <1>1, <1>2, <1>3, <1>4, <1>5, <1>6, <1>7, <1>8, <1>9, <1>10, <1>11, <1>12, <1>13
     DEF Stepped

\* Only callbacks change a context.
LEMMA StepContext ==
  ASSUME TypeOK, TypeOK', ContextTrue, Stepped
  PROVE  ContextTrue'
<1>1. ASSUME NEW o \in Ops, CalledBack(o) PROVE ContextTrue'
  BY <1>1 DEF CalledBack, ContextTrue, Transferring
<1>2. ASSUME UNCHANGED <<left, result>> PROVE ContextTrue'
  BY <1>2 DEF ContextTrue
<1>3. ASSUME NEW o \in Ops,
             Call(o) \/ Switch(o) \/ Enable(o) \/ SetWatching(o) \/ Return(o)
             \/ HandleHangup(o)
      PROVE  UNCHANGED <<left, result>>
  BY <1>3 DEF Call, Switch, Enable, SetWatching, Return, HandleHangup, ioVars
<1>4. ASSUME NEW S, NEW ev, EpollWait(S, ev) PROVE UNCHANGED <<left, result>>
  BY <1>4 DEF EpollWait, ioVars
<1>5. ASSUME DisableItem \/ ResumeCoro \/ AfterReadCallback \/ EpollInterrupted \/ Quiet
      PROVE  UNCHANGED <<left, result>>
  BY <1>5 DEF DisableItem, ResumeCoro, AfterReadCallback, EpollInterrupted, Quiet,
     Elsewhere, ioVars
<1> QED
  BY <1>1, <1>2, <1>3, <1>4, <1>5 DEF Stepped

\* A coroutine is resumed with a result.
LEMMA StepResult ==
  ASSUME TypeOK, TypeOK', ResumedHasResult, Stepped
  PROVE  ResumedHasResult'
<1> SUFFICES ASSUME NEW p \in Ops,
                    (phase[p] \in {"resumed", "returned"} \/ Handling(p))'
             PROVE  result'[p] # "none"
  BY DEF ResumedHasResult
<1>0. phase[p] \in {"resumed", "returned"} \/ Handling(p) => result[p] # "none"
  BY DEF ResumedHasResult
<1> USE DEF TypeOK, Handling
<1>1. ASSUME NEW o \in Ops, Call(o) \/ Switch(o) \/ Enable(o) \/ SetWatching(o) \/ Return(o)
      PROVE  result'[p] # "none"
  <2>1. result' = result /\ pc' = pc /\ cur' = cur
    BY <1>1 DEF Call, Switch, Enable, SetWatching, Return, ioVars, loopVars
  <2>2. \/ phase' = phase
        \/ phase' = [phase EXCEPT ![o] = "running"]
        \/ phase' = [phase EXCEPT ![o] = "suspended"]
        \/ phase[o] = "resumed" /\ phase' = [phase EXCEPT ![o] = "returned"]
    BY <1>1 DEF Call, Switch, Enable, SetWatching, Return
  <2> QED
    BY <1>0, <2>1, <2>2
<1>2. ASSUME NEW o \in Ops, CalledBack(o) PROVE result'[p] # "none"
  BY <1>0, <1>2 DEF CalledBack, HandleEvents, callVars
<1>3. ASSUME NEW o \in Ops, HandleHangup(o) PROVE result'[p] # "none"
  BY <1>0, <1>3 DEF HandleHangup, HandleEvents, callVars, ioVars
<1>4. ASSUME NEW S, NEW ev, EpollWait(S, ev) PROVE result'[p] # "none"
  BY <1>0, <1>4 DEF EpollWait, callVars, ioVars
<1>5. ASSUME DisableItem PROVE result'[p] # "none"
  BY <1>0, <1>5 DEF DisableItem, callVars, ioVars
<1>6. ASSUME ResumeCoro PROVE result'[p] # "none"
  BY <1>0, <1>6 DEF ResumeCoro, ioVars
<1>7. ASSUME AfterReadCallback \/ EpollInterrupted \/ Quiet PROVE result'[p] # "none"
  BY <1>0, <1>7 DEF AfterReadCallback, EpollInterrupted, Quiet, Elsewhere, callVars, ioVars
<1> QED
  BY <1>1, <1>2, <1>3, <1>4, <1>5, <1>6, <1>7 DEF Stepped

\* A call begins when its coroutine is in no other; being resumed once more does
\* not make a call active.
LEMMA StepActive ==
  ASSUME TypeOK, TypeOK', RegisteredAway, OneActive, Stepped
  PROVE  OneActive'
<1>1. ASSUME NEW o \in Ops, Call(o) PROVE OneActive'
  BY <1>1 DEF Call, OneActive, Active, TypeOK
<1>2. ASSUME \A p \in Ops : Active(p)' => Active(p) PROVE OneActive'
  BY <1>2 DEF OneActive
<1>3. ASSUME NEW o \in Ops, Switch(o) \/ Return(o) PROVE \A p \in Ops : Active(p)' => Active(p)
  BY <1>3 DEF Switch, Return, Active, TypeOK
<1>4. ASSUME ResumeCoro PROVE \A p \in Ops : Active(p)' => Active(p)
  <2>1. cur \in Ops /\ Away(cur) /\ ~Dead(cur)
    BY <1>4 DEF ResumeCoro, TypeOK, RegisteredAway, Handling
  <2>2. Active(cur)
    BY <2>1 DEF Active, Away, Dead, TypeOK
  <2> QED
    BY <1>4, <2>1, <2>2 DEF ResumeCoro, Active, TypeOK
<1>5. ASSUME phase' = phase PROVE \A p \in Ops : Active(p)' => Active(p)
  BY <1>5 DEF Active
<1>6. ASSUME NEW o \in Ops, Enable(o) \/ SetWatching(o) \/ CalledBack(o) \/ HandleHangup(o)
      PROVE  phase' = phase
  BY <1>6 DEF Enable, SetWatching, CalledBack, HandleHangup, HandleEvents, callVars
<1>7. ASSUME NEW S, NEW ev, EpollWait(S, ev) PROVE phase' = phase
  BY <1>7 DEF EpollWait, callVars
<1>8. ASSUME DisableItem \/ AfterReadCallback \/ EpollInterrupted \/ Quiet PROVE phase' = phase
  BY <1>8 DEF DisableItem, AfterReadCallback, EpollInterrupted, Quiet, callVars
<1> QED
  BY <1>1, <1>2, <1>3, <1>4, <1>5, <1>6, <1>7, <1>8 DEF Stepped

\* A registration is accepted after the switch.
LEMMA StepAccepted ==
  ASSUME TypeOK, TypeOK', AcceptedAway, Stepped
  PROVE  AcceptedAway'
<1> USE DEF AcceptedAway, Away, TypeOK
<1>1. ASSUME NEW o \in Ops, Call(o) \/ Switch(o) \/ SetWatching(o) \/ Return(o)
      PROVE  AcceptedAway'
  BY <1>1 DEF Call, Switch, SetWatching, Return
<1>2. ASSUME NEW o \in Ops, Enable(o) PROVE AcceptedAway'
  <2>1. /\ phase' = phase /\ phase[o] = "suspended"
        /\ enable' = [enable EXCEPT ![o] = "ctl"]
    BY <1>2 DEF Enable
  <2>2. accepted' = accepted \/ accepted' = [accepted EXCEPT ![o] = AddSucceeds(o)]
    BY <1>2 DEF Enable
  <2>3. \A p \in Ops \ {o} : accepted'[p] = accepted[p]
    BY <2>2, Zenon
  <2> QED
    BY <2>1, <2>3
<1>3. ASSUME ResumeCoro PROVE AcceptedAway'
  BY <1>3 DEF ResumeCoro
<1>4. ASSUME UNCHANGED <<phase, enable, accepted>> PROVE AcceptedAway'
  BY <1>4
<1>5. ASSUME NEW o \in Ops, CalledBack(o) \/ HandleHangup(o)
      PROVE  UNCHANGED <<phase, enable, accepted>>
  BY <1>5 DEF CalledBack, HandleHangup, HandleEvents, callVars
<1>6. ASSUME NEW S, NEW ev, EpollWait(S, ev) PROVE UNCHANGED <<phase, enable, accepted>>
  BY <1>6 DEF EpollWait, callVars
<1>7. ASSUME DisableItem \/ AfterReadCallback \/ EpollInterrupted \/ Quiet
      PROVE  UNCHANGED <<phase, enable, accepted>>
  BY <1>7 DEF DisableItem, AfterReadCallback, EpollInterrupted, Quiet, Elsewhere, callVars
<1> QED
  BY <1>1, <1>2, <1>3, <1>4, <1>5, <1>6, <1>7 DEF Stepped

\* As long as no signal comes, an item stays registered from epoll_wait to its
\* own disable_*: another item's disable_* is about another descriptor.
LEMMA StepHandled ==
  ASSUME TypeOK, TypeOK', HandledRegistered, Stepped
  PROVE  HandledRegistered'
<1> DEFINE Fine ==
             /\ pc \in {"handle", "update", "push", "after"} =>
                  \A o \in todo : Registered(o)
             /\ pc = "update" => Registered(cur) /\ cur \notin todo
<1> SUFFICES ASSUME interrupts' = 0 PROVE Fine'
  BY DEF HandledRegistered
<1>0. interrupts = 0 => Fine
  BY DEF HandledRegistered
<1> USE ConstantsAssumption DEF TypeOK, Registered
<1>1. ASSUME NEW o \in Ops, Call(o) \/ Switch(o) \/ SetWatching(o) \/ Return(o)
      PROVE  Fine'
  BY <1>0, <1>1 DEF Call, Switch, SetWatching, Return, kernelVars, loopVars
<1>2. ASSUME NEW o \in Ops, Enable(o) PROVE Fine'
  <2>1. \A p \in Ops : Registered(p) => regd'[FdOf[p]].item = p
    BY <1>2 DEF Enable, CtlAdd, AddSucceeds
  <2> QED
    BY <1>0, <1>2, <2>1 DEF Enable, loopVars
<1>3. ASSUME NEW o \in Ops, CalledBack(o) PROVE Fine'
  BY <1>0, <1>3 DEF CalledBack, HandleEvents, kernelVars
<1>4. ASSUME NEW o \in Ops, HandleHangup(o) PROVE Fine'
  BY <1>0, <1>4 DEF HandleHangup, HandleEvents, kernelVars
<1>5. ASSUME NEW S, NEW ev, EpollWait(S, ev) PROVE Fine'
  BY <1>5 DEF EpollWait, kernelVars
<1>6. ASSUME DisableItem PROVE Fine'
  <2>1. interrupts = 0 /\ pc = "update" /\ pc' = "push" /\ todo' = todo
    BY <1>6 DEF DisableItem
  <2>2. \A p \in todo : p \in Ops /\ FdOf[p] \in Fds /\ FdOf[p] # FdOf[cur]
    BY <1>0, <2>1
  <2>3. \A p \in todo : regd'[FdOf[p]] = regd[FdOf[p]]
    BY <1>6, <2>2, DisableFacts
  <2> QED
    BY <1>0, <2>1, <2>3
<1>7. ASSUME ResumeCoro PROVE Fine'
  BY <1>0, <1>7 DEF ResumeCoro, kernelVars
<1>8. ASSUME AfterReadCallback PROVE Fine'
  BY <1>0, <1>8 DEF AfterReadCallback, kernelVars
<1>9. ASSUME EpollInterrupted PROVE Fine'
  BY <1>9 DEF EpollInterrupted
<1>10. ASSUME Quiet PROVE Fine'
  BY <1>0, <1>10 DEF Quiet, Elsewhere
<1> QED
  BY <1>1, <1>2, <1>3, <1>4, <1>5, <1>6, <1>7, <1>8, <1>9, <1>10 DEF Stepped

\* Without a signal and without an overtaken worker, disable_* finds watching_
\* set and takes the item out before the coroutine is resumed; nobody adds it
\* again.
LEMMA StepCalm ==
  ASSUME TypeOK, TypeOK', RegisteredAway, HandledRegistered, CalmInv, Stepped
  PROVE  CalmInv'
<1> DEFINE Once(p) ==
             /\ resumes[p] <= 1
             /\ enable[p] = "todo" => resumes[p] = 0
             /\ Registered(p) => phase[p] = "suspended" /\ resumes[p] = 0
             /\ Registered(p) /\ enable[p] = "done" => watching[p]
             /\ pc = "push" /\ cur = p => ~Registered(p) /\ resumes[p] = 0
<1> SUFFICES ASSUME Calm', NEW p \in Ops PROVE Once(p)'
  BY Zenon DEF CalmInv
<1>0. Calm => Once(p)
  BY Zenon DEF CalmInv
<1> USE ConstantsAssumption DEF TypeOK, Registered, Calm
<1>1. ASSUME NEW o \in Ops, Call(o) PROVE Once(p)'
  BY <1>0, <1>1 DEF Call, kernelVars, loopVars, historyVars
<1>2. ASSUME NEW o \in Ops, Switch(o) PROVE Once(p)'
  BY <1>0, <1>2 DEF Switch, kernelVars, loopVars, historyVars
<1>3. ASSUME NEW o \in Ops, Enable(o) PROVE Once(p)'
  <2>1. /\ phase' = phase /\ phase[o] = "suspended" /\ enable[o] = "todo"
        /\ enable' = [enable EXCEPT ![o] = "ctl"] /\ watching' = watching
        /\ resumes' = resumes /\ pc' = pc /\ cur' = cur /\ Once(p)
    BY <1>0, <1>3 DEF Enable, loopVars, historyVars
  <2>2. regd'[FdOf[p]].item = p => regd[FdOf[p]].item = p \/ p = o
    BY <1>3 DEF Enable, CtlAdd
  <2>3. ~(pc = "push" /\ cur = o)
    BY <2>1 DEF RegisteredAway, Handling
  <2>4. CASE p = o
    BY <2>1, <2>3, <2>4
  <2>5. CASE p # o
    BY <2>1, <2>2, <2>5
  <2> QED
    BY <2>4, <2>5
<1>4. ASSUME NEW o \in Ops, SetWatching(o) PROVE Once(p)'
  BY <1>0, <1>4 DEF SetWatching, kernelVars, loopVars, historyVars
<1>5. ASSUME NEW o \in Ops, Return(o) PROVE Once(p)'
  BY <1>0, <1>5 DEF Return, kernelVars, loopVars, historyVars
<1>6. ASSUME NEW o \in Ops, CalledBack(o) PROVE Once(p)'
  BY <1>0, <1>6 DEF CalledBack, HandleEvents, callVars, kernelVars, historyVars
<1>7. ASSUME NEW o \in Ops, HandleHangup(o) PROVE Once(p)'
  BY <1>0, <1>7 DEF HandleHangup, HandleEvents, callVars, kernelVars, historyVars
<1>8. ASSUME NEW S, NEW ev, EpollWait(S, ev) PROVE Once(p)'
  BY <1>0, <1>8 DEF EpollWait, callVars, kernelVars, historyVars
<1>9. ASSUME DisableItem PROVE Once(p)'
  <2>1. /\ Calm /\ enable[cur] # "ctl" /\ pc = "update" /\ pc' = "push" /\ cur' = cur
        /\ watching' = [watching EXCEPT ![cur] = ~@]
        /\ resumes' = resumes /\ enable' = enable /\ phase' = phase
    BY <1>9 DEF DisableItem, callVars
  <2>2. cur \in Ops /\ Registered(cur)
    BY <2>1 DEF HandledRegistered
  <2>3. enable[cur] = "done"
    BY <2>1, <2>2 DEF RegisteredAway
  <2>4. watching[cur] /\ resumes[cur] = 0
    BY <2>1, <2>2, <2>3 DEF CalmInv
  <2>5. regd'[FdOf[cur]].item = NoOp /\ \A f \in Fds \ {FdOf[cur]} : regd'[f] = regd[f]
    BY <1>9, <2>4, DisableFacts
  <2>6. ~Registered(cur)'
    BY <2>1, <2>2, <2>5
  <2>7. CASE p = cur
    BY <1>0, <2>1, <2>4, <2>6, <2>7
  <2>8. CASE p # cur
    <3>1. Registered(p)' => Registered(p)
      BY <2>5
    <3> QED
      BY <1>0, <2>1, <3>1, <2>8
  <2> QED
    BY <2>7, <2>8
<1>10. ASSUME ResumeCoro PROVE Once(p)'
  <2>1. /\ Calm /\ pc = "push" /\ pc' # "push" /\ cur \in Ops
        /\ resumes' = [resumes EXCEPT ![cur] = @ + 1]
        /\ phase' = [phase EXCEPT ![cur] = "resumed"]
        /\ enable' = enable /\ watching' = watching /\ regd' = regd
    BY <1>10 DEF ResumeCoro, kernelVars
  <2>2. ~Registered(cur) /\ resumes[cur] = 0
    BY <2>1 DEF CalmInv
  <2>3. enable[cur] # "todo"
    BY <2>1 DEF RegisteredAway, Handling
  <2>4. CASE p = cur
    BY <1>0, <2>1, <2>2, <2>3, <2>4
  <2>5. CASE p # cur
    BY <1>0, <2>1, <2>5
  <2> QED
    BY <2>4, <2>5
<1>11. ASSUME AfterReadCallback PROVE Once(p)'
  BY <1>0, <1>11 DEF AfterReadCallback, callVars, kernelVars, historyVars
<1>12. ASSUME EpollInterrupted PROVE FALSE
  BY <1>12 DEF EpollInterrupted
<1>13. ASSUME Quiet PROVE Once(p)'
  BY <1>0, <1>13 DEF Quiet, Elsewhere
<1> HIDE DEF Once
<1> QED
  BY <1>1, <1>2, <1>3, <1>4, <1>5, <1>6, <1>7, <1>8, <1>9, <1>10, <1>11, <1>12, <1>13
     DEF Stepped

-----------------------------------------------------------------------------
(* The theorems                                                            *)

\* The inductive invariant.
ReactorInv ==
  /\ TypeOK
  /\ RegisteredAway
  /\ ContextTrue
  /\ ResumedHasResult
  /\ OneActive
  /\ AcceptedAway
  /\ HandledRegistered
  /\ CalmInv

\* It holds before the first call.
LEMMA InitReactor == Init => ReactorInv
<1> SUFFICES ASSUME Init PROVE ReactorInv
  OBVIOUS
<1> USE ConstantsAssumption
<1>1. TypeOK
  BY DEF Init, TypeOK, Unregistered
<1>2. RegisteredAway /\ AcceptedAway /\ HandledRegistered
  BY DEF Init, RegisteredAway, AcceptedAway, HandledRegistered, Registered, Handling,
     Unregistered
<1>3. ContextTrue /\ ResumedHasResult
  BY DEF Init, ContextTrue, ResumedHasResult, Handling
<1>4. OneActive
  BY DEF Init, OneActive, Active
<1>5. CalmInv
  BY DEF Init, CalmInv, Registered, Unregistered
<1> QED
  BY <1>1, <1>2, <1>3, <1>4, <1>5 DEF ReactorInv

\* Every step keeps it.
LEMMA NextReactor == ReactorInv /\ [Next]_vars => ReactorInv'
<1> SUFFICES ASSUME ReactorInv, [Next]_vars PROVE ReactorInv'
  OBVIOUS
<1> USE DEF ReactorInv
<1>1. TypeOK' /\ Stepped
  BY NextType, StepCases
<1> QED
  BY <1>1, StepAway, StepContext, StepResult, StepActive, StepAccepted, StepHandled, StepCalm

\* It is an invariant.
LEMMA ReactorInvariance == Spec => []ReactorInv
  BY InitReactor, NextReactor, PTL DEF Spec

\* Every variable keeps its type and the epoller handles only items.
THEOREM ReactorTypeCorrect == Spec => []TypeOK
<1>1. ReactorInv => TypeOK
  BY DEF ReactorInv
<1> QED
  BY <1>1, ReactorInvariance, PTL

\* The deferred enable_epoll_* does what it is for: no callback runs, for
\* whatever calls, descriptors and signals, while its coroutine is still on its
\* worker.
THEOREM SwitchedTheorem == Spec => []SwitchedBeforeCallback
<1>1. ReactorInv => SwitchedBeforeCallback
  BY DEF ReactorInv, RegisteredAway, SwitchedBeforeCallback, Away
<1> QED
  BY <1>1, ReactorInvariance, PTL

\* No coroutine is resumed with its transfer half done.
THEOREM ResumedTheorem == Spec => []ResumedComplete
<1>1. ReactorInv => ResumedComplete
  <2> SUFFICES ASSUME ReactorInv, NEW o \in Ops, phase[o] \in {"resumed", "returned"}
               PROVE  \/ result[o] \in {"eof", "error"}
                      \/ result[o] = "ok" /\ (Kind[o] \in Transferring => left[o] = 0)
    BY DEF ResumedComplete, Transferring
  <2>1. result[o] \in Results /\ result[o] # "none"
    BY DEF ReactorInv, TypeOK, Results, ResumedHasResult
  <2>2. result[o] = "ok" /\ Kind[o] \in Transferring => left[o] = 0
    BY DEF ReactorInv, ContextTrue, Transferring
  <2> QED
    BY <2>1, <2>2 DEF Results
<1> QED
  BY <1>1, ReactorInvariance, PTL

\* Double resumption and registrations left behind have exactly the two causes
\* that OnceUnlessRaced names.
THEOREM OnceTheorem == Spec => []OnceUnlessRaced
<1>1. ReactorInv => OnceUnlessRaced
  <2> SUFFICES ASSUME ReactorInv, NEW o \in Ops, ~overtaken, ~(interrupts > 0)
               PROVE  ~(resumes[o] > 1) /\ ~(Dead(o) /\ regd[FdOf[o]].item = o)
    BY DEF OnceUnlessRaced
  <2>1. Calm
    BY DEF Calm, ReactorInv, TypeOK
  <2>2. /\ resumes[o] \in Nat /\ resumes[o] <= 1
        /\ regd[FdOf[o]].item = o => phase[o] = "suspended"
    BY <2>1 DEF ReactorInv, CalmInv, TypeOK, Registered
  <2> QED
    BY <2>2 DEF Dead
<1> QED
  BY <1>1, ReactorInvariance, PTL

\* disable_* of another item never takes a waiting call's registration away: the
\* other item is registered itself, or its coroutine would be in two calls.
LEMMA StepWaiting ==
  ASSUME Undisturbed, ReactorInv, interrupts <= MaxInterrupts, WaitingStaysRegistered, Stepped,
         TypeOK'
  PROVE  WaitingStaysRegistered'
<1> SUFFICES ASSUME NEW p \in Ops, accepted'[p], result'[p] = "none"
             PROVE  regd'[FdOf[p]] = [item |-> p, armed |-> TRUE]
  BY DEF WaitingStaysRegistered
<1> DEFINE reg == [item |-> p, armed |-> TRUE]
<1>0. accepted[p] /\ result[p] = "none" => regd[FdOf[p]] = reg
  BY DEF WaitingStaysRegistered
<1>a. reg.item = p /\ TypeOK /\ FdOf[p] \in Fds /\ p # NoOp
  BY ConstantsAssumption DEF ReactorInv
<1> HIDE DEF reg
<1>1. ASSUME UNCHANGED <<accepted, regd>>, result' = result PROVE regd'[FdOf[p]] = reg
  BY <1>0, <1>1
<1>2. ASSUME NEW o \in Ops, Call(o) \/ Switch(o) \/ SetWatching(o) \/ Return(o)
      PROVE  UNCHANGED <<accepted, regd>> /\ result' = result
  BY <1>2 DEF Call, Switch, SetWatching, Return, ioVars, kernelVars
<1>3. ASSUME NEW o \in Ops, Enable(o) PROVE regd'[FdOf[p]] = reg
  <2>0. /\ result' = result
        /\ \/ accepted' = [accepted EXCEPT ![o] = AddSucceeds(o)] /\ CtlAdd(o, TRUE)
           \/ UNCHANGED <<accepted, regd>>
    BY <1>3 DEF Enable, ioVars
  <2> SUFFICES ASSUME accepted' = [accepted EXCEPT ![o] = AddSucceeds(o)], CtlAdd(o, TRUE)
               PROVE  regd'[FdOf[p]] = reg
    BY <1>1, <2>0
  <2>1. /\ accepted' = [accepted EXCEPT ![o] = AddSucceeds(o)] /\ result' = result
        /\ CtlAdd(o, TRUE)
    BY <2>0
  <2>2. CASE p = o
    <3>1. AddSucceeds(o)
      BY <1>a, <2>1, <2>2 DEF TypeOK
    <3>2. regd' = [regd EXCEPT ![FdOf[p]] = reg]
      BY <2>1, <2>2, <3>1 DEF CtlAdd, reg
    <3> QED
      BY <1>a, <3>2 DEF TypeOK
  <2>3. CASE p # o
    <3>1. regd[FdOf[p]] = reg
      BY <1>0, <1>a, <2>1, <2>3 DEF TypeOK
    <3>2. FdOf[p] = FdOf[o] => regd' = regd
      BY <1>a, <2>1, <3>1 DEF CtlAdd, AddSucceeds
    <3>3. FdOf[p] # FdOf[o] => regd'[FdOf[p]] = regd[FdOf[p]]
      BY <1>a, <2>1 DEF CtlAdd, TypeOK
    <3> QED
      BY <3>1, <3>2, <3>3
  <2> QED
    BY <2>2, <2>3
<1>4. ASSUME NEW o \in Ops, CalledBack(o) PROVE regd'[FdOf[p]] = reg
  <2>1. UNCHANGED <<accepted, regd>>
    BY <1>4 DEF CalledBack, HandleEvents, callVars, kernelVars
  <2>2. result[p] = "none"
    BY <1>4 DEF CalledBack
  <2> QED
    BY <1>0, <2>1, <2>2
<1>5. ASSUME NEW o \in Ops, HandleHangup(o)
      PROVE  UNCHANGED <<accepted, regd>> /\ result' = result
  BY <1>5 DEF HandleHangup, HandleEvents, callVars, kernelVars, ioVars
<1>6. ASSUME NEW S, NEW ev, EpollWait(S, ev)
      PROVE  UNCHANGED <<accepted, regd>> /\ result' = result
  BY <1>6 DEF EpollWait, callVars, kernelVars, ioVars
<1>7. ASSUME DisableItem PROVE regd'[FdOf[p]] = reg
  <2>1. /\ accepted[p] /\ result[p] = "none" /\ pc = "update" /\ ~Dead(cur) /\ cur \in Ops
    BY <1>7, <1>a DEF DisableItem, callVars, ioVars, TypeOK
  <2>2. regd[FdOf[p]] = reg
    BY <1>0, <2>1
  <2>3. Handling(cur)
    BY <2>1 DEF Handling
  <2>4. p # cur
    BY <2>1, <2>3 DEF ReactorInv, ResumedHasResult
  <2>5. interrupts # 0 => CoroOf[p] # CoroOf[cur]
    <3>1. Away(p) /\ Away(cur)
      BY <2>1, <2>3 DEF ReactorInv, AcceptedAway, RegisteredAway
    <3>2. phase[p] = "suspended"
      BY <1>a, <2>1, <3>1 DEF ReactorInv, ResumedHasResult, Away, TypeOK
    <3>3. Active(p) /\ Active(cur)
      BY <1>a, <2>1, <3>1, <3>2 DEF Active, Away, Dead, TypeOK
    <3> QED
      BY <2>1, <2>4, <3>3 DEF ReactorInv, OneActive
  <2>6. FdOf[p] # FdOf[cur]
    <3>1. CASE interrupts = 0
      BY <1>a, <2>1, <2>2, <2>4, <3>1 DEF ReactorInv, HandledRegistered, Registered
    <3>2. CASE interrupts # 0
      <4>1. MaxInterrupts # 0
        BY <1>a, <3>2, ConstantsAssumption DEF TypeOK
      <4> QED
        BY <2>1, <2>5, <3>2, <4>1 DEF Undisturbed
    <3> QED
      BY <3>1, <3>2
  <2> QED
    BY <1>7, <1>a, <2>2, <2>6, DisableFacts
<1>8. ASSUME ResumeCoro \/ AfterReadCallback \/ EpollInterrupted \/ Quiet
      PROVE  UNCHANGED <<accepted, regd>> /\ result' = result
  BY <1>8 DEF ResumeCoro, AfterReadCallback, EpollInterrupted, Quiet, Elsewhere, callVars,
     kernelVars, ioVars
<1>9. regd'[FdOf[p]] = reg
  BY <1>1, <1>2, <1>3, <1>4, <1>5, <1>6, <1>7, <1>8 DEF Stepped
<1> QED
  BY <1>9 DEF reg

\* A call whose registration was accepted keeps it until its callback has a
\* result, if no descriptor is used by two coroutines at a time or no signal
\* comes.  With two coroutines on one descriptor and a signal it does not hold:
\* the replay of one item can take the other one's registration away.
THEOREM WaitingTheorem ==
  ASSUME Undisturbed
  PROVE  Spec => []WaitingStaysRegistered
<1> DEFINE Inv == interrupts <= MaxInterrupts /\ WaitingStaysRegistered
<1>1. Init => Inv
  BY ConstantsAssumption DEF Init, WaitingStaysRegistered
<1>2. ReactorInv /\ ReactorInv' /\ Inv /\ [Next]_vars => Inv'
  <2> SUFFICES ASSUME ReactorInv, ReactorInv', Inv, [Next]_vars PROVE Inv'
    OBVIOUS
  <2>1. Stepped /\ TypeOK' /\ TypeOK
    BY StepCases DEF ReactorInv
  <2>2. WaitingStaysRegistered'
    BY <2>1, StepWaiting
  <2>3. interrupts' = interrupts \/ (interrupts < MaxInterrupts /\ interrupts' = interrupts + 1)
    BY <2>1 DEF Stepped, Call, Switch, Enable, SetWatching, Return, CalledBack, HandleHangup,
       HandleEvents, EpollWait, DisableItem, ResumeCoro, AfterReadCallback,
       EpollInterrupted, Quiet, Elsewhere, loopVars
  <2>4. (interrupts <= MaxInterrupts)'
    BY <2>1, <2>3, ConstantsAssumption DEF TypeOK
  <2> QED
    BY <2>2, <2>4
<1>3. Inv => WaitingStaysRegistered
  OBVIOUS
<1> QED
  BY <1>1, <1>2, <1>3, ReactorInvariance, PTL DEF Spec

=============================================================================
