------------------------- MODULE IrcLifecycleProofs -------------------------
(***************************************************************************)
(* Proofs about IrcLifecycle for any number of loops and attempts: its     *)
(* type correctness, and, when the client waits for each answer, that a    *)
(* wanted account is being worked on and that the registered task handle   *)
(* belongs to the newest spawn.                                            *)
(***************************************************************************)
EXTENDS IrcLifecycle, TLAPS

\* A loop that waits or serves has the attempt it waits for or serves.
RunsOK == \A l \in Loop : at[l] \in {"waiting", "serving"} => runs[l] \in Attempt

TypeInv == TypeOK /\ RunsOK

\* At the start nobody runs.
LEMMA InitTypeInv == Init => TypeInv
<1> SUFFICES ASSUME Init PROVE TypeInv
  OBVIOUS
<1> USE DEF Init
<1>1. RunsOK BY DEF RunsOK
<1>2. /\ pc \in [Req -> Pc]
      /\ removing \in [Req -> BOOLEAN]
      /\ claimed \in [Req -> Nat]
      /\ born \in [Req -> Loop \cup {None}]
  BY DEF Pc
<1>3. /\ at \in [Loop -> LoopAt]
      /\ gen \in [Loop -> Nat]
      /\ aborted \in [Loop -> BOOLEAN]
      /\ runs \in [Loop -> Attempt \cup {None}]
      /\ est \in [Attempt -> AttemptAt]
  BY DEF LoopAt, AttemptAt
<1> QED BY <1>1, <1>2, <1>3 DEF TypeInv, TypeOK, ConnState

\* What a handler's step leaves alone, and that its own place stays a place.
LEMMA AskTypeInv ==
  ASSUME TypeInv, NEW r \in Req, Ask(r) PROVE TypeInv'
<1> USE DEF TypeInv, TypeOK, RunsOK, Begin, Pc, SpawnPc, StopPc, loopVars,
        attemptVars, runtimeVars
<1>1. CASE AskConnect(r) BY <1>1 DEF AskConnect
<1>2. CASE AskAdd(r) BY <1>2 DEF AskAdd
<1>3. CASE AskDisconnect(r) BY <1>3 DEF AskDisconnect
<1>4. CASE AskRemove(r) BY <1>4 DEF AskRemove
<1> QED BY <1>1, <1>2, <1>3, <1>4 DEF Ask

\* The steps of a spawn keep the types.
LEMMA SpawnTypeInv ==
  ASSUME TypeInv, NEW r \in Req,
         \/ ResetIrc(r) \/ ResetTask(r) \/ NextGeneration(r) \/ SetWants(r)
         \/ (\E l \in Loop : StartLoop(r, l)) \/ InsertTaskHandle(r)
  PROVE  TypeInv'
<1> USE DEF TypeInv, TypeOK, RunsOK, Goto, Pc, SpawnPc, loopVars, attemptVars,
        runtimeVars
<1>1. CASE ResetIrc(r) BY <1>1 DEF ResetIrc, SendQuit
<1>2. CASE ResetTask(r) BY <1>2 DEF ResetTask
<1>3. CASE NextGeneration(r) BY <1>3 DEF NextGeneration
<1>4. CASE SetWants(r) BY <1>4 DEF SetWants
<1>5. ASSUME NEW l \in Loop, StartLoop(r, l) PROVE TypeInv'
  BY <1>5 DEF StartLoop, ConnState, LoopAt, AwaitAt
<1>6. CASE InsertTaskHandle(r) BY <1>6 DEF InsertTaskHandle
<1> QED BY <1>1, <1>2, <1>3, <1>4, <1>5, <1>6

\* The steps of a disconnect and of a removal keep the types.
LEMMA StopTypeInv ==
  ASSUME TypeInv, NEW r \in Req,
         \/ ClearWants(r) \/ QuitGracefully(r) \/ NothingToQuit(r)
         \/ TakeTask(r) \/ NothingToStop(r) \/ StampStopped(r)
         \/ RemoveBuffers(r) \/ ForgetAccount(r) \/ DeleteAccount(r)
  PROVE  TypeInv'
<1> USE DEF TypeInv, TypeOK, RunsOK, Goto, AfterStop, Pc, StopPc, ForgetPc,
        loopVars, attemptVars, runtimeVars
<1>1. CASE ClearWants(r) BY <1>1 DEF ClearWants
<1>2. CASE QuitGracefully(r) BY <1>2 DEF QuitGracefully, SendQuit
<1>3. CASE NothingToQuit(r) BY <1>3 DEF NothingToQuit
<1>4. CASE TakeTask(r) BY <1>4 DEF TakeTask
<1>5. CASE NothingToStop(r) BY <1>5 DEF NothingToStop
<1>6. CASE StampStopped(r) BY <1>6 DEF StampStopped, ConnState
<1>7. CASE RemoveBuffers(r) BY <1>7 DEF RemoveBuffers
<1>8. CASE ForgetAccount(r) BY <1>8 DEF ForgetAccount, ConnState
<1>9. CASE DeleteAccount(r) BY <1>9 DEF DeleteAccount
<1> QED BY <1>1, <1>2, <1>3, <1>4, <1>5, <1>6, <1>7, <1>8, <1>9

\* And so does every step of a handler.
LEMMA HandlerTypeInv ==
  ASSUME TypeInv, NEW r \in Req, Handler(r) PROVE TypeInv'
BY SpawnTypeInv, StopTypeInv DEF Handler

\* The steps of a retry loop keep the types.
LEMMA LoopTypeInv ==
  ASSUME TypeInv, NEW l \in Loop,
         LoopStep(l) \/ SafetyNet(l) \/ SessionEnds(l) \/ HandleMessage(l)
  PROVE  TypeInv'
<1> USE DEF TypeInv, TypeOK, RunsOK, Step, End, LoopAt, AwaitAt, AttemptAt,
        reqVars, runtimeVars, attemptVars
<1>1. CASE AbortLands(l) BY <1>1, NoneAssumption DEF AbortLands
<1>2. ASSUME NEW a \in Attempt, StartAttempt(l, a) PROVE TypeInv'
  BY <1>2 DEF StartAttempt
<1>3. CASE ReadWants(l) BY <1>3 DEF ReadWants
<1>4. CASE FinishOrNot(l) BY <1>4 DEF FinishOrNot
<1>5. CASE FinishStamp(l) BY <1>5 DEF FinishStamp, ConnState
<1>6. CASE FinishDropIrc(l) BY <1>6 DEF FinishDropIrc
<1>7. CASE FinishDropTask(l) BY <1>7 DEF FinishDropTask
<1>8. CASE StandDownOrNot(l) BY <1>8 DEF StandDownOrNot
<1>9. CASE DropDeadSender(l) BY <1>9 DEF DropDeadSender
<1>10. CASE StampRetry(l) BY <1>10 DEF StampRetry, ConnState
<1>11. CASE SafetyNet(l) BY <1>11 DEF SafetyNet
<1>12. CASE SessionEnds(l) BY <1>12 DEF SessionEnds
<1>13. CASE HandleMessage(l) BY <1>13 DEF HandleMessage, loopVars
<1> QED BY <1>1, <1>2, <1>3, <1>4, <1>5, <1>6, <1>7, <1>8, <1>9, <1>10,
           <1>11, <1>12, <1>13 DEF LoopStep

\* The steps of an attempt keep the types.
LEMMA AttemptTypeInv ==
  ASSUME TypeInv, NEW a \in Attempt,
         AttemptStep(a) \/ EstablishFails(a) \/ Welcomed(a)
  PROVE  TypeInv'
<1> USE DEF TypeInv, TypeOK, RunsOK, End, WaiterMovesOn, LoopAt, AwaitAt,
        AttemptAt, reqVars, loopVars, runtimeVars
<1>1. CASE CancelLands(a) BY <1>1 DEF CancelLands
<1>2. CASE TellConnected(a) BY <1>2 DEF TellConnected, ConnState
<1>3. CASE Established(a) BY <1>3 DEF Established
<1>4. CASE EstablishFails(a) BY <1>4 DEF EstablishFails
<1>5. CASE Welcomed(a) BY <1>5 DEF Welcomed
<1> QED BY <1>1, <1>2, <1>3, <1>4, <1>5 DEF AttemptStep

\* So does a step in which nothing changes.
LEMMA StutterTypeInv ==
  ASSUME TypeInv, UNCHANGED vars PROVE TypeInv'
BY DEF TypeInv, TypeOK, RunsOK, vars, runtimeVars, reqVars, loopVars, attemptVars

\* Every variable keeps its type, and a loop that waits has an attempt to
\* wait for, for any sets of requests, loops and attempts.
THEOREM TypeCorrect == Spec => []TypeInv
<1>1. TypeInv /\ [Next]_vars => TypeInv'
  <2> SUFFICES ASSUME TypeInv, [Next]_vars PROVE TypeInv'
    OBVIOUS
  <2>1. ASSUME NEW r \in Req, Ask(r) \/ Handler(r) PROVE TypeInv'
    BY <2>1, AskTypeInv, HandlerTypeInv
  <2>2. ASSUME NEW l \in Loop, \/ LoopStep(l) \/ SafetyNet(l)
                               \/ SessionEnds(l) \/ HandleMessage(l)
        PROVE TypeInv'
    BY <2>2, LoopTypeInv
  <2>3. ASSUME NEW a \in Attempt,
               AttemptStep(a) \/ EstablishFails(a) \/ Welcomed(a)
        PROVE TypeInv'
    BY <2>3, AttemptTypeInv
  <2>4. CASE UNCHANGED vars BY <2>4, StutterTypeInv
  <2> QED BY <2>1, <2>2, <2>3, <2>4 DEF Next
<1> QED BY InitTypeInv, <1>1, PTL DEF Spec

\* Type correctness of the lifecycle as the runs check it.
COROLLARY TypeOKHolds == Spec => []TypeOK
<1>1. TypeInv => TypeOK BY DEF TypeInv
<1> QED BY TypeCorrect, <1>1, PTL

-----------------------------------------------------------------------------
(* One client that waits for each answer.  The strengthening says what      *)
(* holds while a request is half way: its spawn has the current generation, *)
(* the old handle is gone until the new one is put there, and a disconnect  *)
(* has already cleared the intent.                                          *)

OneAtATime == \A r, s \in Req : r = s

Stopping == {"farewell", "take", "stopped"} \cup ForgetPc

HasLoop == \E l \in Loop : Running(l) /\ gen[l] = curGen

SerialInv ==
    /\ \A r \in Req : pc[r] \in {"want", "start", "register"}
                         => claimed[r] = curGen
    /\ \A r \in Req : pc[r] \in {"claim", "want", "start", "register"}
                         => taskHandle = None
    /\ \A r \in Req : pc[r] = "register"
                         => born[r] \in Loop /\ gen[born[r]] = curGen
    /\ \A r \in Req : pc[r] \in Stopping => ~wants
    /\ taskHandle # None => gen[taskHandle] = curGen
    /\ (\A r \in Req : pc[r] \in {"idle", "register"}) /\ wants => HasLoop

IInv == TypeInv /\ SerialInv

\* At the start no spawn is half way.
LEMMA InitSerial == Init => SerialInv
BY DEF Init, SerialInv, Stopping, ForgetPc

\* A request begins only when the last one has been answered.
LEMMA AskSerial ==
  ASSUME OneAtATime, IInv, NEW r \in Req, Ask(r) PROVE SerialInv'
<1> USE DEF IInv, TypeInv, TypeOK, OneAtATime, SerialInv, Stopping, ForgetPc,
        HasLoop, Running, Live, Begin, runtimeVars, loopVars
<1>1. CASE AskConnect(r) BY <1>1 DEF AskConnect
<1>2. CASE AskAdd(r) BY <1>2 DEF AskAdd
<1>3. CASE AskDisconnect(r) BY <1>3 DEF AskDisconnect
<1>4. CASE AskRemove(r) BY <1>4 DEF AskRemove
<1> QED BY <1>1, <1>2, <1>3, <1>4 DEF Ask

\* A spawn that is alone is of the current generation to its end.
LEMMA SpawnSerial ==
  ASSUME OneAtATime, IInv, NEW r \in Req,
         \/ ResetIrc(r) \/ ResetTask(r) \/ NextGeneration(r) \/ SetWants(r)
         \/ (\E l \in Loop : StartLoop(r, l)) \/ InsertTaskHandle(r)
  PROVE  SerialInv'
<1> USE DEF IInv, TypeInv, TypeOK, OneAtATime, SerialInv, Stopping, ForgetPc,
        HasLoop, Running, Live, Goto, runtimeVars, loopVars
<1>1. CASE ResetIrc(r) BY <1>1 DEF ResetIrc
<1>2. CASE ResetTask(r) BY <1>2 DEF ResetTask
<1>3. CASE NextGeneration(r) BY <1>3 DEF NextGeneration
<1>4. CASE SetWants(r) BY <1>4 DEF SetWants
<1>5. ASSUME NEW l \in Loop, StartLoop(r, l) PROVE SerialInv'
  BY <1>5 DEF StartLoop, FreeLoop, Leaving
<1>6. CASE InsertTaskHandle(r) BY <1>6 DEF InsertTaskHandle
<1> QED BY <1>1, <1>2, <1>3, <1>4, <1>5, <1>6

\* A disconnect that is alone clears the intent before it aborts.
LEMMA StopSerial ==
  ASSUME OneAtATime, IInv, NEW r \in Req,
         \/ ClearWants(r) \/ QuitGracefully(r) \/ NothingToQuit(r)
         \/ TakeTask(r) \/ NothingToStop(r) \/ StampStopped(r)
         \/ RemoveBuffers(r) \/ ForgetAccount(r) \/ DeleteAccount(r)
  PROVE  SerialInv'
<1> USE DEF IInv, TypeInv, TypeOK, OneAtATime, SerialInv, Stopping, ForgetPc,
        HasLoop, Running, Live, Goto, AfterStop, runtimeVars, loopVars
<1>1. CASE ClearWants(r) BY <1>1 DEF ClearWants
<1>2. CASE QuitGracefully(r) BY <1>2 DEF QuitGracefully
<1>3. CASE NothingToQuit(r) BY <1>3 DEF NothingToQuit
<1>4. CASE TakeTask(r) BY <1>4 DEF TakeTask
<1>5. CASE NothingToStop(r) BY <1>5 DEF NothingToStop
<1>6. CASE StampStopped(r) BY <1>6 DEF StampStopped
<1>7. CASE RemoveBuffers(r) BY <1>7 DEF RemoveBuffers
<1>8. CASE ForgetAccount(r) BY <1>8 DEF ForgetAccount
<1>9. CASE DeleteAccount(r) BY <1>9 DEF DeleteAccount
<1> QED BY <1>1, <1>2, <1>3, <1>4, <1>5, <1>6, <1>7, <1>8, <1>9

\* A loop's step takes no intent and no generation away from the others, and
\* a running loop of the current generation leaves only when it is not wanted.
LEMMA LoopSerial ==
  ASSUME IInv, NEW l \in Loop,
         LoopStep(l) \/ SafetyNet(l) \/ SessionEnds(l) \/ HandleMessage(l)
  PROVE  SerialInv'
<1> USE DEF IInv, TypeInv, TypeOK, SerialInv, Stopping, HasLoop, Running,
        Live, Leaving, Step, AwaitAt, reqVars, runtimeVars
<1>1. CASE AbortLands(l) BY <1>1 DEF AbortLands
<1>2. ASSUME NEW a \in Attempt, StartAttempt(l, a) PROVE SerialInv'
  BY <1>2 DEF StartAttempt
<1>3. CASE ReadWants(l) BY <1>3 DEF ReadWants
<1>4. CASE FinishOrNot(l) BY <1>4 DEF FinishOrNot
<1>5. CASE FinishStamp(l) BY <1>5 DEF FinishStamp
<1>6. CASE FinishDropIrc(l) BY <1>6 DEF FinishDropIrc
<1>7. CASE FinishDropTask(l) BY <1>7 DEF FinishDropTask
<1>8. CASE StandDownOrNot(l) BY <1>8 DEF StandDownOrNot
<1>9. CASE DropDeadSender(l) BY <1>9 DEF DropDeadSender
<1>10. CASE StampRetry(l) BY <1>10 DEF StampRetry
<1>11. CASE SafetyNet(l) BY <1>11 DEF SafetyNet
<1>12. CASE SessionEnds(l) BY <1>12 DEF SessionEnds
<1>13. CASE HandleMessage(l) BY <1>13 DEF HandleMessage, loopVars
<1> QED BY <1>1, <1>2, <1>3, <1>4, <1>5, <1>6, <1>7, <1>8, <1>9, <1>10,
           <1>11, <1>12, <1>13 DEF LoopStep

\* An attempt touches neither intents nor handles.
LEMMA AttemptSerial ==
  ASSUME IInv, NEW a \in Attempt,
         AttemptStep(a) \/ EstablishFails(a) \/ Welcomed(a)
  PROVE  SerialInv'
<1> USE DEF IInv, TypeInv, TypeOK, SerialInv, Stopping, HasLoop, Running,
        Live, Leaving, WaiterMovesOn, reqVars, loopVars, runtimeVars
<1>1. CASE CancelLands(a) BY <1>1 DEF CancelLands
<1>2. CASE TellConnected(a) BY <1>2 DEF TellConnected
<1>3. CASE Established(a) BY <1>3 DEF Established
<1>4. CASE EstablishFails(a) BY <1>4 DEF EstablishFails
<1>5. CASE Welcomed(a) BY <1>5 DEF Welcomed
<1> QED BY <1>1, <1>2, <1>3, <1>4, <1>5 DEF AttemptStep

\* Every step of one client at a time keeps the invariant.
LEMMA NextSerial == OneAtATime /\ IInv /\ [Next]_vars => SerialInv'
<1> SUFFICES ASSUME OneAtATime, IInv, [Next]_vars PROVE SerialInv'
  OBVIOUS
<1>1. ASSUME NEW r \in Req, Ask(r) \/ Handler(r) PROVE SerialInv'
  BY <1>1, AskSerial, SpawnSerial, StopSerial DEF Handler
<1>2. ASSUME NEW l \in Loop, \/ LoopStep(l) \/ SafetyNet(l)
                             \/ SessionEnds(l) \/ HandleMessage(l)
      PROVE SerialInv'
  BY <1>2, LoopSerial
<1>3. ASSUME NEW a \in Attempt,
             AttemptStep(a) \/ EstablishFails(a) \/ Welcomed(a)
      PROVE SerialInv'
  BY <1>3, AttemptSerial
<1>4. CASE UNCHANGED vars
  BY <1>4 DEF IInv, SerialInv, HasLoop, Running, Live, vars, runtimeVars,
     reqVars, loopVars
<1> QED BY <1>1, <1>2, <1>3, <1>4 DEF Next

\* The inductive invariant holds of every behaviour.
LEMMA SerialCorrect == ASSUME OneAtATime PROVE Spec => []IInv
<1>1. Init => SerialInv BY InitSerial
<1>2. TypeInv /\ SerialInv /\ [Next]_vars => SerialInv'
  BY OneAtATime, NextSerial DEF IInv
<1>3. TypeInv /\ SerialInv => IInv BY DEF IInv
<1> QED BY <1>1, <1>2, <1>3, TypeCorrect, PTL DEF Spec

\* A client that waits for each answer never leaves a wanted account without
\* a loop of the current generation that goes on trying to connect it.
THEOREM WantedIsWorkedOn == ASSUME OneAtATime PROVE Spec => []WantedHasLoop
<1>1. IInv => WantedHasLoop
  BY DEF IInv, SerialInv, WantedHasLoop, HasLoop, Quiet, InFlight
<1> QED BY <1>1, SerialCorrect, PTL

\* And the task handle a disconnect would abort belongs to the newest spawn.
THEOREM HandleIsTheNewest == ASSUME OneAtATime PROVE Spec => []HandleIsCurrent
<1>1. IInv => HandleIsCurrent BY DEF IInv, SerialInv, HandleIsCurrent
<1> QED BY <1>1, SerialCorrect, PTL

-----------------------------------------------------------------------------
(* Any number of clients at once, of an account that is not removed: a      *)
(* generation is claimed by one spawn and given to one loop.                *)

\* Nobody removes the account, so the counter is never forgotten.
StaysOK == \A r \in Req : ~removing[r] /\ pc[r] \notin ForgetPc

\* A loop that has ended is nobody's waiter: no answer brings it back.
WaitsOK == \A l \in Loop : runs[l] # None => at[l] \in {"waiting", "serving"}

\* A generation that was claimed, and that no loop was given yet.
Claims(r) == pc[r] \in {"want", "start"}

ClaimOK ==
    /\ \A r \in Req : Claims(r) => claimed[r] <= curGen
    /\ \A r, s \in Req : Claims(r) /\ Claims(s) /\ claimed[r] = claimed[s] => r = s

GivenOK ==
    /\ \A l \in Loop : Live(l) => gen[l] <= curGen
    /\ \A l, m \in Loop : Live(l) /\ Live(m) /\ gen[l] = gen[m] => l = m
    /\ \A l \in Loop, r \in Req : Live(l) /\ Claims(r) => gen[l] # claimed[r]

Generations == StaysOK /\ WaitsOK /\ ClaimOK /\ GivenOK

\* At the start nothing is claimed and no loop lives.
LEMMA InitGenerations == Init => Generations
BY DEF Init, Generations, StaysOK, WaitsOK, ClaimOK, GivenOK, Claims, Live, ForgetPc

\* A step that claims nothing and starts no loop keeps them apart.
LEMMA FewerKeepApart ==
  ASSUME Generations,
         curGen' = curGen, claimed' = claimed, gen' = gen,
         \A r \in Req : Claims(r)' => Claims(r),
         \A l \in Loop : Live(l)' => Live(l)
  PROVE  ClaimOK' /\ GivenOK'
<1> USE DEF Generations
<1>1. ClaimOK'
  BY DEF ClaimOK
<1>2. GivenOK'
  BY DEF GivenOK
<1>3. QED
  BY <1>1, <1>2

\* A request that is no removal begins with nothing claimed.
LEMMA AskGenerations ==
  ASSUME ~MayRemove, TypeInv, Generations, NEW r \in Req, Ask(r)
  PROVE  Generations'
<1>1. /\ UNCHANGED <<curGen, claimed, removing, at, gen, runs>>
      /\ \/ pc' = [pc EXCEPT ![r] = "reset_irc"]
         \/ pc' = [pc EXCEPT ![r] = "unwant"]
  BY DEF Ask, AskConnect, AskAdd, AskDisconnect, AskRemove, Begin, runtimeVars, loopVars
<1>2. pc \in [Req -> Pc]
  BY DEF TypeInv, TypeOK
<1>3. /\ \A s \in Req : Claims(s)' => Claims(s)
      /\ \A l \in Loop : Live(l)' => Live(l)
  BY <1>1, <1>2 DEF Claims, Live
<1>4. ClaimOK' /\ GivenOK'
  BY <1>1, <1>3, FewerKeepApart
<1>5. StaysOK'
  BY <1>1, <1>2 DEF Generations, StaysOK, ForgetPc
<1>6. WaitsOK'
  BY <1>1 DEF Generations, WaitsOK
<1>7. QED
  BY <1>4, <1>5, <1>6 DEF Generations

\* To claim is to take a number nobody has, and to start a loop is to give
\* it away.
LEMMA HandlerGenerations ==
  ASSUME TypeInv, Generations, NEW r \in Req, Handler(r)
  PROVE  Generations'
<1>1. /\ pc \in [Req -> Pc] /\ claimed \in [Req -> Nat] /\ curGen \in Nat
      /\ at \in [Loop -> LoopAt] /\ gen \in [Loop -> Nat]
  BY DEF TypeInv, TypeOK
<1>2. StaysOK /\ WaitsOK /\ ClaimOK /\ GivenOK
  BY DEF Generations
<1>3. ASSUME UNCHANGED <<curGen, claimed, removing, at, gen, runs>>,
             NEW to \in Pc \ (ForgetPc \cup {"want"}),
             pc' = [pc EXCEPT ![r] = to], to = "start" => Claims(r)
      PROVE  Generations'
  <2>1. /\ \A s \in Req : Claims(s)' => Claims(s)
        /\ \A l \in Loop : Live(l)' => Live(l)
    BY <1>1, <1>3 DEF Claims, Live
  <2>2. ClaimOK' /\ GivenOK'
    BY <1>3, <2>1, FewerKeepApart
  <2>3. StaysOK' /\ WaitsOK'
    BY <1>1, <1>2, <1>3 DEF StaysOK, WaitsOK
  <2>4. QED
    BY <2>2, <2>3 DEF Generations
<1>4. CASE NextGeneration(r)
  <2>1. /\ pc' = [pc EXCEPT ![r] = "want"] /\ curGen' = curGen + 1
        /\ claimed' = [claimed EXCEPT ![r] = curGen + 1]
        /\ UNCHANGED <<removing, at, gen, runs>>
    BY <1>4 DEF NextGeneration, Goto, loopVars
  <2>2. \A s \in Req \ {r} : /\ Claims(s)' <=> Claims(s)
                             /\ claimed'[s] = claimed[s]
    BY <1>1, <2>1 DEF Claims
  <2>3. claimed'[r] = curGen + 1
    BY <1>1, <2>1
  <2>4. ClaimOK'
    BY <1>1, <1>2, <2>1, <2>2, <2>3 DEF ClaimOK
  <2>5. GivenOK'
    <3>1. \A l \in Loop : Live(l)' => Live(l) /\ gen[l] <= curGen /\ gen[l] \in Nat
      BY <1>1, <1>2, <2>1 DEF GivenOK, Live
    <3>2. QED
      BY <1>1, <1>2, <2>1, <2>2, <2>3, <3>1 DEF GivenOK
  <2>6. StaysOK' /\ WaitsOK'
    BY <1>1, <1>2, <2>1 DEF StaysOK, WaitsOK, ForgetPc
  <2>7. QED
    BY <2>4, <2>5, <2>6 DEF Generations
<1>5. ASSUME NEW l \in Loop, StartLoop(r, l)
      PROVE  Generations'
  <2>1. /\ pc[r] = "start" /\ pc' = [pc EXCEPT ![r] = "register"]
        /\ at' = [at EXCEPT ![l] = "pacing"] /\ gen' = [gen EXCEPT ![l] = claimed[r]]
        /\ ~Live(l) /\ UNCHANGED <<curGen, claimed, removing, runs>>
    BY <1>5 DEF StartLoop, Goto, FreeLoop
  <2>2. \A s \in Req : Claims(s)' => Claims(s) /\ s # r
    BY <1>1, <2>1 DEF Claims
  <2>3. Claims(r) /\ gen'[l] = claimed[r]
    BY <1>1, <2>1 DEF Claims
  <2>4. \A m \in Loop \ {l} : (Live(m)' => Live(m)) /\ gen'[m] = gen[m]
    BY <1>1, <2>1 DEF Live
  <2>5. ClaimOK'
    BY <1>2, <2>1, <2>2 DEF ClaimOK
  <2>6. \A m \in Loop : Live(m)' => gen'[m] <= curGen'
    BY <1>2, <2>1, <2>3, <2>4 DEF GivenOK, ClaimOK
  <2>7. ASSUME NEW m \in Loop, NEW n \in Loop, Live(m)', Live(n)', gen'[m] = gen'[n]
        PROVE  m = n
    BY <1>2, <2>3, <2>4, <2>7 DEF GivenOK
  <2>8. ASSUME NEW m \in Loop, NEW s \in Req, Live(m)', Claims(s)'
        PROVE  gen'[m] # claimed'[s]
    BY <1>2, <2>1, <2>2, <2>3, <2>4, <2>8 DEF GivenOK, ClaimOK
  <2>9. GivenOK'
    BY <2>6, <2>7, <2>8 DEF GivenOK
  <2>10. StaysOK'
    BY <1>1, <1>2, <2>1 DEF StaysOK, ForgetPc
  <2>11. WaitsOK'
    BY <1>1, <1>2, <2>1 DEF WaitsOK, Live
  <2>12. QED
    BY <2>5, <2>9, <2>10, <2>11 DEF Generations
<1>6. CASE InsertTaskHandle(r)
  <2>1. /\ pc' = [pc EXCEPT ![r] = "idle"] /\ claimed' = [claimed EXCEPT ![r] = 0]
        /\ UNCHANGED <<curGen, removing, at, gen, runs>>
    BY <1>6 DEF InsertTaskHandle, Goto, loopVars
  <2>2. \A s \in Req : Claims(s)' => Claims(s) /\ claimed'[s] = claimed[s]
    BY <1>1, <2>1 DEF Claims
  <2>3. ClaimOK' /\ GivenOK'
    BY <1>2, <2>1, <2>2 DEF ClaimOK, GivenOK, Live
  <2>4. StaysOK' /\ WaitsOK'
    BY <1>1, <1>2, <2>1 DEF StaysOK, WaitsOK, ForgetPc
  <2>5. QED
    BY <2>3, <2>4 DEF Generations
<1>7. CASE ResetIrc(r)
  BY <1>3, <1>7 DEF ResetIrc, Goto, Pc, SpawnPc, ForgetPc, loopVars
<1>8. CASE ResetTask(r)
  BY <1>3, <1>8 DEF ResetTask, Goto, Pc, SpawnPc, ForgetPc
<1>9. CASE SetWants(r)
  BY <1>3, <1>9 DEF SetWants, Goto, Pc, SpawnPc, ForgetPc, Claims, loopVars
<1>10. CASE ClearWants(r) \/ NothingToQuit(r) \/ TakeTask(r)
  BY <1>3, <1>10 DEF ClearWants, NothingToQuit, TakeTask, Goto, Pc, StopPc, ForgetPc,
                     loopVars, runtimeVars
<1>11. CASE QuitGracefully(r) \/ NothingToStop(r) \/ StampStopped(r)
  BY <1>2, <1>3, <1>11 DEF QuitGracefully, NothingToStop, StampStopped, Goto, AfterStop,
                           StaysOK, Pc, ForgetPc, loopVars, runtimeVars
<1>12. ~(RemoveBuffers(r) \/ ForgetAccount(r) \/ DeleteAccount(r))
  BY <1>2 DEF RemoveBuffers, ForgetAccount, DeleteAccount, Goto, StaysOK, ForgetPc
<1>13. QED
  BY <1>4, <1>5, <1>6, <1>7, <1>8, <1>9, <1>10, <1>11, <1>12 DEF Handler

\* A loop claims nothing and starts none.
LEMMA LoopGenerations ==
  ASSUME TypeInv, Generations, NEW l \in Loop,
         LoopStep(l) \/ SafetyNet(l) \/ SessionEnds(l) \/ HandleMessage(l)
  PROVE  Generations'
<1>1. at \in [Loop -> LoopAt] /\ runs \in [Loop -> Attempt \cup {None}]
  BY DEF TypeInv, TypeOK
<1>2. StaysOK /\ WaitsOK
  BY DEF Generations
<1>3. /\ UNCHANGED <<curGen, claimed, gen, pc, removing>>
      /\ \A m \in Loop : Live(m)' => Live(m)
  BY <1>1 DEF LoopStep, AbortLands, StartAttempt, ReadWants, FinishOrNot, FinishStamp,
     FinishDropIrc, FinishDropTask, StandDownOrNot, DropDeadSender, StampRetry, SafetyNet,
     SessionEnds, HandleMessage, Step, Live, AwaitAt, reqVars, runtimeVars, loopVars
<1>4. ClaimOK' /\ GivenOK'
  BY <1>3, FewerKeepApart DEF Claims
<1>5. StaysOK'
  BY <1>2, <1>3 DEF StaysOK
<1>6. WaitsOK'
  <2>1. CASE \E a \in Attempt : StartAttempt(l, a)
    BY <1>1, <1>2, <2>1 DEF StartAttempt, Step, WaitsOK
  <2>2. CASE AbortLands(l) \/ SafetyNet(l) \/ SessionEnds(l)
    BY <1>1, <1>2, <2>2 DEF AbortLands, SafetyNet, SessionEnds, Step, WaitsOK
  <2>3. CASE HandleMessage(l)
    BY <1>2, <2>3 DEF HandleMessage, WaitsOK, loopVars
  <2>4. CASE \/ ReadWants(l) \/ FinishOrNot(l) \/ FinishStamp(l) \/ FinishDropIrc(l)
             \/ FinishDropTask(l) \/ StandDownOrNot(l) \/ DropDeadSender(l) \/ StampRetry(l)
    BY <1>1, <1>2, <2>4 DEF ReadWants, FinishOrNot, FinishStamp, FinishDropIrc,
       FinishDropTask, StandDownOrNot, DropDeadSender, StampRetry, Step, WaitsOK
  <2>5. QED
    BY <2>1, <2>2, <2>3, <2>4 DEF LoopStep
<1>7. QED
  BY <1>4, <1>5, <1>6 DEF Generations

\* What an attempt comes to moves on only a loop that waits for it.
LEMMA AttemptGenerations ==
  ASSUME TypeInv, Generations, NEW a \in Attempt,
         AttemptStep(a) \/ EstablishFails(a) \/ Welcomed(a)
  PROVE  Generations'
<1>1. /\ at \in [Loop -> LoopAt] /\ runs \in [Loop -> Attempt \cup {None}]
      /\ a # None
  BY NoneAssumption DEF TypeInv, TypeOK
<1>2. StaysOK /\ WaitsOK
  BY DEF Generations
<1>3. /\ UNCHANGED <<curGen, claimed, gen, pc, removing>>
      /\ \/ UNCHANGED <<at, runs>>
         \/ /\ at' = [l \in Loop |-> IF runs[l] = a THEN "ended" ELSE at[l]]
            /\ runs' = [l \in Loop |-> IF runs[l] = a THEN None ELSE runs[l]]
         \/ /\ at' = [l \in Loop |-> IF runs[l] = a THEN "serving" ELSE at[l]]
            /\ UNCHANGED runs
  BY DEF AttemptStep, CancelLands, TellConnected, Established, EstablishFails, Welcomed,
     WaiterMovesOn, reqVars, runtimeVars, loopVars
<1>4. \A l \in Loop : Live(l)' => Live(l)
  BY <1>1, <1>2, <1>3 DEF WaitsOK, Live
<1>5. ClaimOK' /\ GivenOK'
  BY <1>3, <1>4, FewerKeepApart DEF Claims
<1>6. StaysOK'
  BY <1>2, <1>3 DEF StaysOK
<1>7. WaitsOK'
  BY <1>1, <1>2, <1>3 DEF WaitsOK
<1>8. QED
  BY <1>5, <1>6, <1>7 DEF Generations

\* Every step keeps generations apart, whatever other clients do meanwhile.
LEMMA NextGenerations ==
  ASSUME ~MayRemove, TypeInv, Generations, [Next]_vars PROVE Generations'
<1>1. CASE UNCHANGED vars
  BY <1>1 DEF Generations, StaysOK, WaitsOK, ClaimOK, GivenOK, Claims, Live, vars,
     runtimeVars, reqVars, loopVars
<1>2. QED
  BY <1>1, AskGenerations, HandlerGenerations, LoopGenerations, AttemptGenerations DEF Next

\* However many clients switch an account on and off at once, no two loops
\* pass the generation check at the same time, unless it is removed between.
THEOREM LoopsAreOfOneGenerationEach == ASSUME ~MayRemove PROVE Spec => []OneOwner
<1>1. TypeInv /\ Generations /\ [Next]_vars => Generations'
  BY NextGenerations
<1>2. Generations => OneOwner
  BY DEF Generations, GivenOK, OneOwner, Running
<1>3. QED
  BY <1>1, <1>2, InitGenerations, TypeCorrect, PTL DEF Spec
=============================================================================
