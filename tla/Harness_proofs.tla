--------------------------- MODULE Harness_proofs ---------------------------
(***************************************************************************)
(* Proofs about Harness, for any scripts, objects and failures: the states *)
(* are well typed, and the suite keeps the promise of SuiteContract.  The  *)
(* invariant behind both ties the history of failed calls to the frames    *)
(* that are unwinding.                                                     *)
(***************************************************************************)
EXTENDS TestSuite, SequenceTheorems, TLAPS

USE HarnessAssumption DEF vars, context, history

StackOK == stack \in Seq(Frames)
Panicking(frames) == \E i \in 1 .. Len(frames) : frames[i].panicking

\* A step of the running spec: the panic in progress is kept, or begins.
Moves ==
    /\ stack # <<>> /\ stack' # <<>>
    /\ stack' \in Seq(Frames)
    /\ UNCHANGED verdict
    /\ \/ (Panicking(stack') <=> Panicking(stack)) /\ UNCHANGED erred
       \/ Panicking(stack') /\ erred' = TRUE

OneRunning ==
    /\ stack = <<>> <=> \A s \in Specs : verdict[s] # "running"
    /\ \A s, t \in Specs : verdict[s] = "running" /\ verdict[t] = "running" => s = t

\* A spec has erred if and only if one of its frames is unwinding.
PanicIsKept == stack # <<>> => (erred <=> Panicking(stack))

IInv == TypeOK /\ OneRunning /\ PanicIsKept

----------------------------------------------------------------------------
(* The frames. *)

LEMMA TopIsFrame == StackOK /\ stack # <<>> => Depth \in Nat \ {0} /\ Top \in Frames
BY DEF StackOK, Depth, Top

LEMMA FrameWithRest ==
    ASSUME NEW fr \in Frames, NEW steps \in Seq(Steps)
    PROVE  /\ [fr EXCEPT !.rest = steps] \in Frames
           /\ [fr EXCEPT !.rest = steps].panicking = fr.panicking
BY DEF Frames

LEMMA FrameWithPanic ==
    ASSUME NEW fr \in Frames, NEW steps \in Seq(Steps)
    PROVE  /\ [fr EXCEPT !.rest = steps, !.panicking = TRUE] \in Frames
           /\ [fr EXCEPT !.rest = steps, !.panicking = TRUE].panicking = TRUE
BY DEF Frames

\* Another top frame, unwinding or not as before.
LEMMA TopReplaced ==
    ASSUME NEW f \in Seq(Frames), f # <<>>,
           NEW fr \in Frames, fr.panicking = f[Len(f)].panicking
    PROVE  LET g == [f EXCEPT ![Len(f)] = fr]
           IN g \in Seq(Frames) /\ g # <<>> /\ Len(g) = Len(f) /\ (Panicking(g) <=> Panicking(f))
<1> DEFINE g == [f EXCEPT ![Len(f)] = fr]
<1>1. Len(f) \in Nat \ {0} /\ f \in [1 .. Len(f) -> Frames]
    OBVIOUS
<1>2. g \in [1 .. Len(f) -> Frames]
    BY <1>1
<1>3. g \in Seq(Frames) /\ Len(g) = Len(f)
    BY <1>1, <1>2
<1>4. \A i \in 1 .. Len(f) : g[i].panicking = f[i].panicking
    BY <1>1
<1> QED
    BY <1>1, <1>3, <1>4 DEF Panicking

\* A callee on top starts without a panic.
LEMMA FramePushed ==
    ASSUME NEW f \in Seq(Frames), NEW steps \in Seq(Steps)
    PROVE  LET g == Append(f, NewFrame(steps))
           IN g \in Seq(Frames) /\ g # <<>> /\ (Panicking(g) <=> Panicking(f))
<1> DEFINE g == Append(f, NewFrame(steps))
<1>1. NewFrame(steps) \in Frames /\ NewFrame(steps).panicking = FALSE
    BY DEF NewFrame, Frames
<1>2. g \in Seq(Frames) /\ Len(g) = Len(f) + 1
    BY <1>1
<1>3. g[Len(g)] = NewFrame(steps) /\ \A i \in 1 .. Len(f) : g[i] = f[i]
    BY <1>1
<1>4. Len(f) \in Nat OBVIOUS
<1>5. ~g[Len(g)].panicking
    BY <1>1, <1>3
<1> HIDE DEF g
<1>6. 1 .. Len(g) = 1 .. Len(f) \cup {Len(g)}
    BY <1>2, <1>4
<1>7. Panicking(g) <=> Panicking(f)
    BY <1>3, <1>5, <1>6 DEF Panicking
<1>8. g # <<>>
    BY <1>2, <1>4
<1> QED
    BY <1>2, <1>7, <1>8 DEF g

LEMMA UnwoundPanics ==
    ASSUME NEW f \in Seq(Frames), f # <<>>
    PROVE  Unwound(f) \in Seq(Frames) /\ Unwound(f) # <<>> /\ Panicking(Unwound(f))
<1>1. Len(f) \in Nat \ {0} /\ f \in [1 .. Len(f) -> Frames]
    OBVIOUS
<1> DEFINE fr == [f[Len(f)] EXCEPT !.rest = <<>>, !.panicking = TRUE]
<1>2. fr \in Frames /\ fr.panicking = TRUE
    <2>1. f[Len(f)] \in Frames /\ <<>> \in Seq(Steps) BY <1>1
    <2> QED BY <2>1, FrameWithPanic
<1> DEFINE g == [f EXCEPT ![Len(f)] = fr]
<1>3. Unwound(f) = g
    <2>1. [f EXCEPT ![Len(f)].rest = <<>>] = [f EXCEPT ![Len(f)] = [f[Len(f)] EXCEPT !.rest = <<>>]]
        OBVIOUS
    <2> QED BY <1>1, <2>1 DEF Unwound
<1> HIDE DEF fr
<1>4. g \in [1 .. Len(f) -> Frames] /\ g[Len(f)] = fr
    BY <1>1, <1>2
<1>5. g \in Seq(Frames) /\ Len(g) = Len(f)
    BY <1>1, <1>4
<1> HIDE DEF g
<1>6. Panicking(g)
    <2>1. Len(f) \in 1 .. Len(g) BY <1>1, <1>5
    <2>2. g[Len(f)].panicking BY <1>2, <1>4
    <2> QED BY <2>1, <2>2 DEF Panicking
<1> QED
    BY <1>1, <1>3, <1>5, <1>6

LEMMA AdvancedKeeps ==
    ASSUME StackOK, stack # <<>>, Top.rest # <<>>
    PROVE  /\ Advanced \in Seq(Frames) /\ Advanced # <<>> /\ Len(Advanced) = Depth
           /\ Panicking(Advanced) <=> Panicking(stack)
<1> DEFINE fr == [Top EXCEPT !.rest = Tail(@)]
<1>1. Advanced = [stack EXCEPT ![Len(stack)] = fr]
    BY DEF Advanced, Top, Depth
<1>2. fr \in Frames /\ fr.panicking = stack[Len(stack)].panicking
    <2>1. Top \in Frames BY TopIsFrame
    <2>2. Tail(Top.rest) \in Seq(Steps) BY <2>1 DEF Frames
    <2> QED BY <2>1, <2>2, FrameWithRest DEF Top, Depth
<1> QED
    BY <1>1, <1>2, TopReplaced DEF StackOK, Depth

\* The step at hand and its argument are of their kinds.
LEMMA StepTyped ==
    ASSUME StackOK, NEW op, At(op)
    PROVE  /\ stack # <<>> /\ Top.rest # <<>> /\ Head(Top.rest) \in Steps
           /\ op \in ObjectOps => Arg \in Objects
           /\ op \in ScriptOps => Arg \in Scripts
<1>1. stack # <<>> /\ Top.rest # <<>> /\ Head(Top.rest).op = op
    BY DEF At
<1>2. Head(Top.rest) \in Steps
    BY <1>1, TopIsFrame DEF Frames
<1> QED
    BY <1>1, <1>2 DEF Steps, Arg, ObjectOps, ScriptOps, PlainOps

LEMMA AdvanceMoves ==
    ASSUME StackOK, NEW op, At(op), Advance, UNCHANGED <<verdict, erred>> PROVE Moves
BY StepTyped, AdvancedKeeps DEF Moves, Advance

LEMMA PanicMoves ==
    ASSUME StackOK, stack # <<>>, Panic, UNCHANGED verdict PROVE Moves
BY UnwoundPanics DEF StackOK, Moves, Panic

LEMMA EnterMoves ==
    ASSUME StackOK, NEW op, At(op), NEW steps \in Seq(Steps), Enter(steps),
           UNCHANGED <<verdict, erred>>
    PROVE  Moves
<1>1. /\ Advanced \in Seq(Frames) /\ (Panicking(Advanced) <=> Panicking(stack))
      /\ stack # <<>>
    BY StepTyped, AdvancedKeeps
<1> QED
    BY <1>1, FramePushed DEF Moves, Enter

----------------------------------------------------------------------------
(* The steps of the running spec. *)

LEMMA BodyTyped == \A s \in Scripts : Body[s] \in Seq(Steps)
OBVIOUS

\* Popping a frame: what it was unwinding goes on in its caller.
LEMMA CallerKeeps ==
    ASSUME StackOK, stack # <<>>, Depth > 1
    PROVE  /\ Caller \in Seq(Frames) /\ Caller # <<>>
           /\ Panicking(Caller) <=> Panicking(stack)
<1> DEFINE frames == SubSeq(stack, 1, Depth - 1)
<1>2. Depth \in Nat \ {0} /\ Depth = Len(stack)
    BY TopIsFrame DEF Depth
<1>1. /\ frames \in Seq(Frames) /\ frames # <<>> /\ Len(frames) = Depth - 1
      /\ \A i \in 1 .. Depth - 1 : frames[i] = stack[i]
    <2>1. \A i \in 1 .. Depth - 1 : stack[i] \in Frames BY <1>2 DEF StackOK
    <2>2. /\ frames \in Seq(Frames) /\ Len(frames) = Depth - 1
          /\ \A i \in 1 .. Depth - 1 : frames[i] = stack[i]
        BY <1>2, <2>1, SubSeqProperties
    <2> HIDE DEF frames
    <2>3. frames # <<>> BY <1>2, <2>2
    <2> QED BY <2>2, <2>3
<1> HIDE DEF frames
<1>3. CASE Top.panicking
    <2>1. Caller = Unwound(frames) BY <1>3 DEF Caller, frames
    <2>2. Panicking(stack)
        <3>1. Depth \in 1 .. Len(stack) BY <1>2
        <3>2. stack[Depth].panicking BY <1>3 DEF Top
        <3> QED BY <3>1, <3>2 DEF Panicking
    <2> QED BY <1>1, <2>1, <2>2, UnwoundPanics
<1>4. CASE ~Top.panicking
    <2>1. Caller = frames BY <1>4 DEF Caller, frames
    <2>2. Panicking(frames) <=> Panicking(stack)
        <3>1. ASSUME NEW i \in 1 .. Len(stack), stack[i].panicking
              PROVE  i \in 1 .. Len(frames) /\ frames[i].panicking
            BY <3>1, <1>1, <1>2, <1>4 DEF Top
        <3>2. ASSUME NEW i \in 1 .. Len(frames), frames[i].panicking
              PROVE  i \in 1 .. Len(stack) /\ stack[i].panicking
            BY <3>2, <1>1, <1>2
        <3> QED BY <3>1, <3>2 DEF Panicking
    <2> QED BY <1>1, <2>1, <2>2
<1> QED BY <1>3, <1>4

LEMMA FrameWithDefers ==
    ASSUME NEW fr \in Frames, NEW defers \in Seq(Scripts)
    PROVE  /\ [fr EXCEPT !.defers = defers] \in Frames
           /\ [fr EXCEPT !.defers = defers].panicking = fr.panicking
BY DEF Frames

LEMMA GoStepMoves == TypeOK /\ GoStep => Moves
<1> SUFFICES ASSUME StackOK, TypeOK, GoStep PROVE Moves
    BY DEF TypeOK, StackOK
<1>1. CASE Return
    BY <1>1, CallerKeeps DEF Return, Finished, Moves
<1>2. CASE RunDeferred
    <2> DEFINE fr == [Top EXCEPT !.defers = Tail(@)]
               g == [stack EXCEPT ![Len(stack)] = fr]
    <2>1. /\ stack # <<>> /\ Top.defers # <<>> /\ UNCHANGED <<verdict, erred>>
          /\ stack' = Append(g, NewFrame(Body[Head(Top.defers)]))
        BY <1>2 DEF RunDeferred, Top, Depth
    <2>2. Top \in Frames BY <2>1, TopIsFrame
    <2>3. Tail(Top.defers) \in Seq(Scripts) /\ Head(Top.defers) \in Scripts
        BY <2>1, <2>2 DEF Frames
    <2>4. fr \in Frames /\ fr.panicking = stack[Len(stack)].panicking
        BY <2>2, <2>3, FrameWithDefers DEF Top, Depth
    <2>5. g \in Seq(Frames) /\ (Panicking(g) <=> Panicking(stack))
        BY <2>1, <2>4, TopReplaced DEF StackOK
    <2> HIDE DEF g, fr
    <2> QED BY <2>1, <2>3, <2>5, BodyTyped, FramePushed DEF Moves
<1>3. CASE Call
    <2>1. Arg \in Scripts BY <1>3, StepTyped DEF Call, ScriptOps
    <2> QED BY <1>3, <2>1, BodyTyped, EnterMoves DEF Call
<1>4. CASE Defer
    <2>1. /\ At("defer") /\ UNCHANGED <<verdict, erred>>
          /\ stack' = [Advanced EXCEPT ![Depth].defers = <<Arg>> \o @]
        BY <1>4 DEF Defer
    <2>2. stack # <<>> /\ Top.rest # <<>> /\ Arg \in Scripts
        BY <2>1, StepTyped DEF ScriptOps
    <2>3. /\ Advanced \in Seq(Frames) /\ Advanced # <<>> /\ Len(Advanced) = Depth
          /\ Panicking(Advanced) <=> Panicking(stack)
        BY <2>2, AdvancedKeeps
    <2> DEFINE last == Advanced[Len(Advanced)]
               fr == [last EXCEPT !.defers = <<Arg>> \o @]
    <2>4. last \in Frames BY <2>3
    <2>5. <<Arg>> \o last.defers \in Seq(Scripts)
        BY <2>2, <2>4 DEF Frames
    <2>6. fr \in Frames /\ fr.panicking = last.panicking
        BY <2>4, <2>5, FrameWithDefers
    <2>7. stack' = [Advanced EXCEPT ![Len(Advanced)] = fr]
        BY <2>1, <2>3
    <2> HIDE DEF fr
    <2> HIDE DEF last
    <2>8. fr.panicking = Advanced[Len(Advanced)].panicking BY <2>6 DEF last
    <2>9. stack' \in Seq(Frames) /\ stack' # <<>> /\ (Panicking(stack') <=> Panicking(Advanced))
        BY <2>3, <2>6, <2>7, <2>8, TopReplaced
    <2> QED BY <2>1, <2>2, <2>3, <2>9 DEF Moves
<1> QED BY <1>1, <1>2, <1>3, <1>4 DEF GoStep

LEMMA CleanupCallsTyped == TypeOK => CleanupCalls \in Seq(Steps)
<1> SUFFICES ASSUME cleanups \in Seq(Scripts) PROVE CleanupCalls \in Seq(Steps)
    BY DEF TypeOK
<1>1. Len(cleanups) \in Nat OBVIOUS
<1>2. \A i \in 1 .. Len(cleanups) : cleanups[Len(cleanups) + 1 - i] \in Scripts
    BY <1>1
<1>3. \A s \in Scripts : [op |-> "call", arg |-> s] \in Steps
    BY DEF Steps, ScriptOps
<1>4. CleanupCalls \in [1 .. Len(cleanups) -> Steps]
    BY <1>2, <1>3 DEF CleanupCalls
<1> DEFINE n == Len(cleanups)
<1>5. n \in Nat /\ CleanupCalls \in [1 .. n -> Steps] BY <1>1, <1>4
<1> HIDE DEF n
<1> QED BY <1>5

LEMMA ContextStepMoves == TypeOK /\ ContextStep => Moves
<1> SUFFICES ASSUME StackOK, TypeOK, ContextStep PROVE Moves
    BY DEF TypeOK, StackOK
<1>1. CASE ExecuteCleanups
    BY <1>1, CleanupCallsTyped, EnterMoves DEF ExecuteCleanups
<1>2. CASE NewContext BY <1>2, AdvanceMoves DEF NewContext
<1>3. CASE Name BY <1>3, AdvanceMoves DEF Name
<1>4. CASE Installed BY <1>4, AdvanceMoves DEF Installed
<1>5. CASE RegisterCleanup BY <1>5, AdvanceMoves DEF RegisterCleanup
<1>6. CASE SkipRegister BY <1>6, AdvanceMoves DEF SkipRegister
<1> QED BY <1>1, <1>2, <1>3, <1>4, <1>5, <1>6 DEF ContextStep

LEMMA ApiStepMoves == TypeOK /\ ApiStep => Moves
<1> SUFFICES ASSUME StackOK, TypeOK, ApiStep PROVE Moves
    BY DEF TypeOK, StackOK
<1>1. CASE Pass BY <1>1, AdvanceMoves DEF Pass
<1>2. CASE CreateObject BY <1>2, AdvanceMoves DEF CreateObject
<1>3. CASE DeleteObject BY <1>3, AdvanceMoves DEF DeleteObject
<1>4. CASE EraseFile BY <1>4, AdvanceMoves DEF EraseFile
<1>5. CASE ReadFile BY <1>5, AdvanceMoves DEF ReadFile
<1>6. CASE ReturnIfInstalled
    <2>1. /\ At("returnIfInstalled") /\ UNCHANGED <<verdict, erred>>
          /\ Advance \/ stack' = [stack EXCEPT ![Depth].rest = <<>>]
        BY <1>6 DEF ReturnIfInstalled
    <2>2. CASE Advance BY <2>1, <2>2, AdvanceMoves
    <2>3. CASE stack' = [stack EXCEPT ![Depth].rest = <<>>]
        <3> DEFINE fr == [Top EXCEPT !.rest = <<>>]
        <3>1. stack # <<>> BY <2>1, StepTyped
        <3>2. Top \in Frames /\ <<>> \in Seq(Steps) BY <3>1, TopIsFrame
        <3>3. fr \in Frames /\ fr.panicking = stack[Len(stack)].panicking
            BY <3>2, FrameWithRest DEF Top, Depth
        <3>4. stack' = [stack EXCEPT ![Len(stack)] = fr]
            BY <2>3 DEF Top, Depth
        <3> HIDE DEF fr
        <3> QED BY <2>1, <3>1, <3>3, <3>4, TopReplaced DEF Moves, StackOK
    <2> QED BY <2>1, <2>2, <2>3
<1>7. CASE PollDone BY <1>7, AdvanceMoves DEF PollDone, Observed
<1>8. CASE GiveUpQuietly BY <1>8, AdvanceMoves DEF GiveUpQuietly
<1>9. CASE SilentFailure BY <1>9, AdvanceMoves DEF SilentFailure
<1>10. CASE Deadline BY <1>10, PanicMoves DEF Deadline, At
<1>11. CASE Refused BY <1>11, PanicMoves DEF Refused, Refusal, At
<1>12. CASE Misfortune BY <1>12, PanicMoves DEF Misfortune, At
<1> QED
    BY <1>1, <1>2, <1>3, <1>4, <1>5, <1>6, <1>7, <1>8, <1>9, <1>10, <1>11, <1>12
    DEF ApiStep

----------------------------------------------------------------------------
(* Type correctness. *)

LEMMA StartsTyped == \A s \in Scripts : <<NewFrame(Body[s])>> \in Seq(Frames)
BY BodyTyped DEF NewFrame, Frames

LEMMA StackStep == TypeOK /\ [Next]_vars => StackOK'
<1> SUFFICES ASSUME TypeOK, StackOK, [Next]_vars PROVE StackOK'
    BY DEF TypeOK, StackOK
<1>1. ASSUME NEW s \in Specs, StartSpec(s) PROVE StackOK'
    BY <1>1, StartsTyped DEF StartSpec, StackOK
<1>2. ASSUME NEW s \in Specs, EndSpec(s) PROVE StackOK'
    BY <1>2 DEF EndSpec, StackOK
<1>3. CASE GoStep BY <1>3, GoStepMoves DEF Moves, StackOK
<1>4. CASE ContextStep BY <1>4, ContextStepMoves DEF Moves, StackOK
<1>5. CASE ApiStep BY <1>5, ApiStepMoves DEF Moves, StackOK
<1>6. CASE UNCHANGED stack BY <1>6 DEF StackOK
<1> QED
    BY <1>1, <1>2, <1>3, <1>4, <1>5, <1>6
    DEF Next, HarnessStep, Ginkgo, ClusterStep, ControllerCreates, BecomesReady,
        Collected, Vanishes, Terminated

ContextOK == cleanups \in Seq(Scripts) /\ named \in BOOLEAN /\ deployed \in BOOLEAN

LEMMA ContextTyped == TypeOK /\ [Next]_vars => ContextOK'
<1> SUFFICES ASSUME TypeOK, StackOK, ContextOK, [Next]_vars PROVE ContextOK'
    BY DEF TypeOK, StackOK, ContextOK
<1>0. <<>> \in Seq(Scripts) OBVIOUS
<1>1. ASSUME NEW s \in Specs, StartSpec(s) PROVE ContextOK'
    <2>1. cleanups' = <<>> /\ named' = FALSE /\ deployed' = FALSE BY <1>1 DEF StartSpec
    <2> QED BY <1>0, <2>1 DEF ContextOK
<1>2. CASE NewContext
    <2>1. cleanups' = <<>> /\ named' = FALSE /\ deployed' = FALSE BY <1>2 DEF NewContext
    <2> QED BY <1>0, <2>1 DEF ContextOK
<1>3. CASE Name BY <1>3 DEF Name, ContextOK
<1>4. CASE Installed BY <1>4 DEF Installed, ContextOK
<1>5. CASE RegisterCleanup
    <2>1. Arg \in Scripts BY <1>5, StepTyped DEF RegisterCleanup, ScriptOps
    <2> QED BY <1>5, <2>1 DEF RegisterCleanup, ContextOK
<1>6. CASE ReturnIfInstalled BY <1>6 DEF ReturnIfInstalled, ContextOK
<1>7. CASE UNCHANGED context BY <1>7 DEF ContextOK
<1> QED
    BY <1>1, <1>2, <1>3, <1>4, <1>5, <1>6, <1>7
    DEF Next, HarnessStep, Ginkgo, EndSpec, GoStep, Return, RunDeferred, Call, Defer,
        ContextStep, SkipRegister, ExecuteCleanups, ApiStep, Pass, CreateObject,
        DeleteObject, EraseFile, ReadFile, PollDone, Deadline, GiveUpQuietly, Refused,
        Misfortune, SilentFailure, ClusterStep, ControllerCreates, BecomesReady,
        Collected, Vanishes, Terminated

ClusterOK == cluster \in [Objects -> Status]

LEMMA ClusterTyped == TypeOK /\ [Next]_vars => ClusterOK'
<1> SUFFICES ASSUME ClusterOK, [Next]_vars PROVE ClusterOK'
    BY DEF TypeOK, ClusterOK
<1> USE DEF ClusterOK, Status
<1>1. CASE CreateObject BY <1>1 DEF CreateObject, Born
<1>2. CASE DeleteObject BY <1>2 DEF DeleteObject
<1>3. CASE EraseFile BY <1>3 DEF EraseFile
<1>4. ASSUME NEW o \in Objects,
             ControllerCreates(o) \/ BecomesReady(o) \/ Collected(o) \/ Vanishes(o)
      PROVE  ClusterOK'
    BY <1>4 DEF ControllerCreates, BecomesReady, Collected, Vanishes
<1>5. CASE UNCHANGED cluster BY <1>5
<1> QED
    BY <1>1, <1>2, <1>3, <1>4, <1>5
    DEF Next, HarnessStep, Ginkgo, StartSpec, EndSpec, GoStep, Return, RunDeferred, Call,
        Defer, ContextStep, NewContext, Name, Installed, RegisterCleanup, SkipRegister,
        ExecuteCleanups, ApiStep, Pass, ReadFile, ReturnIfInstalled, PollDone, Deadline,
        GiveUpQuietly, Refused, Misfortune, SilentFailure, ClusterStep, Terminated

ReportOK ==
    verdict \in [Specs -> Verdicts] /\ mishap \in BOOLEAN /\ erred \in BOOLEAN

LEMMA ReportTyped == TypeOK /\ [Next]_vars => ReportOK'
<1> SUFFICES ASSUME ReportOK, [Next]_vars PROVE ReportOK'
    BY DEF TypeOK, ReportOK
<1> USE DEF ReportOK
<1>1. ASSUME NEW s \in Specs, StartSpec(s) PROVE ReportOK'
    BY <1>1 DEF StartSpec, Verdicts
<1>2. ASSUME NEW s \in Specs, EndSpec(s) PROVE ReportOK'
    BY <1>2 DEF EndSpec, Verdicts
<1>3. CASE UNCHANGED verdict /\ mishap' \in BOOLEAN /\ erred' \in BOOLEAN BY <1>3
<1> QED
    BY <1>1, <1>2, <1>3
    DEF Next, HarnessStep, Ginkgo, GoStep, Return, RunDeferred, Call, Defer, ContextStep,
        NewContext, Name, Installed, RegisterCleanup, SkipRegister, ExecuteCleanups,
        ApiStep, Pass, CreateObject, DeleteObject, EraseFile, ReadFile,
        ReturnIfInstalled, PollDone, Deadline, GiveUpQuietly, Refused, Misfortune,
        SilentFailure, Panic, ClusterStep, ControllerCreates, BecomesReady, Collected,
        Vanishes, Terminated

LEMMA TypeStep == TypeOK /\ [Next]_vars => TypeOK'
<1> SUFFICES ASSUME TypeOK, [Next]_vars PROVE TypeOK'
    OBVIOUS
<1> QED
    BY StackStep, ContextTyped, ClusterTyped, ReportTyped
    DEF StackOK, ContextOK, ClusterOK, ReportOK, TypeOK

----------------------------------------------------------------------------
(* The report. *)

\* Every step is of one of four kinds.
LEMMA StepKinds ==
    ASSUME TypeOK, [Next]_vars
    PROVE  \/ \E s \in Specs : StartSpec(s)
           \/ \E s \in Specs : EndSpec(s)
           \/ Moves
           \/ UNCHANGED <<stack, verdict, erred>>
BY GoStepMoves, ContextStepMoves, ApiStepMoves
   DEF Next, HarnessStep, Ginkgo, ClusterStep, ControllerCreates, BecomesReady, Collected,
       Vanishes, Terminated

LEMMA OneRunningStep == TypeOK /\ OneRunning /\ [Next]_vars => OneRunning'
<1> SUFFICES ASSUME TypeOK, OneRunning, [Next]_vars PROVE OneRunning'
    OBVIOUS
<1>0. verdict \in [Specs -> Verdicts] BY DEF TypeOK
<1>1. ASSUME NEW s \in Specs, StartSpec(s) PROVE OneRunning'
    <2>1. stack = <<>> /\ stack' # <<>> /\ verdict' = [verdict EXCEPT ![s] = "running"]
        BY <1>1 DEF StartSpec
    <2> QED BY <1>0, <2>1 DEF OneRunning
<1>2. ASSUME NEW s \in Specs, EndSpec(s) PROVE OneRunning'
    <2>1. PICK v \in {"passed", "failed"} : verdict' = [verdict EXCEPT ![s] = v]
        BY <1>2 DEF EndSpec
    <2>2. verdict[s] = "running" /\ stack' = <<>> BY <1>2 DEF EndSpec
    <2> QED BY <1>0, <2>1, <2>2 DEF OneRunning
<1>3. CASE Moves BY <1>3 DEF Moves, OneRunning
<1>4. CASE UNCHANGED <<stack, verdict, erred>> BY <1>4 DEF OneRunning
<1> QED BY <1>1, <1>2, <1>3, <1>4, StepKinds

LEMMA PanicIsKeptStep == TypeOK /\ PanicIsKept /\ [Next]_vars => PanicIsKept'
<1> SUFFICES ASSUME TypeOK, PanicIsKept, [Next]_vars PROVE PanicIsKept'
    OBVIOUS
<1>0. erred \in BOOLEAN BY DEF TypeOK
<1>1. ASSUME NEW s \in Specs, StartSpec(s) PROVE PanicIsKept'
    <2>1. stack' = <<NewFrame(Body[s])>> /\ erred' = FALSE BY <1>1 DEF StartSpec
    <2>2. Len(stack') = 1 /\ stack'[1].panicking = FALSE BY <2>1 DEF NewFrame
    <2> QED BY <2>1, <2>2 DEF PanicIsKept, Panicking
<1>2. ASSUME NEW s \in Specs, EndSpec(s) PROVE PanicIsKept'
    BY <1>2 DEF EndSpec, PanicIsKept
<1>3. CASE Moves BY <1>3, <1>0 DEF Moves, PanicIsKept
<1>4. CASE UNCHANGED <<stack, verdict, erred>> BY <1>4 DEF PanicIsKept, Panicking
<1> QED BY <1>1, <1>2, <1>3, <1>4, StepKinds

LEMMA InitIInv == Init => IInv
<1> SUFFICES ASSUME Init PROVE IInv
    OBVIOUS
<1>1. TypeOK
    <2>1. stack = <<>> /\ cleanups = <<>> BY DEF Init
    <2>2. <<>> \in Seq(Frames) /\ <<>> \in Seq(Scripts) OBVIOUS
    <2>3. cluster \in [Objects -> Status] /\ verdict \in [Specs -> Verdicts]
        BY DEF Init, Status, Verdicts
    <2> QED BY <2>1, <2>2, <2>3 DEF Init, TypeOK
<1>2. OneRunning /\ PanicIsKept BY DEF Init, OneRunning, PanicIsKept
<1> QED BY <1>1, <1>2 DEF IInv

\* IInv holds in every state of every behaviour, for any scripts and failures.
THEOREM Invariance == Spec => []IInv
<1>1. IInv /\ [Next]_vars => IInv'
    BY TypeStep, OneRunningStep, PanicIsKeptStep DEF IInv
<1> QED BY InitIInv, <1>1, PTL DEF Spec

\* The frames, the context, the cluster and the report stay well formed: a panic
\* never leaves the interpreter with a frame or a cleanup that is none.
THEOREM TypeCorrectness == Spec => []TypeOK
BY Invariance, PTL DEF IInv

\* suite.go:162-171: whatever the scripts do, the specs run one at a time, and one
\* is reported failed exactly if a call it checked failed, at whatever depth.
THEOREM ReportIsTrue == Spec => ImplementsContract
<1>1. Init => Contract!Init
    BY DEF Init, Contract!Init
<1>2. IInv /\ [Next]_vars => [Contract!Next]_<<verdict, erred>>
    <2> SUFFICES ASSUME IInv, [Next]_vars PROVE [Contract!Next]_<<verdict, erred>>
        OBVIOUS
    <2> USE DEF IInv
    <2>1. ASSUME NEW s \in Specs, StartSpec(s) PROVE Contract!Start(s)
        BY <2>1 DEF StartSpec, OneRunning, Contract!Start, Contract!Idle
    <2>2. ASSUME NEW s \in Specs, EndSpec(s) PROVE Contract!End(s)
        <3>1. Len(stack) = 1 /\ stack # <<>> BY <2>2 DEF EndSpec, Finished, Depth
        <3>2. Top = stack[1] BY <3>1 DEF Top, Depth
        <3>3. erred <=> Top.panicking
            BY <3>1, <3>2 DEF PanicIsKept, Panicking
        <3> QED BY <2>2, <3>3 DEF EndSpec, Contract!End
    <2>3. CASE Moves
        <3>1. CASE UNCHANGED erred BY <2>3, <3>1 DEF Moves
        <3>2. CASE erred' = TRUE
            <4>1. ~Contract!Idle BY <2>3 DEF Moves, OneRunning, Contract!Idle
            <4>2. Contract!Err BY <2>3, <3>2, <4>1 DEF Moves, Contract!Err
            <4> QED BY <4>2 DEF Contract!Next
        <3> QED BY <2>3, <3>1, <3>2 DEF Moves
    <2>4. CASE UNCHANGED <<stack, verdict, erred>> BY <2>4
    <2> QED BY <2>1, <2>2, <2>3, <2>4, StepKinds DEF Contract!Next
<1> QED
    BY Invariance, <1>1, <1>2, PTL
    DEF Spec, ImplementsContract, Contract!Spec, Contract!vars
=============================================================================
