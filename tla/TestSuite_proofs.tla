-------------------------- MODULE TestSuite_proofs --------------------------
(***************************************************************************)
(* What the order of the calls in the scripts is good for: a theorem about *)
(* any scripts that wait for a registry to be gone before they touch its   *)
(* storage.  Waits that time out, refused calls and panics at any depth    *)
(* only ever drop the calls that follow, so that the storage is reached    *)
(* through the wait or not at all.                                         *)
(***************************************************************************)
EXTENDS Harness_proofs

Removals == {"delete", "deleteQuietly", "deleteIfFound", "deleteRegistry"}

\* The step takes away what registry r works with; waits until r is gone; or makes r,
\* itself or through a script it enters.
Takes(step, r) == step.op \in Removals /\ DependsOn(r, step.arg)
Awaits(step, r) == step.op = "awaitGone" /\ step.arg = r
MayMake(step, r) ==
    \/ step.op \in {"create", "apply", "attempt"} /\ step.arg = r
    \/ step.op \in {"call", "cleanups"}

Unmade(s, r, from, to) == \A k \in from .. to : ~MayMake(s[k], r)

\* What takes the storage of r comes after a wait for r to be gone, and r is not made
\* in between.
Guarded(s, r) ==
    \A i \in 1 .. Len(s) :
        Takes(s[i], r) => \E j \in 1 .. i - 1 : Awaits(s[j], r) /\ Unmade(s, r, j + 1, i - 1)

\* The same of what is left of a script that has waited already.
GuardedOnceGone(s, r) ==
    \A i \in 1 .. Len(s) :
        Takes(s[i], r) =>
            \/ \E j \in 1 .. i - 1 : Awaits(s[j], r) /\ Unmade(s, r, j + 1, i - 1)
            \/ Unmade(s, r, 1, i - 1)

\* The condition on the scripts; and no controller makes a registry.
WaitsForRegistries ==
    /\ Registries \subseteq Objects
    /\ \A r \in Registries : Maker[r] = None /\ \A s \in Scripts : Guarded(Body[s], r)

\* The innermost frame may have waited; every other one is to make a call first.
FrameGuarded(f, n, r) ==
    \/ Guarded(f[n].rest, r)
    \/ n = Len(f) /\ cluster[r] \notin Live /\ GuardedOnceGone(f[n].rest, r)

StorageGuarded == \A r \in Registries : \A n \in 1 .. Len(stack) : FrameGuarded(stack, n, r)

----------------------------------------------------------------------------
(* What is left of a list of steps when the first one is done. *)

LEMMA TailIndices ==
    ASSUME NEW s \in Seq(Steps), s # <<>>
    PROVE  /\ Len(s) \in Nat \ {0} /\ Tail(s) \in Seq(Steps) /\ Len(Tail(s)) = Len(s) - 1
           /\ Head(s) = s[1]
           /\ \A i \in 1 .. Len(Tail(s)) : Tail(s)[i] = s[i + 1] /\ i + 1 \in 1 .. Len(s)
OBVIOUS

LEMMA EmptyGuarded == ASSUME NEW r PROVE Guarded(<<>>, r)
BY DEF Guarded

LEMMA GuardedIsOnceGone ==
    ASSUME NEW s, NEW r, Guarded(s, r)
    PROVE  GuardedOnceGone(s, r)
BY DEF Guarded, GuardedOnceGone

\* What is unmade between two later steps is so in the tail.
LEMMA TailUnmade ==
    ASSUME NEW s \in Seq(Steps), s # <<>>, NEW r, NEW from \in Nat \ {0}, NEW to \in Nat,
           to <= Len(s) - 1, Unmade(s, r, from + 1, to + 1)
    PROVE  Unmade(Tail(s), r, from, to)
<1> SUFFICES ASSUME NEW k \in from .. to PROVE ~MayMake(Tail(s)[k], r)
    BY DEF Unmade
<1>1. k \in 1 .. Len(Tail(s)) /\ k + 1 \in from + 1 .. to + 1
    BY TailIndices
<1>2. Tail(s)[k] = s[k + 1]
    BY <1>1, TailIndices
<1> QED BY <1>1, <1>2 DEF Unmade

LEMMA GuardedTail ==
    ASSUME NEW s \in Seq(Steps), s # <<>>, NEW r, Guarded(s, r)
    PROVE  /\ ~Takes(Head(s), r)
           /\ Awaits(Head(s), r) => GuardedOnceGone(Tail(s), r)
           /\ ~Awaits(Head(s), r) => Guarded(Tail(s), r)
<1>1. Len(s) \in Nat \ {0} /\ Len(Tail(s)) = Len(s) - 1 /\ Head(s) = s[1]
    BY TailIndices
<1>2. ~Takes(Head(s), r)
    <2>1. 1 \in 1 .. Len(s) /\ ~\E j \in 1 .. 1 - 1 : TRUE BY <1>1
    <2> QED BY <1>1, <2>1 DEF Guarded
<1>3. ASSUME NEW i \in 1 .. Len(Tail(s)), Takes(Tail(s)[i], r)
      PROVE  \/ Awaits(Head(s), r) /\ Unmade(Tail(s), r, 1, i - 1)
             \/ \E j \in 1 .. i - 1 : Awaits(Tail(s)[j], r) /\ Unmade(Tail(s), r, j + 1, i - 1)
    <2>1. Tail(s)[i] = s[i + 1] /\ i + 1 \in 1 .. Len(s) BY TailIndices
    <2>2. PICK j \in 1 .. i + 1 - 1 : Awaits(s[j], r) /\ Unmade(s, r, j + 1, i + 1 - 1)
        BY <1>3, <2>1 DEF Guarded
    <2>3. j \in 1 .. i /\ i + 1 - 1 = i - 1 + 1 BY <2>2
    <2>4. Unmade(s, r, j + 1, i - 1 + 1) BY <2>2, <2>3
    <2>5. Unmade(Tail(s), r, j, i - 1)
        BY <1>1, <2>3, <2>4, TailUnmade
    <2>6. CASE j = 1
        BY <1>1, <2>2, <2>5, <2>6
    <2>7. CASE j # 1
        <3>1. j - 1 \in 1 .. i - 1 /\ j - 1 \in 1 .. Len(Tail(s)) /\ j - 1 + 1 = j
            BY <1>1, <2>3, <2>7
        <3>2. Tail(s)[j - 1] = s[j] BY <3>1, TailIndices
        <3> QED BY <2>2, <2>5, <3>1, <3>2
    <2> QED BY <2>6, <2>7
<1> QED BY <1>2, <1>3 DEF Guarded, GuardedOnceGone

LEMMA GuardedOnceGoneTail ==
    ASSUME NEW s \in Seq(Steps), s # <<>>, NEW r, GuardedOnceGone(s, r)
    PROVE  /\ MayMake(Head(s), r) => Guarded(Tail(s), r)
           /\ ~MayMake(Head(s), r) => GuardedOnceGone(Tail(s), r)
<1>1. Len(s) \in Nat \ {0} /\ Len(Tail(s)) = Len(s) - 1 /\ Head(s) = s[1]
    BY TailIndices
<1>2. ASSUME NEW i \in 1 .. Len(Tail(s)), Takes(Tail(s)[i], r)
      PROVE  \/ ~MayMake(Head(s), r) /\ Unmade(Tail(s), r, 1, i - 1)
             \/ \E j \in 1 .. i - 1 : Awaits(Tail(s)[j], r) /\ Unmade(Tail(s), r, j + 1, i - 1)
    <2>1. Tail(s)[i] = s[i + 1] /\ i + 1 \in 1 .. Len(s) /\ i + 1 - 1 = i - 1 + 1
        BY TailIndices
    <2>2. CASE Unmade(s, r, 1, i + 1 - 1)
        <3>1. ~MayMake(Head(s), r)
            <4>1. 1 \in 1 .. i + 1 - 1 OBVIOUS
            <4> QED BY <1>1, <2>2, <4>1 DEF Unmade
        <3>2. Unmade(s, r, 1 + 1, i - 1 + 1)
            BY <2>2 DEF Unmade
        <3> QED BY <1>1, <3>1, <3>2, TailUnmade
    <2>3. ASSUME NEW j \in 1 .. i + 1 - 1, Awaits(s[j], r), Unmade(s, r, j + 1, i + 1 - 1)
          PROVE  \/ ~MayMake(Head(s), r) /\ Unmade(Tail(s), r, 1, i - 1)
                 \/ \E k \in 1 .. i - 1 : Awaits(Tail(s)[k], r) /\ Unmade(Tail(s), r, k + 1, i - 1)
        <3>1. j \in 1 .. i /\ Unmade(s, r, j + 1, i - 1 + 1) BY <2>1, <2>3
        <3>2. Unmade(Tail(s), r, j, i - 1)
            BY <1>1, <3>1, TailUnmade
        <3>3. CASE j = 1
            <4>1. ~MayMake(Head(s), r)
                BY <1>1, <2>3, <3>3 DEF Awaits, MayMake
            <4> QED BY <3>2, <3>3, <4>1
        <3>4. CASE j # 1
            <4>1. j - 1 \in 1 .. i - 1 /\ j - 1 \in 1 .. Len(Tail(s)) /\ j - 1 + 1 = j
                BY <1>1, <3>1, <3>4
            <4>2. Tail(s)[j - 1] = s[j] BY <4>1, TailIndices
            <4> QED BY <2>3, <3>2, <4>1, <4>2
        <3> QED BY <3>3, <3>4
    <2>4. Takes(s[i + 1], r) BY <1>2, <2>1
    <2> QED BY <2>1, <2>2, <2>3, <2>4 DEF GuardedOnceGone
<1> QED BY <1>2 DEF Guarded, GuardedOnceGone

----------------------------------------------------------------------------
(* The frames after a step. *)

\* What the innermost frame has left is replaced; and a frame is put on top of it.
Replaced(rest) ==
    /\ Len(stack') = Depth
    /\ stack'[Depth].rest = rest
    /\ \A n \in 1 .. Depth - 1 : stack'[n] = stack[n]

Pushed(rest, steps) ==
    /\ Len(stack') = Depth + 1
    /\ stack'[Depth].rest = rest
    /\ stack'[Depth + 1].rest = steps
    /\ \A n \in 1 .. Depth - 1 : stack'[n] = stack[n]

LEMMA TopReplacing ==
    ASSUME StackOK, stack # <<>>, NEW fr \in Frames
    PROVE  LET g == [stack EXCEPT ![Depth] = fr]
           IN g \in Seq(Frames) /\ Len(g) = Depth /\ g[Depth] = fr
              /\ \A n \in 1 .. Depth - 1 : g[n] = stack[n]
<1>0. Depth \in Nat \ {0}
    BY TopIsFrame
<1>1. Depth = Len(stack) /\ stack \in [1 .. Depth -> Frames]
    BY DEF StackOK, Depth
<1> DEFINE g == [stack EXCEPT ![Depth] = fr]
<1>2. g \in [1 .. Depth -> Frames]
    BY <1>0, <1>1
<1>3. g[Depth] = fr
    BY <1>0, <1>1
<1>4. ASSUME NEW n \in 1 .. Depth - 1 PROVE g[n] = stack[n]
    <2>1. n \in 1 .. Depth /\ n # Depth BY <1>0
    <2> QED BY <1>1, <2>1
<1> HIDE DEF g
<1>5. g \in Seq(Frames) /\ Len(g) = Depth
    BY <1>0, <1>2
<1> QED BY <1>3, <1>4, <1>5 DEF g

LEMMA AdvancedRest ==
    ASSUME StackOK, stack # <<>>, Top.rest # <<>>
    PROVE  /\ Advanced \in Seq(Frames) /\ Len(Advanced) = Depth
           /\ Advanced[Depth].rest = Tail(Top.rest)
           /\ \A n \in 1 .. Depth - 1 : Advanced[n] = stack[n]
<1> DEFINE fr == [Top EXCEPT !.rest = Tail(Top.rest)]
<1>1. Top \in Frames /\ Tail(Top.rest) \in Seq(Steps)
    BY TopIsFrame DEF Frames
<1>2. fr \in Frames /\ fr.rest = Tail(Top.rest) BY <1>1 DEF Frames
<1>3. Advanced = [stack EXCEPT ![Depth] = fr]
    BY DEF Advanced, Top
<1> HIDE DEF fr
<1> QED BY <1>2, <1>3, TopReplacing

LEMMA AdvanceReplaces ==
    ASSUME StackOK, stack # <<>>, Top.rest # <<>>, Advance
    PROVE  Replaced(Tail(Top.rest))
BY AdvancedRest DEF Advance, Replaced

LEMMA DropReplaces ==
    ASSUME StackOK, stack # <<>>, Panic \/ stack' = [stack EXCEPT ![Depth].rest = <<>>]
    PROVE  Replaced(<<>>)
<1> DEFINE fr == [Top EXCEPT !.rest = <<>>]
           pr == [Top EXCEPT !.rest = <<>>, !.panicking = TRUE]
<1>1. Top \in Frames /\ <<>> \in Seq(Steps) BY TopIsFrame
<1>2. fr \in Frames /\ pr \in Frames /\ fr.rest = <<>> /\ pr.rest = <<>>
    BY <1>1 DEF Frames
<1>3. stack' \in {[stack EXCEPT ![Depth] = fr], [stack EXCEPT ![Depth] = pr]}
    <2>1. CASE stack' = [stack EXCEPT ![Depth].rest = <<>>]
        BY <2>1 DEF Top
    <2>2. CASE Panic
        <3>1. Depth \in Nat \ {0} /\ Depth = Len(stack) /\ stack \in [1 .. Depth -> Frames]
            BY TopIsFrame DEF StackOK, Depth
        <3>2. stack' = [[stack EXCEPT ![Depth].rest = <<>>] EXCEPT ![Depth].panicking = TRUE]
            BY <2>2, <3>1 DEF Panic, Unwound
        <3>3. stack' = [stack EXCEPT ![Depth] = pr]
            BY <3>1, <3>2 DEF Top
        <3> QED BY <3>3
    <2> QED BY <2>1, <2>2
<1> HIDE DEF fr, pr
<1> QED BY <1>2, <1>3, TopReplacing DEF Replaced

LEMMA EnterPushes ==
    ASSUME StackOK, stack # <<>>, Top.rest # <<>>, NEW steps \in Seq(Steps), Enter(steps)
    PROVE  Pushed(Tail(Top.rest), steps)
<1>1. Depth \in Nat \ {0} BY TopIsFrame
<1>2. NewFrame(steps) \in Frames /\ NewFrame(steps).rest = steps BY DEF NewFrame, Frames
<1> QED BY <1>1, <1>2, AdvancedRest DEF Enter, Pushed

----------------------------------------------------------------------------
(* The storage stays guarded. *)

LEMMA OuterGuarded ==
    ASSUME StackOK, StorageGuarded, NEW n \in 1 .. Depth - 1, NEW r \in Registries
    PROVE  Guarded(stack[n].rest, r)
BY TopIsFrame DEF StorageGuarded, FrameGuarded, Depth, StackOK

LEMMA TopGuarded ==
    ASSUME StackOK, stack # <<>>, StorageGuarded, NEW r \in Registries
    PROVE  Guarded(Top.rest, r) \/ (cluster[r] \notin Live /\ GuardedOnceGone(Top.rest, r))
BY TopIsFrame DEF StorageGuarded, FrameGuarded, Depth, Top

\* The innermost frame only is of interest if those outside are as they were.
LEMMA ReplacedGuarded ==
    ASSUME StackOK, stack # <<>>, StorageGuarded, NEW rest, Replaced(rest),
           \A r \in Registries :
               Guarded(rest, r) \/ (cluster'[r] \notin Live /\ GuardedOnceGone(rest, r))
    PROVE  StorageGuarded'
<1> SUFFICES ASSUME NEW r \in Registries, NEW n \in 1 .. Len(stack')
             PROVE  FrameGuarded(stack, n, r)'
    BY DEF StorageGuarded
<1>1. Depth \in Nat \ {0} /\ Len(stack') = Depth BY TopIsFrame DEF Replaced
<1>2. CASE n \in 1 .. Depth - 1
    BY <1>2, OuterGuarded DEF Replaced, FrameGuarded
<1>3. CASE n = Depth
    BY <1>1, <1>3 DEF Replaced, FrameGuarded
<1> QED BY <1>1, <1>2, <1>3

LEMMA PushedGuarded ==
    ASSUME StackOK, stack # <<>>, StorageGuarded, NEW rest, NEW steps, Pushed(rest, steps),
           \A r \in Registries : Guarded(rest, r) /\ Guarded(steps, r)
    PROVE  StorageGuarded'
<1> SUFFICES ASSUME NEW r \in Registries, NEW n \in 1 .. Len(stack')
             PROVE  FrameGuarded(stack, n, r)'
    BY DEF StorageGuarded
<1>1. Depth \in Nat \ {0} /\ Len(stack') = Depth + 1 BY TopIsFrame DEF Pushed
<1>2. CASE n \in 1 .. Depth - 1
    BY <1>2, OuterGuarded DEF Pushed, FrameGuarded
<1>3. CASE n \in {Depth, Depth + 1}
    BY <1>1, <1>3 DEF Pushed, FrameGuarded
<1> QED BY <1>1, <1>2, <1>3

LEMMA DropGuarded ==
    ASSUME StackOK, stack # <<>>, StorageGuarded,
           Panic \/ stack' = [stack EXCEPT ![Depth].rest = <<>>]
    PROVE  StorageGuarded'
BY DropReplaces, EmptyGuarded, ReplacedGuarded

\* A step that is done: an awaited registry is gone, and one that was is made by a step
\* that makes it only.
LEMMA TailGuarded ==
    ASSUME StackOK, stack # <<>>, StorageGuarded, Top.rest # <<>>,
           Replaced(Tail(Top.rest)),
           \A r \in Registries :
               /\ Awaits(Head(Top.rest), r) => cluster'[r] \notin Live
               /\ ~MayMake(Head(Top.rest), r) /\ cluster[r] \notin Live => cluster'[r] \notin Live
    PROVE  StorageGuarded'
<1> DEFINE rest == Tail(Top.rest)
<1>1. Top.rest \in Seq(Steps) BY TopIsFrame DEF Frames
<1>2. ASSUME NEW r \in Registries
      PROVE  Guarded(rest, r) \/ (cluster'[r] \notin Live /\ GuardedOnceGone(rest, r))
    <2>1. CASE Guarded(Top.rest, r)
        BY <1>1, <2>1, GuardedTail
    <2>2. CASE cluster[r] \notin Live /\ GuardedOnceGone(Top.rest, r)
        BY <1>1, <2>2, GuardedOnceGoneTail
    <2> QED BY <2>1, <2>2, TopGuarded
<1> HIDE DEF rest
<1> QED BY <1>2, ReplacedGuarded DEF rest

\* A callee: nothing that was waited for counts when it returns.
LEMMA EnterGuarded ==
    ASSUME StackOK, StorageGuarded, NEW op \in {"call", "cleanups"}, At(op),
           NEW steps \in Seq(Steps), Enter(steps), \A r \in Registries : Guarded(steps, r)
    PROVE  StorageGuarded'
<1> DEFINE rest == Tail(Top.rest)
<1>1. stack # <<>> /\ Top.rest # <<>> /\ Head(Top.rest).op = op BY DEF At
<1>2. Top.rest \in Seq(Steps) BY <1>1, TopIsFrame DEF Frames
<1>3. ASSUME NEW r \in Registries PROVE Guarded(rest, r)
    <2>1. MayMake(Head(Top.rest), r) /\ ~Awaits(Head(Top.rest), r)
        BY <1>1 DEF MayMake, Awaits
    <2>2. Guarded(Top.rest, r) \/ GuardedOnceGone(Top.rest, r)
        BY <1>1, TopGuarded
    <2> QED BY <1>1, <1>2, <2>1, <2>2, GuardedTail, GuardedOnceGoneTail
<1>4. Pushed(rest, steps) BY <1>1, EnterPushes
<1> HIDE DEF rest
<1> QED BY <1>1, <1>3, <1>4, PushedGuarded

----------------------------------------------------------------------------
(* The steps of the harness, and the cluster's. *)

Guard == TypeOK /\ StackOK /\ WaitsForRegistries /\ StorageGuarded

LEMMA BodiesGuarded ==
    ASSUME WaitsForRegistries, NEW s \in Scripts, NEW r \in Registries
    PROVE  Guarded(Body[s], r)
BY DEF WaitsForRegistries

\* A step of the innermost frame that leaves the cluster alone, but is no wait.
LEMMA QuietlyGuarded ==
    ASSUME Guard, NEW op, At(op), op # "awaitGone", Replaced(Tail(Top.rest)), UNCHANGED cluster
    PROVE  StorageGuarded'
<1>1. stack # <<>> /\ Top.rest # <<>> /\ Head(Top.rest).op = op BY DEF At
<1> QED BY <1>1, TailGuarded DEF Guard, Awaits

LEMMA AdvanceGuarded ==
    ASSUME Guard, NEW op, At(op), op # "awaitGone", Advance, UNCHANGED cluster
    PROVE  StorageGuarded'
<1>1. stack # <<>> /\ Top.rest # <<>> BY DEF At
<1> QED BY <1>1, AdvanceReplaces, QuietlyGuarded DEF Guard

LEMMA GinkgoGuarded ==
    ASSUME Guard, Ginkgo
    PROVE  StorageGuarded'
<1> USE DEF Guard
<1>1. ASSUME NEW s \in Specs, StartSpec(s) PROVE StorageGuarded'
    <2>1. stack' = <<NewFrame(Body[s])>> /\ s \in Scripts
        BY <1>1, HarnessAssumption DEF StartSpec
    <2>2. Len(stack') = 1 /\ stack'[1].rest = Body[s] BY <2>1 DEF NewFrame
    <2>3. ASSUME NEW r \in Registries, NEW n \in 1 .. Len(stack') PROVE FrameGuarded(stack, n, r)'
        <3>1. n = 1 BY <2>2
        <3> QED BY <2>1, <2>2, <3>1, BodiesGuarded DEF FrameGuarded
    <2> QED BY <2>3 DEF StorageGuarded
<1>2. ASSUME NEW s \in Specs, EndSpec(s) PROVE StorageGuarded'
    BY <1>2 DEF EndSpec, StorageGuarded
<1> QED BY <1>1, <1>2 DEF Ginkgo

LEMMA GoStepGuarded ==
    ASSUME Guard, GoStep
    PROVE  StorageGuarded'
<1> USE DEF Guard
<1>1. CASE Return
    <2>1. Depth \in Nat /\ Depth > 1 /\ Len(stack) = Depth /\ stack # <<>>
        BY <1>1, TopIsFrame DEF Return, Finished, Depth
    <2> DEFINE frames == SubSeq(stack, 1, Depth - 1)
    <2>2. /\ frames \in Seq(Frames) /\ Len(frames) = Depth - 1
          /\ \A n \in 1 .. Depth - 1 : frames[n] = stack[n]
        <3>1. \A n \in 1 .. Depth - 1 : stack[n] \in Frames BY <2>1 DEF StackOK
        <3> QED BY <2>1, <3>1, SubSeqProperties
    <2>3. stack' \in {frames, Unwound(frames)} BY <1>1 DEF Return, Caller
    <2> HIDE DEF frames
    <2>4. /\ Len(stack') = Depth - 1
          /\ \A n \in 1 .. Depth - 1 : stack'[n].rest \in {<<>>, stack[n].rest}
        <3>1. CASE stack' = frames BY <2>2, <3>1
        <3>2. CASE stack' = Unwound(frames)
            <4>1. frames \in [1 .. Depth - 1 -> Frames] BY <2>2
            <4> DEFINE last == Depth - 1
                       g == [frames EXCEPT ![last].rest = <<>>]
            <4>2. last \in 1 .. Depth - 1 /\ frames[last] \in Frames BY <2>1, <4>1
            <4>3. stack' = [g EXCEPT ![last].panicking = TRUE] BY <2>2, <3>2 DEF Unwound
            <4> HIDE DEF last
            <4>4. DOMAIN g = 1 .. Depth - 1 /\ DOMAIN stack' = 1 .. Depth - 1
                BY <4>1, <4>3
            <4>5. \A n \in 1 .. Depth - 1 : g[n].rest \in {<<>>, frames[n].rest}
                BY <4>1, <4>2 DEF Frames
            <4>6. \A n \in 1 .. Depth - 1 : stack'[n].rest = g[n].rest
                BY <4>1, <4>2, <4>3 DEF Frames
            <4>7. stack' \in Seq(Frames)
                BY <1>1, GoStepMoves DEF Moves, GoStep
            <4> HIDE DEF g
            <4>8. Len(stack') = Depth - 1 BY <2>1, <4>4, <4>7
            <4> QED BY <2>2, <4>5, <4>6, <4>8
        <3> QED BY <2>3, <3>1, <3>2
    <2>5. ASSUME NEW r \in Registries, NEW n \in 1 .. Len(stack') PROVE FrameGuarded(stack, n, r)'
        <3>1. n \in 1 .. Depth - 1 BY <2>4
        <3>2. Guarded(stack'[n].rest, r) BY <2>4, <3>1, OuterGuarded, EmptyGuarded
        <3> QED BY <3>2 DEF FrameGuarded
    <2> QED BY <2>5 DEF StorageGuarded
<1>2. CASE RunDeferred
    <2> DEFINE fr == [Top EXCEPT !.defers = Tail(@)]
               steps == Body[Head(Top.defers)]
               g == [stack EXCEPT ![Depth] = fr]
    <2>1. /\ stack # <<>> /\ Top.rest = <<>> /\ Top.defers # <<>>
          /\ stack' = Append(g, NewFrame(steps))
        BY <1>2 DEF RunDeferred, Top
    <2>2. Top \in Frames BY <2>1, TopIsFrame
    <2>3. Tail(Top.defers) \in Seq(Scripts) /\ Head(Top.defers) \in Scripts
        BY <2>1, <2>2 DEF Frames
    <2>4. fr \in Frames /\ fr.rest = <<>> BY <2>1, <2>2, <2>3 DEF Frames
    <2>5. steps \in Seq(Steps) /\ \A r \in Registries : Guarded(steps, r)
        BY <2>3, BodyTyped, BodiesGuarded
    <2>6. NewFrame(steps) \in Frames /\ NewFrame(steps).rest = steps
        BY <2>5 DEF NewFrame, Frames
    <2> HIDE DEF fr, steps
    <2>7. g \in Seq(Frames) /\ Len(g) = Depth /\ g[Depth].rest = <<>>
          /\ \A n \in 1 .. Depth - 1 : g[n] = stack[n]
        BY <2>1, <2>4, TopReplacing
    <2> HIDE DEF g
    <2>8. Depth \in Nat \ {0} BY <2>1, TopIsFrame
    <2>9. Pushed(<<>>, steps) BY <2>1, <2>6, <2>7, <2>8 DEF Pushed
    <2> QED BY <2>1, <2>5, <2>9, EmptyGuarded, PushedGuarded
<1>3. CASE Call
    <2>1. Arg \in Scripts BY <1>3, StepTyped DEF Call, ScriptOps
    <2> QED BY <1>3, <2>1, BodyTyped, BodiesGuarded, EnterGuarded DEF Call
<1>4. CASE Defer
    <2>1. /\ At("defer") /\ UNCHANGED cluster
          /\ stack' = [Advanced EXCEPT ![Depth].defers = <<Arg>> \o @]
        BY <1>4 DEF Defer
    <2>2. stack # <<>> /\ Top.rest # <<>> BY <2>1, StepTyped
    <2>3. /\ Advanced \in Seq(Frames) /\ Len(Advanced) = Depth
          /\ Advanced[Depth].rest = Tail(Top.rest)
          /\ \A n \in 1 .. Depth - 1 : Advanced[n] = stack[n]
        BY <2>2, AdvancedRest
    <2>4. Depth \in Nat \ {0} BY <2>2, TopIsFrame
    <2>5. Replaced(Tail(Top.rest))
        <3>1. Advanced \in [1 .. Depth -> Frames] BY <2>3
        <3>2. stack' \in Seq(Frames) BY <1>4, GoStepMoves DEF Moves, GoStep
        <3>3. DOMAIN stack' = 1 .. Depth BY <2>1, <3>1
        <3>4. Len(stack') = Depth BY <2>4, <3>2, <3>3
        <3>5. stack'[Depth].rest = Advanced[Depth].rest
            BY <2>1, <2>4, <3>1 DEF Frames
        <3>6. \A n \in 1 .. Depth - 1 : stack'[n] = Advanced[n]
            BY <2>1, <2>4, <3>1
        <3> QED BY <2>3, <3>4, <3>5, <3>6 DEF Replaced
    <2> QED BY <2>1, <2>5, QuietlyGuarded
<1> QED BY <1>1, <1>2, <1>3, <1>4 DEF GoStep

LEMMA ContextStepGuarded ==
    ASSUME Guard, ContextStep
    PROVE  StorageGuarded'
<1> USE DEF Guard
<1>1. CASE ExecuteCleanups
    <2>1. At("cleanups") /\ Enter(CleanupCalls) /\ CleanupCalls \in Seq(Steps)
        BY <1>1, CleanupCallsTyped DEF ExecuteCleanups
    <2>2. ASSUME NEW r \in Registries PROVE Guarded(CleanupCalls, r)
        <3> SUFFICES ASSUME NEW i \in 1 .. Len(CleanupCalls)
                     PROVE  ~Takes(CleanupCalls[i], r)
            BY DEF Guarded
        <3>1. i \in DOMAIN CleanupCalls BY <2>1
        <3>2. CleanupCalls[i].op = "call" BY <3>1 DEF CleanupCalls
        <3> QED BY <3>2 DEF Takes, Removals
    <2> QED BY <2>1, <2>2, EnterGuarded
<1>2. CASE NewContext BY <1>2, AdvanceGuarded DEF NewContext
<1>3. CASE Name BY <1>3, AdvanceGuarded DEF Name
<1>4. CASE Installed BY <1>4, AdvanceGuarded DEF Installed
<1>5. CASE RegisterCleanup BY <1>5, AdvanceGuarded DEF RegisterCleanup
<1>6. CASE SkipRegister BY <1>6, AdvanceGuarded DEF SkipRegister
<1> QED BY <1>1, <1>2, <1>3, <1>4, <1>5, <1>6 DEF ContextStep

\* Only the steps that make a registry bring one to life.
LEMMA CreateGuarded ==
    ASSUME Guard, CreateObject
    PROVE  StorageGuarded'
<1> USE DEF Guard
<1>1. /\ At("create") \/ At("apply") \/ At("attempt")
      /\ Advance
      /\ cluster' = [cluster EXCEPT ![Arg] = IF @ = "absent" THEN Born(Arg) ELSE @]
    BY DEF CreateObject
<1>2. stack # <<>> /\ Top.rest # <<>> /\ Head(Top.rest).op \in {"create", "apply", "attempt"}
    BY <1>1 DEF At
<1>3. Replaced(Tail(Top.rest)) BY <1>1, <1>2, AdvanceReplaces
<1>4. ASSUME NEW r \in Registries
      PROVE  /\ ~Awaits(Head(Top.rest), r)
             /\ ~MayMake(Head(Top.rest), r) => cluster'[r] = cluster[r]
    <2>1. r \in Objects /\ cluster \in [Objects -> Status] BY DEF TypeOK, WaitsForRegistries
    <2>2. ~Awaits(Head(Top.rest), r) BY <1>2 DEF Awaits
    <2>3. ~MayMake(Head(Top.rest), r) => r # Arg BY <1>2 DEF MayMake, Arg
    <2> QED BY <1>1, <2>1, <2>2, <2>3
<1> QED BY <1>2, <1>3, <1>4, TailGuarded

LEMMA RemovalGuarded ==
    ASSUME Guard, DeleteObject \/ EraseFile
    PROVE  StorageGuarded'
<1> USE DEF Guard
<1>1. /\ Advance
      /\ \E op \in Removals \cup {"erase"} : At(op)
      /\ \E v \in {"absent", "terminating"} :
             cluster' = [cluster EXCEPT ![Arg] = IF @ = "absent" THEN @ ELSE v]
    <2>1. CASE DeleteObject
        BY <2>1 DEF DeleteObject, Removals
    <2>2. CASE EraseFile
        <3>1. Advance /\ At("erase") /\ cluster' = [cluster EXCEPT ![Arg] = "absent"]
            BY <2>2 DEF EraseFile
        <3>2. cluster' = [cluster EXCEPT ![Arg] = IF @ = "absent" THEN @ ELSE "absent"]
            BY <3>1 DEF TypeOK
        <3> QED BY <3>1, <3>2
    <2> QED BY <2>1, <2>2
<1>2. /\ stack # <<>> /\ Top.rest # <<>>
      /\ Head(Top.rest).op # "awaitGone"
    BY <1>1 DEF At, Removals
<1>3. Replaced(Tail(Top.rest)) BY <1>1, <1>2, AdvanceReplaces
<1>4. ASSUME NEW r \in Registries
      PROVE  /\ ~Awaits(Head(Top.rest), r)
             /\ cluster[r] \notin Live => cluster'[r] \notin Live
    <2>1. r \in Objects /\ cluster \in [Objects -> Status] BY DEF TypeOK, WaitsForRegistries
    <2>2. ~Awaits(Head(Top.rest), r) BY <1>2 DEF Awaits
    <2> QED BY <1>1, <2>1, <2>2 DEF Live
<1> QED BY <1>2, <1>3, <1>4, TailGuarded

\* A wait for a registry goes through when it is gone, and not before.
LEMMA PollGuarded ==
    ASSUME Guard, PollDone
    PROVE  StorageGuarded'
<1> USE DEF Guard
<1>1. /\ Advance /\ UNCHANGED cluster
      /\ At("await") \/ At("awaitGone") \/ At("awaitGoneQuietly") \/ At("finalize")
      /\ At("awaitGone") => cluster[Arg] = "absent"
    BY DEF PollDone, Observed, At
<1>2. stack # <<>> /\ Top.rest # <<>> BY <1>1 DEF At
<1>3. Replaced(Tail(Top.rest)) BY <1>1, <1>2, AdvanceReplaces
<1>4. ASSUME NEW r \in Registries, Awaits(Head(Top.rest), r) PROVE cluster'[r] \notin Live
    <2>1. At("awaitGone") /\ Arg = r BY <1>2, <1>4 DEF Awaits, At, Arg
    <2> QED BY <1>1, <2>1 DEF Live
<1> QED BY <1>1, <1>2, <1>3, <1>4, TailGuarded

LEMMA ApiStepGuarded ==
    ASSUME Guard, ApiStep
    PROVE  StorageGuarded'
<1> USE DEF Guard
<1>1. CASE Pass BY <1>1, AdvanceGuarded DEF Pass
<1>2. CASE CreateObject BY <1>2, CreateGuarded
<1>3. CASE DeleteObject \/ EraseFile BY <1>3, RemovalGuarded
<1>4. CASE ReadFile BY <1>4, AdvanceGuarded DEF ReadFile
<1>5. CASE ReturnIfInstalled
    <2>1. /\ At("returnIfInstalled") /\ UNCHANGED cluster
          /\ Advance \/ stack' = [stack EXCEPT ![Depth].rest = <<>>]
        BY <1>5 DEF ReturnIfInstalled
    <2>2. stack # <<>> BY <2>1 DEF At
    <2>3. CASE Advance BY <2>1, <2>3, AdvanceGuarded
    <2>4. CASE stack' = [stack EXCEPT ![Depth].rest = <<>>] BY <2>2, <2>4, DropGuarded
    <2> QED BY <2>1, <2>3, <2>4
<1>6. CASE PollDone BY <1>6, PollGuarded
<1>7. CASE GiveUpQuietly BY <1>7, AdvanceGuarded DEF GiveUpQuietly
<1>8. CASE SilentFailure BY <1>8, AdvanceGuarded DEF SilentFailure
<1>9. CASE Deadline BY <1>9, DropGuarded DEF Deadline, At
<1>10. CASE Refused BY <1>10, DropGuarded DEF Refused, Refusal, At
<1>11. CASE Misfortune BY <1>11, DropGuarded DEF Misfortune, At
<1> QED
    BY <1>1, <1>2, <1>3, <1>4, <1>5, <1>6, <1>7, <1>8, <1>9, <1>10, <1>11 DEF ApiStep

\* No controller brings a registry to life.
LEMMA ClusterGuarded ==
    ASSUME Guard, ClusterStep
    PROVE  StorageGuarded'
<1> USE DEF Guard
<1>1. UNCHANGED stack
    BY DEF ClusterStep, ControllerCreates, BecomesReady, Collected, Vanishes
<1>2. ASSUME NEW r \in Registries, cluster[r] \notin Live PROVE cluster'[r] \notin Live
    <2>1. r \in Objects /\ cluster \in [Objects -> Status] /\ Maker[r] = None
        BY DEF TypeOK, WaitsForRegistries
    <2>2. PICK o \in Objects :
              ControllerCreates(o) \/ BecomesReady(o) \/ Collected(o) \/ Vanishes(o)
        BY DEF ClusterStep
    <2>3. CASE o = r
        BY <1>2, <2>1, <2>2, <2>3 DEF ControllerCreates, BecomesReady, Collected, Vanishes, Live
    <2>4. CASE o # r
        BY <1>2, <2>1, <2>2, <2>4 DEF ControllerCreates, BecomesReady, Collected, Vanishes
    <2> QED BY <2>3, <2>4
<1> QED BY <1>1, <1>2 DEF StorageGuarded, FrameGuarded

LEMMA StorageGuardedStep ==
    ASSUME TypeOK, WaitsForRegistries, StorageGuarded, [Next]_vars
    PROVE  StorageGuarded'
<1>1. Guard BY DEF Guard, TypeOK, StackOK
<1>2. CASE UNCHANGED vars
    BY <1>2 DEF vars, StorageGuarded, FrameGuarded
<1> QED
    BY <1>1, <1>2, GinkgoGuarded, GoStepGuarded, ContextStepGuarded, ApiStepGuarded, ClusterGuarded
    DEF Next, HarnessStep, Terminated

\* utils/apicurio/registry.go:168-199, utils/sql/postgresql.go:77-83 and
\* utils/kafkasql/kafkasql.go:132-152: a harness whose scripts wait, with a check, for a
\* registry to be gone before they take its storage never takes the storage of one that
\* lives, wherever a wait times out, a call fails or a test panics.
THEOREM StorageIsTakenLast ==
    ASSUME WaitsForRegistries
    PROVE  Spec => []StorageOutlivesRegistry
<1>1. Init => StorageGuarded
    BY DEF Init, StorageGuarded
<1>2. TypeOK /\ StorageGuarded /\ [Next]_vars => StorageGuarded'
    BY StorageGuardedStep
<1>3. TypeOK /\ StorageGuarded => StorageOutlivesRegistry
    <2> SUFFICES ASSUME TypeOK, StorageGuarded, Removing,
                        NEW r \in Registries, DependsOn(r, Arg)
                 PROVE  cluster[r] \notin Live
        BY DEF StorageOutlivesRegistry
    <2>1. StackOK /\ stack # <<>> /\ Top.rest # <<>> /\ Head(Top.rest).op \in Removals
        BY DEF TypeOK, StackOK, Removing, Removals, At
    <2>2. Takes(Head(Top.rest), r) BY <2>1 DEF Takes, Arg
    <2>3. Top.rest \in Seq(Steps) BY <2>1, TopIsFrame DEF Frames
    <2> QED BY <2>1, <2>2, <2>3, TopGuarded, GuardedTail
<1> QED BY <1>1, <1>2, <1>3, TypeCorrectness, PTL DEF Spec

=============================================================================
