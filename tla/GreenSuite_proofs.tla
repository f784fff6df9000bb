--------------------------- MODULE GreenSuite_proofs ---------------------------
(***************************************************************************)
(* Why a suite without failures leaves nothing behind: a theorem about any *)
(* scripts that see to the removal of all they make.                       *)
(*                                                                         *)
(* What a spec makes is owed a removal, by a frame that has deferred one   *)
(* or will, by a cleanup that is registered or will be while the execution *)
(* of the cleanups is deferred, or, for an operator that is installed once,*)
(* by what its installer reports.  A panic may take the removal away, but  *)
(* then the suite is not green.                                            *)
(***************************************************************************)
EXTENDS TestSuite_proofs

CONSTANT InUse  \* the scripts that the specs reach

Makings == {"create", "apply", "attempt"}

Has(s, op, args) == \E x \in Range(s) : x.op = op /\ x.arg \in args
HasOp(s, op) == \E x \in Range(s) : x.op = op

\* The script has no return but its end.
Straight(s) == ~HasOp(s, "returnIfInstalled")

\* The objects to be removed, and those of them that no namespace takes along.
Kept == Objects \ Unawaited
Namespaces == {Home[o] : o \in Objects}
Roots == {o \in Kept : Home[o] = None}

\* A namespace has to be gone; of the other objects it is enough that they no longer work.
Stands(o) == IF o \in Namespaces THEN cluster[o] # "absent" ELSE cluster[o] \in Live

\* When the step is done, o does not stand.
Ends(x, o) ==
    /\ x.arg = o
    /\ \/ x.op \in {"awaitGone", "finalize"}
       \/ x.op \in Removals /\ o \notin Namespaces

\* The scripts that leave the removal of o to their caller; what makes o, then.
Leaves(o) ==
    {s \in Scripts : /\ \E x \in Range(Body[s]) : x.op \in Makings /\ x.arg = o
                     /\ ~HasOp(Body[s], "defer") /\ ~HasOp(Body[s], "register")}
Makes(x, o) ==
    \/ x.op \in Makings /\ x.arg = o
    \/ x.op = "call" /\ x.arg \in Leaves(o)
MakesSome(s, o) == \E x \in Range(s) : Makes(x, o)

\* The scripts that remove o, themselves or by the one that they defer.
Takers(o) ==
    {s \in Scripts : /\ Straight(Body[s]) /\ ~MakesSome(Body[s], o)
                     /\ \E x \in Range(Body[s]) : Ends(x, o)}
Removers(o) ==
    Takers(o) \cup {s \in Scripts : Straight(Body[s]) /\ Has(Body[s], "defer", Takers(o))}

\* What executes the cleanups, unless it panics.
Flushing(s) == HasOp(s, "cleanups") /\ \A x \in Range(s) : x.op \in {"saveLogs", "cleanups"}
Flushers == {s \in Scripts : Flushing(Body[s])}

\* The frame executes the cleanups when it returns; or may execute them.
Flushes(fr) ==
    \/ \E x \in Range(fr.defers) : x \in Flushers
    \/ Straight(fr.rest) /\ Has(fr.rest, "defer", Flushers)
MayFlush(fr) ==
    \/ \E x \in Range(fr.defers) : x \in Flushers
    \/ Has(fr.rest, "defer", Flushers)
    \/ HasOp(fr.rest, "cleanups")

Registers(s, o) == Straight(s) /\ Has(s, "register", Removers(o))

\* The frame itself removes o.
Own(fr, o) ==
    \/ \E x \in Range(fr.defers) : x \in Removers(o)
    \/ Straight(fr.rest) /\ Has(fr.rest, "defer", Removers(o))
    \/ /\ Straight(fr.rest) /\ ~MakesSome(fr.rest, o)
       /\ Has(fr.rest, "call", Removers(o)) \/ \E x \in Range(fr.rest) : Ends(x, o)

\* An object that is installed once: its installer returns at once if it finds it, and
\* the caller registers the removal if it was not found.
Hasty == {"call", "defer", "cleanups", "newContext", "returnIfInstalled"}
MakerSet == {Maker[o] : o \in Roots}

\* converters.go:66-70: the removal is registered if `deployed` says so.
Conditional(s, o) ==
    /\ o \notin MakerSet
    /\ \E i \in 1 .. Len(s) :
        /\ s[i].op = "registerIfDeployed" /\ s[i].arg \in Removers(o)
        /\ \A j \in 1 .. i - 1 : s[j].op \notin Hasty
Installing(s) == HasOp(s, "installed") /\ \A x \in Range(s) : x.op \notin Hasty
InstallingOnce(s, o) ==
    s # <<>> /\ Head(s).op = "returnIfInstalled" /\ Head(s).arg = o /\ Installing(Tail(s))
Installers(o) == {l \in Leaves(o) : InstallingOnce(Body[l], o)}
Lends(s, o) ==
    /\ o \notin MakerSet
    /\ \E j, i \in 1 .. Len(s) :
        /\ j < i
        /\ s[j].op = "call" /\ s[j].arg \in Installers(o)
        /\ s[i].op = "registerIfDeployed" /\ s[i].arg \in Removers(o)
        /\ \A k \in 1 .. i - 1 : k = j \/ s[k].op \notin Hasty
        /\ \A k \in 1 .. Len(s) : Makes(s[k], o) => k = j

----------------------------------------------------------------------------
(* The condition on the scripts. *)

\* Borrowers register cleanups that a caller executes; Renewers begin a TestContext.
Borrowers ==
    {s \in Scripts : /\ HasOp(Body[s], "register") \/ HasOp(Body[s], "registerIfDeployed")
                     /\ ~Flushes(NewFrame(Body[s]))}
Renewers == {s \in Scripts : HasOp(Body[s], "newContext")}
Outer == {s \in Scripts : Has(Body[s], "call", Renewers)}
Renews(s) == HasOp(s, "newContext") \/ Has(s, "call", Renewers)

\* What may be deferred or registered.
Safe ==
    {s \in InUse : /\ s \notin Borrowers \cup Renewers \cup Outer
                   /\ \A o \in Roots : s \notin Leaves(o)}

IsSafe(x) ==
    /\ x.op \in {"defer", "register", "registerIfDeployed"} => x.arg \in Safe
    /\ x.op = "call" => x.arg \in InUse \ Outer
    /\ x.op = "erase" => x.arg \notin Namespaces
    /\ x.op \in Makings => Maker[x.arg] = None

SeesTo(s, o) ==
    \/ Own(NewFrame(Body[s]), o)
    \/ /\ s \in Borrowers \/ Flushes(NewFrame(Body[s]))
       /\ Registers(Body[s], o) \/ Lends(Body[s], o)

\* What o was made for goes first.
Follows(s, o) ==
    Maker[o] # None =>
        \A i \in 1 .. Len(s) : Ends(s[i], Maker[o]) => \E j \in i + 1 .. Len(s) : Ends(s[j], o)

MakersSeeTo ==
    \A s \in InUse : \A o \in Roots : MakesSome(Body[s], o) /\ s \notin Leaves(o) => SeesTo(s, o)
StepsAreSafe == \A s \in InUse : \A x \in Range(Body[s]) : IsSafe(x)
CallersFlush ==
    \A s \in InUse : Has(Body[s], "call", Borrowers) => Flushes(NewFrame(Body[s]))
FlushersRenewNot == \A s \in InUse : MayFlush(NewFrame(Body[s])) => ~Renews(Body[s])
PodsFollow ==
    /\ \A s \in Scripts : \A o \in Roots : Follows(Body[s], o)
    /\ \A s \in Scripts : \A x \in Range(Body[s]) : x.op \in Makings => Maker[x.arg] = None
    /\ \A o \in Roots : Maker[o] # None => Maker[o] \in Roots
SpecsSeeTo ==
    /\ Specs \subseteq InUse /\ InUse \subseteq Scripts
    /\ Specs \cap Borrowers = {}
    /\ \A o \in Roots : Specs \cap Leaves(o) = {}
HomesStand == \A o \in Kept : Home[o] # None => Home[o] \in Roots

Paired ==
    /\ MakersSeeTo /\ StepsAreSafe /\ CallersFlush /\ FlushersRenewNot /\ PodsFollow
    /\ SpecsSeeTo /\ HomesStand

----------------------------------------------------------------------------
(* The invariant, about frames f with cleanups c and `deployed` d. *)

\* One of the outermost m frames executes the cleanups.
Pend(f, m) == \E n \in 1 .. m : Flushes(f[n])
InCleanups(c, o) == \E x \in Range(c) : x \in Removers(o)

\* Frame n sees to the removal of o; one of the outermost m does.
FrameSees(f, c, n, o) ==
    \/ Own(f[n], o)
    \/ Pend(f, n) /\ Registers(f[n].rest, o)
    \/ (Flushes(f[n]) \/ Flushing(f[n].rest)) /\ InCleanups(c, o)
Owed(f, c, m, o) == \E n \in 1 .. m : FrameSees(f, c, n, o)

\* The installer has returned; it is at work; it is to be called; it is about to look.
Reported(f, d, o) == Pend(f, Len(f)) /\ d /\ Conditional(f[Len(f)].rest, o)
Under(f, o) ==
    /\ Len(f) > 1
    /\ Pend(f, Len(f) - 1) /\ Conditional(f[Len(f) - 1].rest, o) /\ f[Len(f)].defers = <<>>
Reporting(f, d, o) ==
    /\ Under(f, o)
    /\ \A x \in Range(f[Len(f)].rest) : x.op \notin Hasty
    /\ d \/ HasOp(f[Len(f)].rest, "installed")
Lending(f, o) == Pend(f, Len(f)) /\ Lends(f[Len(f)].rest, o)
Looking(f, o) == Under(f, o) /\ InstallingOnce(f[Len(f)].rest, o)

\* Somebody removes o; what is made next will be removed.
Covered(f, c, d, o) ==
    f # <<>> /\ (Owed(f, c, Len(f), o) \/ Reported(f, d, o) \/ Reporting(f, d, o))
Sees(f, c, d) ==
    \A o \in Roots : \A m \in 1 .. Len(f) :
        MakesSome(f[m].rest, o) =>
            \/ Owed(f, c, m, o)
            \/ m = Len(f) /\ (Lending(f, o) \/ Looking(f, o) \/ Reporting(f, d, o))

\* Of the outermost m frames.
Orderly(f, c, m) ==
    /\ \A x \in Range(c) : x \in Safe
    /\ \A n \in 1 .. m :
        /\ \A x \in Range(f[n].rest) : IsSafe(x)
        /\ \A x \in Range(f[n].defers) : x \in Safe
        /\ Has(f[n].rest, "call", Borrowers) => Pend(f, n)
        /\ \A o \in Roots : Follows(f[n].rest, o)
        /\ MayFlush(f[n]) => \A k \in n .. m : ~Renews(f[k].rest)

\* No failure has been reported, nor is one going to be.
Green ==
    /\ \A s \in Specs : verdict[s] # "failed"
    /\ stack # <<>> => ~erred

\* What lives in a namespace is gone before it.
Homed == \A o \in Objects : Home[o] # None /\ cluster[o] # "absent" => cluster[Home[o]] # "absent"

NothingForgotten ==
    Green => /\ Homed
             /\ \A o \in Roots : Stands(o) => Covered(stack, cleanups, deployed, o)
             /\ Sees(stack, cleanups, deployed)
             /\ Orderly(stack, cleanups, Depth)

----------------------------------------------------------------------------
(* What is left of a list of steps when the first one is done. *)

LEMMA RangeOfTail ==
    ASSUME NEW S, NEW s \in Seq(S), s # <<>>
    PROVE  /\ Tail(s) \in Seq(S) /\ Head(s) \in S
           /\ Range(s) = {Head(s)} \cup Range(Tail(s))
<1>1. /\ Len(s) \in Nat \ {0} /\ Len(Tail(s)) = Len(s) - 1 /\ Head(s) = s[1]
      /\ Tail(s) \in Seq(S) /\ Head(s) \in S
      /\ \A i \in 1 .. Len(Tail(s)) : Tail(s)[i] = s[i + 1] /\ i + 1 \in 1 .. Len(s)
    OBVIOUS
<1>2. Range(s) = {s[i] : i \in 1 .. Len(s)} /\ Range(Tail(s)) = {Tail(s)[i] : i \in 1 .. Len(Tail(s))}
    BY <1>1, RangeEquality
<1>3. \A i \in 2 .. Len(s) : i - 1 \in 1 .. Len(Tail(s)) /\ s[i] = Tail(s)[i - 1]
    BY <1>1
<1>4. 1 .. Len(s) = {1} \cup 2 .. Len(s)
    BY <1>1
<1>5. ASSUME NEW x \in Range(s) PROVE x = Head(s) \/ x \in Range(Tail(s))
    <2>1. PICK i \in 1 .. Len(s) : x = s[i] BY <1>2
    <2>2. CASE i = 1 BY <1>1, <2>1, <2>2
    <2>3. CASE i # 1
        <3>1. i \in 2 .. Len(s) BY <2>3
        <3> QED BY <1>2, <1>3, <2>1, <3>1
    <2> QED BY <2>2, <2>3
<1>6. Head(s) \in Range(s)
    BY <1>1, <1>2, <1>4
<1>7. ASSUME NEW x \in Range(Tail(s)) PROVE x \in Range(s)
    <2>1. PICK i \in 1 .. Len(Tail(s)) : x = Tail(s)[i] BY <1>2
    <2> QED BY <1>1, <1>2, <2>1
<1> QED BY <1>1, <1>5, <1>6, <1>7

LEMMA RangeOfEmpty == Range(<<>>) = {}
BY DEF Range

LEMMA RangeIn ==
    ASSUME NEW S, NEW s \in Seq(S)
    PROVE  \A x : x \in Range(s) <=> \E i \in 1 .. Len(s) : x = s[i]
BY RangeEquality

LEMMA RangeOfAppend ==
    ASSUME NEW S, NEW s \in Seq(S), NEW x \in S
    PROVE  Append(s, x) \in Seq(S) /\ Range(Append(s, x)) = Range(s) \cup {x}
<1>1. /\ Append(s, x) \in Seq(S) /\ Len(s) \in Nat /\ Len(Append(s, x)) = Len(s) + 1
      /\ \A i \in 1 .. Len(s) : Append(s, x)[i] = s[i]
      /\ Append(s, x)[Len(s) + 1] = x
    OBVIOUS
<1>2. 1 .. Len(s) + 1 = 1 .. Len(s) \cup {Len(s) + 1} BY <1>1
<1>3. Range(Append(s, x)) = {Append(s, x)[i] : i \in 1 .. Len(s) + 1}
    BY <1>1, RangeEquality
<1>4. \A y : y \in Range(s) <=> \E i \in 1 .. Len(s) : y = s[i]
    BY RangeIn
<1> QED BY <1>1, <1>2, <1>3, <1>4

LEMMA NothingLeft ==
    ASSUME NEW o
    PROVE  /\ \A op : ~HasOp(<<>>, op) /\ \A args : ~Has(<<>>, op, args)
           /\ ~MakesSome(<<>>, o) /\ ~Registers(<<>>, o) /\ ~Flushing(<<>>)
           /\ ~Conditional(<<>>, o) /\ ~Lends(<<>>, o) /\ ~InstallingOnce(<<>>, o)
           /\ Follows(<<>>, o) /\ ~Renews(<<>>)
<1>1. Range(<<>>) = {} /\ ~\E i \in 1 .. Len(<<>>) : TRUE
    BY RangeOfEmpty
<1> QED
    BY <1>1 DEF HasOp, Has, MakesSome, Registers, Flushing, Conditional, Lends, InstallingOnce,
                Follows, Renews

LEMMA TailConditional ==
    ASSUME NEW s \in Seq(Steps), s # <<>>, NEW o, Conditional(s, o)
    PROVE  /\ Head(s).op \notin Hasty
           /\ \/ Conditional(Tail(s), o)
              \/ Head(s).op = "registerIfDeployed" /\ Head(s).arg \in Removers(o)
<1>1. PICK i \in 1 .. Len(s) :
          /\ s[i].op = "registerIfDeployed" /\ s[i].arg \in Removers(o)
          /\ \A j \in 1 .. i - 1 : s[j].op \notin Hasty
    BY DEF Conditional
<1>2. /\ Len(s) \in Nat \ {0} /\ Len(Tail(s)) = Len(s) - 1 /\ Head(s) = s[1]
      /\ \A k \in 1 .. Len(Tail(s)) : Tail(s)[k] = s[k + 1] /\ k + 1 \in 1 .. Len(s)
    BY TailIndices
<1>3. CASE i = 1
    BY <1>1, <1>2, <1>3 DEF Hasty
<1>4. CASE i # 1
    <2>1. 1 \in 1 .. i - 1 /\ i - 1 \in 1 .. Len(Tail(s)) /\ i - 1 + 1 = i
        BY <1>2, <1>4
    <2>2. Tail(s)[i - 1] = s[i] BY <1>2, <2>1
    <2>3. ASSUME NEW j \in 1 .. (i - 1) - 1 PROVE Tail(s)[j].op \notin Hasty
        <3>1. j + 1 \in 1 .. i - 1 /\ j \in 1 .. Len(Tail(s)) BY <1>2
        <3> QED BY <1>1, <1>2, <3>1
    <2>4. Conditional(Tail(s), o)
        BY <1>1, <2>1, <2>2, <2>3 DEF Conditional
    <2> QED BY <1>1, <1>2, <2>1, <2>4
<1> QED BY <1>3, <1>4

LEMMA TailLends ==
    ASSUME NEW s \in Seq(Steps), s # <<>>, NEW o, Lends(s, o)
    PROVE  \/ /\ Head(s).op = "call" /\ Head(s).arg \in Installers(o)
              /\ Conditional(Tail(s), o) /\ ~MakesSome(Tail(s), o)
           \/ /\ Head(s).op \notin Hasty /\ ~Makes(Head(s), o)
              /\ Lends(Tail(s), o)
<1>1. PICK j \in 1 .. Len(s), i \in 1 .. Len(s) :
        /\ j < i
        /\ s[j].op = "call" /\ s[j].arg \in Installers(o)
        /\ s[i].op = "registerIfDeployed" /\ s[i].arg \in Removers(o)
        /\ \A k \in 1 .. i - 1 : k = j \/ s[k].op \notin Hasty
        /\ \A k \in 1 .. Len(s) : Makes(s[k], o) => k = j
    BY DEF Lends
<1>2. /\ Len(s) \in Nat \ {0} /\ Len(Tail(s)) = Len(s) - 1 /\ Head(s) = s[1]
      /\ Tail(s) \in Seq(Steps)
      /\ \A k \in 1 .. Len(Tail(s)) : Tail(s)[k] = s[k + 1] /\ k + 1 \in 1 .. Len(s)
    BY TailIndices
<1>3. o \notin MakerSet BY DEF Lends
<1>4. i - 1 \in 1 .. Len(Tail(s)) /\ i - 1 + 1 = i /\ Tail(s)[i - 1] = s[i]
    <2>1. i - 1 \in 1 .. Len(Tail(s)) /\ i - 1 + 1 = i BY <1>1, <1>2
    <2> QED BY <1>2, <2>1
<1>5. \A k \in 1 .. (i - 1) - 1 : k + 1 \in 1 .. i - 1 /\ Tail(s)[k] = s[k + 1]
    <2> SUFFICES ASSUME NEW k \in 1 .. (i - 1) - 1
                 PROVE  k + 1 \in 1 .. i - 1 /\ Tail(s)[k] = s[k + 1]
        OBVIOUS
    <2>1. k \in 1 .. Len(Tail(s)) /\ k + 1 \in 1 .. i - 1 BY <1>2
    <2> QED BY <1>2, <2>1
<1>6. CASE j = 1
    <2>1. \A k \in 1 .. (i - 1) - 1 : Tail(s)[k].op \notin Hasty
        BY <1>1, <1>5, <1>6
    <2>2. Conditional(Tail(s), o)
        BY <1>1, <1>3, <1>4, <2>1 DEF Conditional
    <2>3. ASSUME NEW x \in Range(Tail(s)) PROVE ~Makes(x, o)
        <3>0. Range(Tail(s)) = {Tail(s)[k] : k \in 1 .. Len(Tail(s))} BY <1>2, RangeEquality
        <3>1. PICK k \in 1 .. Len(Tail(s)) : x = Tail(s)[k] BY <3>0
        <3>2. x = s[k + 1] /\ k + 1 \in 1 .. Len(s) /\ k + 1 # 1 BY <1>2, <3>1
        <3> QED BY <1>1, <1>6, <3>2
    <2> QED BY <1>1, <1>2, <1>6, <2>2, <2>3 DEF MakesSome
<1>7. CASE j # 1
    <2>1. 1 \in 1 .. i - 1 /\ 1 \in 1 .. Len(s) BY <1>1, <1>7
    <2>2. Head(s).op \notin Hasty /\ ~Makes(Head(s), o) BY <1>1, <1>2, <1>7, <2>1
    <2>3. j - 1 \in 1 .. Len(Tail(s)) /\ j - 1 + 1 = j /\ Tail(s)[j - 1] = s[j] /\ j - 1 < i - 1
        <3>1. j - 1 \in 1 .. Len(Tail(s)) /\ j - 1 + 1 = j /\ j - 1 < i - 1 BY <1>1, <1>2, <1>7
        <3> QED BY <1>2, <3>1
    <2>4. \A k \in 1 .. (i - 1) - 1 : k = j - 1 \/ Tail(s)[k].op \notin Hasty
        <3> SUFFICES ASSUME NEW k \in 1 .. (i - 1) - 1, Tail(s)[k].op \in Hasty PROVE k = j - 1
            OBVIOUS
        <3>1. k + 1 = j BY <1>1, <1>5
        <3> QED BY <3>1
    <2>5. \A k \in 1 .. Len(Tail(s)) : Makes(Tail(s)[k], o) => k = j - 1
        <3> SUFFICES ASSUME NEW k \in 1 .. Len(Tail(s)), Makes(Tail(s)[k], o) PROVE k = j - 1
            OBVIOUS
        <3>1. k + 1 = j BY <1>1, <1>2
        <3> QED BY <3>1
    <2>6. Lends(Tail(s), o)
        BY <1>1, <1>3, <1>4, <2>3, <2>4, <2>5 DEF Lends
    <2> QED BY <2>2, <2>6
<1> QED BY <1>6, <1>7

LEMMA TailFollows ==
    ASSUME NEW s \in Seq(Steps), s # <<>>, NEW o, Follows(s, o)
    PROVE  Follows(Tail(s), o)
<1>1. /\ Len(s) \in Nat \ {0} /\ Len(Tail(s)) = Len(s) - 1
      /\ \A k \in 1 .. Len(Tail(s)) : Tail(s)[k] = s[k + 1] /\ k + 1 \in 1 .. Len(s)
    BY TailIndices
<1> SUFFICES ASSUME Maker[o] # None, NEW i \in 1 .. Len(Tail(s)), Ends(Tail(s)[i], Maker[o])
             PROVE  \E j \in i + 1 .. Len(Tail(s)) : Ends(Tail(s)[j], o)
    BY DEF Follows
<1>2. i + 1 \in 1 .. Len(s) /\ Ends(s[i + 1], Maker[o]) BY <1>1
<1>3. PICK j \in i + 1 + 1 .. Len(s) : Ends(s[j], o) BY <1>2 DEF Follows
<1>4. j - 1 \in i + 1 .. Len(Tail(s)) /\ j - 1 \in 1 .. Len(Tail(s)) /\ j - 1 + 1 = j
    BY <1>1
<1>5. Tail(s)[j - 1] = s[j] BY <1>1, <1>4
<1> QED BY <1>3, <1>4, <1>5

LEMMA TailHas ==
    ASSUME NEW s \in Seq(Steps), s # <<>>
    PROVE  /\ \A op : \A args : Has(Tail(s), op, args) => Has(s, op, args)
           /\ \A op : \A args :
                  Has(s, op, args) => Has(Tail(s), op, args) \/ (Head(s).op = op /\ Head(s).arg \in args)
           /\ \A op : HasOp(Tail(s), op) => HasOp(s, op)
           /\ \A op : HasOp(s, op) => HasOp(Tail(s), op) \/ Head(s).op = op
           /\ HasOp(s, Head(s).op)
           /\ \A args : Head(s).arg \in args => Has(s, Head(s).op, args)
           /\ \A o : MakesSome(s, o) <=> Makes(Head(s), o) \/ MakesSome(Tail(s), o)
           /\ Straight(s) <=> Head(s).op # "returnIfInstalled" /\ Straight(Tail(s))
           /\ Renews(Tail(s)) => Renews(s)
<1>1. Range(s) = {Head(s)} \cup Range(Tail(s)) BY RangeOfTail
<1>2. /\ \A op : \A args : Has(Tail(s), op, args) => Has(s, op, args)
      /\ \A op : \A args :
             Has(s, op, args) => Has(Tail(s), op, args) \/ (Head(s).op = op /\ Head(s).arg \in args)
      /\ \A args : Head(s).arg \in args => Has(s, Head(s).op, args)
    BY <1>1 DEF Has
<1>3. /\ \A op : HasOp(Tail(s), op) => HasOp(s, op)
      /\ \A op : HasOp(s, op) => HasOp(Tail(s), op) \/ Head(s).op = op
      /\ HasOp(s, Head(s).op)
    BY <1>1 DEF HasOp
<1>4. \A o : MakesSome(s, o) <=> Makes(Head(s), o) \/ MakesSome(Tail(s), o)
    BY <1>1 DEF MakesSome
<1> QED BY <1>2, <1>3, <1>4 DEF Straight, Renews

\* What frame fr sees to, it sees to when its first step is done, unless that step
\* removes, calls or registers.
LEMMA FrameAhead ==
    ASSUME NEW fr \in Frames, NEW gr \in Frames, fr.rest # <<>>,
           gr.rest = Tail(fr.rest), gr.defers = fr.defers,
           Head(fr.rest).op # "defer", NEW o
    PROVE  LET h == Head(fr.rest)
           IN /\ Own(fr, o) =>
                     \/ Own(gr, o)
                     \/ ~MakesSome(fr.rest, o) /\ Ends(h, o)
                     \/ ~MakesSome(fr.rest, o) /\ h.op = "call" /\ h.arg \in Removers(o)
              /\ Flushes(fr) => Flushes(gr)
              /\ MayFlush(gr) => MayFlush(fr)
              /\ Registers(fr.rest, o) =>
                     Registers(gr.rest, o) \/ (h.op = "register" /\ h.arg \in Removers(o))
              /\ Flushing(fr.rest) =>
                     h.op \in {"saveLogs", "cleanups"} /\ (h.op = "saveLogs" => Flushing(gr.rest))
<1> DEFINE s == fr.rest
           h == Head(s)
<1>1. s \in Seq(Steps) /\ s # <<>> BY DEF Frames
<1>2. Range(s) = {h} \cup Range(Tail(s)) BY <1>1, RangeOfTail
<1>3. Straight(s) => Straight(Tail(s)) BY <1>1, TailHas
<1>4. \A op : \A args :
          Has(s, op, args) => Has(Tail(s), op, args) \/ (h.op = op /\ h.arg \in args)
    BY <1>1, TailHas
<1>5. Own(fr, o) => \/ Own(gr, o)
                    \/ ~MakesSome(s, o) /\ Ends(h, o)
                    \/ ~MakesSome(s, o) /\ h.op = "call" /\ h.arg \in Removers(o)
    <2>1. ~MakesSome(s, o) => ~MakesSome(Tail(s), o) BY <1>1, TailHas
    <2> QED BY <1>2, <1>3, <1>4, <2>1 DEF Own
<1>6. Flushes(fr) => Flushes(gr)
    BY <1>3, <1>4 DEF Flushes
<1>7. MayFlush(gr) => MayFlush(fr)
    BY <1>1, TailHas DEF MayFlush
<1>8. Registers(s, o) => Registers(gr.rest, o) \/ (h.op = "register" /\ h.arg \in Removers(o))
    BY <1>3, <1>4 DEF Registers
<1>9. Flushing(s) => h.op \in {"saveLogs", "cleanups"} /\ (h.op = "saveLogs" => Flushing(gr.rest))
    BY <1>2 DEF Flushing, HasOp
<1> HIDE DEF s, h
<1> QED BY <1>5, <1>6, <1>7, <1>8, <1>9 DEF s, h

\* What has a return in it sees to nothing but by what it has deferred.
LEMMA FrameWithReturn ==
    ASSUME NEW fr, ~Straight(fr.rest), NEW o
    PROVE  /\ Own(fr, o) => \E x \in Range(fr.defers) : x \in Removers(o)
           /\ Flushes(fr) => \E x \in Range(fr.defers) : x \in Flushers
           /\ ~Registers(fr.rest, o) /\ ~Flushing(fr.rest)
<1>1. HasOp(fr.rest, "returnIfInstalled") BY DEF Straight
<1>2. ~Flushing(fr.rest) BY <1>1 DEF Flushing, HasOp
<1> QED BY <1>2 DEF Own, Flushes, Registers

\* A frame with nothing left but what it has deferred.
LEMMA EmptyFrame ==
    ASSUME NEW fr, fr.rest = <<>>, NEW o
    PROVE  /\ Own(fr, o) => \E x \in Range(fr.defers) : x \in Removers(o)
           /\ Flushes(fr) => \E x \in Range(fr.defers) : x \in Flushers
           /\ MayFlush(fr) => \E x \in Range(fr.defers) : x \in Flushers
           /\ ~Registers(fr.rest, o) /\ ~Flushing(fr.rest)
<1>1. \A op : ~HasOp(<<>>, op) /\ \A args : ~Has(<<>>, op, args)
    BY NothingLeft
<1>2. ~\E x \in Range(<<>>) : Ends(x, o) BY RangeOfEmpty
<1>3. ~Registers(<<>>, o) /\ ~Flushing(<<>>) BY NothingLeft
<1> QED BY <1>1, <1>2, <1>3 DEF Own, Flushes, MayFlush

\* A script that removes o does so from its first step.
LEMMA RemoverOwns ==
    ASSUME NEW o, NEW x \in Removers(o)
    PROVE  Own(NewFrame(Body[x]), o)
<1>1. NewFrame(Body[x]).rest = Body[x] BY DEF NewFrame
<1>2. CASE x \in Takers(o)
    BY <1>1, <1>2 DEF Takers, Own
<1>3. CASE x \notin Takers(o)
    <2>1. Straight(Body[x]) /\ Has(Body[x], "defer", Takers(o)) BY <1>3 DEF Removers
    <2>2. Has(Body[x], "defer", Removers(o)) BY <2>1 DEF Has, Removers
    <2> QED BY <1>1, <2>1, <2>2 DEF Own
<1> QED BY <1>2, <1>3

----------------------------------------------------------------------------
(* Frames that are as they were see to what they saw to. *)

Same(f, g, m) == \A n \in 1 .. m : g[n] = f[n]

LEMMA SamePend ==
    ASSUME NEW f, NEW g, NEW k \in Nat, Same(f, g, k), NEW m \in Nat, m <= k
    PROVE  Pend(f, m) <=> Pend(g, m)
<1>1. \A n \in 1 .. m : n \in 1 .. k OBVIOUS
<1> QED BY <1>1 DEF Pend, Same

LEMMA PendGrows ==
    ASSUME NEW f, NEW m \in Nat, NEW k \in Nat, m <= k, Pend(f, m)
    PROVE  Pend(f, k)
<1>1. \A n \in 1 .. m : n \in 1 .. k OBVIOUS
<1> QED BY <1>1 DEF Pend

LEMMA OwedGrows ==
    ASSUME NEW f, NEW c, NEW o, NEW m \in Nat, NEW k \in Nat, m <= k, Owed(f, c, m, o)
    PROVE  Owed(f, c, k, o)
<1>1. \A n \in 1 .. m : n \in 1 .. k OBVIOUS
<1> QED BY <1>1 DEF Owed

LEMMA OwedBy ==
    ASSUME NEW f, NEW c, NEW o, NEW m \in Nat, NEW n \in 1 .. m, FrameSees(f, c, n, o)
    PROVE  Owed(f, c, m, o)
BY DEF Owed

\* While the executing frame is pending, what is registered is owed.
LEMMA OwedByCleanup ==
    ASSUME NEW f, NEW c, NEW o, NEW m \in Nat, Pend(f, m), InCleanups(c, o)
    PROVE  Owed(f, c, m, o)
BY DEF Owed, FrameSees, Pend

LEMMA SameOwed ==
    ASSUME NEW f, NEW g, NEW c, NEW e, NEW o, NEW k \in Nat, Same(f, g, k),
           InCleanups(c, o) => InCleanups(e, o),
           NEW m \in Nat, m <= k, Owed(f, c, m, o)
    PROVE  Owed(g, e, m, o)
<1>1. PICK n \in 1 .. m : FrameSees(f, c, n, o) BY DEF Owed
<1>2. n \in 1 .. k /\ n \in Nat /\ n <= k OBVIOUS
<1>3. Pend(f, n) => Pend(g, n) BY <1>2, SamePend
<1>4. g[n] = f[n] BY <1>2 DEF Same
<1>5. FrameSees(g, e, n, o) BY <1>1, <1>3, <1>4 DEF FrameSees
<1> QED BY <1>5 DEF Owed

\* What is owed is still owed if the innermost frame's share is.
LEMMA OwedCarried ==
    ASSUME NEW f \in Seq(Frames), f # <<>>, NEW g, NEW c, NEW e, NEW o,
           Same(f, g, Len(f) - 1), InCleanups(c, o) => InCleanups(e, o),
           NEW m \in Nat, Len(f) - 1 <= m,
           FrameSees(f, c, Len(f), o) => Owed(g, e, m, o),
           Owed(f, c, Len(f), o)
    PROVE  Owed(g, e, m, o)
<1>1. Len(f) \in Nat \ {0} /\ Len(f) - 1 \in Nat OBVIOUS
<1>2. PICK n \in 1 .. Len(f) : FrameSees(f, c, n, o) BY DEF Owed
<1>3. CASE n = Len(f) BY <1>2, <1>3
<1>4. CASE n # Len(f)
    <2> DEFINE k == Len(f) - 1
    <2>1. n \in 1 .. k /\ k \in Nat /\ k <= m /\ k <= k /\ Same(f, g, k) BY <1>1, <1>4
    <2> HIDE DEF k
    <2>2. Owed(f, c, k, o) BY <1>2, <2>1 DEF Owed
    <2>3. Owed(g, e, k, o) BY <2>1, <2>2, SameOwed
    <2> QED BY <2>1, <2>3, OwedGrows
<1> QED BY <1>3, <1>4


LEMMA OwedInnermost ==
    ASSUME NEW f \in Seq(Frames), f # <<>>, NEW g, NEW c, NEW e, NEW o,
           Same(f, g, Len(f) - 1), InCleanups(c, o) => InCleanups(e, o),
           FrameSees(f, c, Len(f), o) => Owed(g, e, Len(f), o),
           Owed(f, c, Len(f), o)
    PROVE  Owed(g, e, Len(f), o)
<1>1. Len(f) \in Nat /\ Len(f) - 1 <= Len(f) OBVIOUS
<1> QED BY <1>1, OwedCarried

LEMMA PendCarried ==
    ASSUME NEW f \in Seq(Frames), f # <<>>, NEW g, Same(f, g, Len(f) - 1),
           Flushes(f[Len(f)]) => Flushes(g[Len(f)]), Pend(f, Len(f))
    PROVE  Pend(g, Len(f))
<1>1. Len(f) \in Nat \ {0} OBVIOUS
<1>2. PICK n \in 1 .. Len(f) : Flushes(f[n]) BY DEF Pend
<1>3. n \in 1 .. Len(f) - 1 \/ n = Len(f) BY <1>1
<1>4. Flushes(g[n]) BY <1>2, <1>3 DEF Same
<1> QED BY <1>4 DEF Pend

----------------------------------------------------------------------------
(* The frames stay in order. *)

\* The innermost frame has less to do.
LEMMA OrderlyReplaced ==
    ASSUME NEW f \in Seq(Frames), f # <<>>, NEW g, NEW c, NEW e,
           Same(f, g, Len(f) - 1), Orderly(f, c, Len(f)),
           \A x \in Range(e) : x \in Safe,
           Range(g[Len(f)].rest) \subseteq Range(f[Len(f)].rest),
           \A x \in Range(g[Len(f)].defers) : x \in Safe,
           Flushes(f[Len(f)]) => Flushes(g[Len(f)]),
           MayFlush(g[Len(f)]) => MayFlush(f[Len(f)]),
           \A o \in Roots : Follows(g[Len(f)].rest, o)
    PROVE  Orderly(g, e, Len(f))
<1> DEFINE D == Len(f)
<1>1. D \in Nat \ {0} OBVIOUS
<1>2. \A n \in 1 .. D : n # D => n \in 1 .. D - 1 /\ g[n] = f[n] BY <1>1 DEF Same
<1>3. \A n \in 1 .. D : Renews(g[n].rest) => Renews(f[n].rest)
    BY <1>2 DEF Renews, Has, HasOp
<1>4. \A n \in 1 .. D : MayFlush(g[n]) => MayFlush(f[n])
    BY <1>2
<1>5. \A n \in 1 .. D : Pend(f, n) => Pend(g, n)
    <2> SUFFICES ASSUME NEW n \in 1 .. D, Pend(f, n) PROVE Pend(g, n) OBVIOUS
    <2>1. CASE n = D BY <2>1, PendCarried
    <2>2. CASE n # D
        <3> DEFINE k == D - 1
        <3>1. n \in Nat /\ k \in Nat /\ n <= k /\ Same(f, g, k) BY <1>1, <2>2
        <3> HIDE DEF k
        <3> QED BY <3>1, SamePend
    <2> QED BY <2>1, <2>2
<1>6. \A n \in 1 .. D : Has(g[n].rest, "call", Borrowers) => Has(f[n].rest, "call", Borrowers)
    BY <1>2 DEF Has
<1>7. \A n \in 1 .. D : Range(g[n].rest) \subseteq Range(f[n].rest)
    BY <1>2
<1>8. \A n \in 1 .. D : /\ \A x \in Range(g[n].rest) : IsSafe(x)
                        /\ \A x \in Range(g[n].defers) : x \in Safe
                        /\ \A o \in Roots : Follows(g[n].rest, o)
    BY <1>2, <1>7 DEF Orderly
<1>9. \A n \in 1 .. D : Has(g[n].rest, "call", Borrowers) => Pend(g, n)
    BY <1>5, <1>6 DEF Orderly
<1>10. ASSUME NEW n \in 1 .. D, MayFlush(g[n]), NEW k \in n .. D PROVE ~Renews(g[k].rest)
    <2>1. k \in 1 .. D BY <1>1
    <2>2. ~Renews(f[k].rest) BY <1>4, <1>10 DEF Orderly
    <2> QED BY <1>3, <2>1, <2>2
<1> HIDE DEF D
<1>11. Orderly(g, e, D) BY <1>8, <1>9, <1>10 DEF Orderly
<1> QED BY <1>11 DEF D

\* A frame on top of m others.
LEMMA OrderlyNext ==
    ASSUME NEW g, NEW e, NEW m \in Nat, Orderly(g, e, m),
           NEW fr, g[m + 1] = fr,
           \A x \in Range(fr.rest) : IsSafe(x),
           \A x \in Range(fr.defers) : x \in Safe,
           Has(fr.rest, "call", Borrowers) => Flushes(fr),
           \A o \in Roots : Follows(fr.rest, o),
           MayFlush(fr) => ~Renews(fr.rest),
           \A n \in 1 .. m : MayFlush(g[n]) => ~Renews(fr.rest)
    PROVE  Orderly(g, e, m + 1)
<1>1. \A n \in 1 .. m + 1 : n \in 1 .. m \/ n = m + 1 OBVIOUS
<1>2. \A n \in 1 .. m + 1 : /\ \A x \in Range(g[n].rest) : IsSafe(x)
                            /\ \A x \in Range(g[n].defers) : x \in Safe
                            /\ \A o \in Roots : Follows(g[n].rest, o)
    BY <1>1 DEF Orderly
<1>3. \A n \in 1 .. m + 1 : Has(g[n].rest, "call", Borrowers) => Pend(g, n)
    <2>1. Flushes(fr) => Pend(g, m + 1)
        <3>1. m + 1 \in 1 .. m + 1 OBVIOUS
        <3> QED BY <3>1 DEF Pend
    <2> QED BY <1>1, <2>1 DEF Orderly
<1>4. ASSUME NEW n \in 1 .. m + 1, MayFlush(g[n]), NEW k \in n .. m + 1 PROVE ~Renews(g[k].rest)
    <2>1. CASE k = m + 1
        BY <1>1, <1>4, <2>1
    <2>2. CASE k # m + 1
        <3>1. n \in 1 .. m /\ k \in n .. m BY <2>2
        <3> QED BY <1>4, <3>1 DEF Orderly
    <2> QED BY <2>1, <2>2
<1>5. \A x \in Range(e) : x \in Safe BY DEF Orderly
<1> QED BY <1>2, <1>3, <1>4, <1>5 DEF Orderly

\* The outermost frames are in order.
LEMMA OrderlyLess ==
    ASSUME NEW f, NEW g, NEW c, NEW m \in Nat, NEW k \in Nat, k <= m,
           Same(f, g, k), Orderly(f, c, m)
    PROVE  Orderly(g, c, k)
<1>1. \A n \in 1 .. k : n \in 1 .. m /\ g[n] = f[n] BY DEF Same
<1>2. \A n \in 1 .. k : Pend(f, n) => Pend(g, n)
    <2> SUFFICES ASSUME NEW n \in 1 .. k PROVE Pend(f, n) => Pend(g, n) OBVIOUS
    <2>1. n \in Nat /\ n <= k OBVIOUS
    <2> QED BY <2>1, SamePend
<1>3. ASSUME NEW n \in 1 .. k, MayFlush(g[n]), NEW j \in n .. k PROVE ~Renews(g[j].rest)
    <2>1. j \in 1 .. k /\ j \in n .. m OBVIOUS
    <2> QED BY <1>1, <1>3, <2>1 DEF Orderly
<1> QED BY <1>1, <1>2, <1>3 DEF Orderly

\* A script that the specs reach is in order from its first step.
LEMMA OrderlyScript ==
    ASSUME Paired, NEW x \in InUse, NEW fr, fr = NewFrame(Body[x])
    PROVE  /\ \A y \in Range(fr.rest) : IsSafe(y)
           /\ \A y \in Range(fr.defers) : y \in Safe
           /\ Has(fr.rest, "call", Borrowers) => Flushes(fr)
           /\ \A o \in Roots : Follows(fr.rest, o)
           /\ MayFlush(fr) => ~Renews(fr.rest)
<1>1. fr.rest = Body[x] /\ fr.defers = <<>> /\ Range(<<>>) = {}
    BY RangeOfEmpty DEF NewFrame
<1>2. x \in Scripts BY DEF Paired, SpecsSeeTo
<1>3. /\ \A y \in Range(Body[x]) : IsSafe(y)
      /\ Has(Body[x], "call", Borrowers) => Flushes(fr)
      /\ MayFlush(fr) => ~Renews(Body[x])
    BY DEF Paired, StepsAreSafe, CallersFlush, FlushersRenewNot
<1>4. \A o \in Roots : Follows(Body[x], o)
    BY <1>2 DEF Paired, PodsFollow
<1> QED BY <1>1, <1>3, <1>4

\* What it makes is seen to, by itself or by the caller that executes the cleanups.
LEMMA ScriptSees ==
    ASSUME Paired, NEW x \in InUse, NEW g, NEW c, NEW m \in Nat \ {0}, g[m] = NewFrame(Body[x]),
           Len(g) = m, x \notin Borrowers \/ Pend(g, m - 1),
           NEW o \in Roots, MakesSome(Body[x], o), x \notin Leaves(o)
    PROVE  Owed(g, c, m, o) \/ Lending(g, o)
<1>1. g[m].rest = Body[x] BY DEF NewFrame
<1>2. SeesTo(x, o) BY DEF Paired, MakersSeeTo
<1>3. m \in 1 .. m /\ m - 1 \in Nat /\ m - 1 <= m OBVIOUS
<1>4. CASE Own(NewFrame(Body[x]), o)
    BY <1>3, <1>4 DEF Owed, FrameSees
<1>5. CASE ~Own(NewFrame(Body[x]), o)
    <2>1. Pend(g, m)
        <3>1. CASE Flushes(NewFrame(Body[x])) BY <1>3, <3>1 DEF Pend
        <3>2. CASE Pend(g, m - 1)
            <4> DEFINE k == m - 1
            <4>1. k \in Nat /\ k <= m /\ Pend(g, k) BY <1>3, <3>2
            <4> HIDE DEF k
            <4> QED BY <4>1, PendGrows
        <3> QED BY <1>2, <1>5, <3>1, <3>2 DEF SeesTo
    <2>2. CASE Registers(Body[x], o)
        BY <1>1, <1>3, <2>1, <2>2 DEF Owed, FrameSees
    <2>3. CASE Lends(Body[x], o)
        BY <1>1, <2>1, <2>3 DEF Lending
    <2> QED BY <1>2, <1>5, <2>2, <2>3 DEF SeesTo
<1> QED BY <1>4, <1>5

----------------------------------------------------------------------------
(* The steps of the innermost frame. *)

Tidy(f, c, d) == Sees(f, c, d) /\ Orderly(f, c, Len(f))

\* Frames f and g differ in the innermost one, of which g has the first step done.
OneAhead(f, g) ==
    /\ f # <<>> /\ Len(f) \in 1 .. Len(g) /\ Same(f, g, Len(f) - 1)
    /\ f[Len(f)].rest # <<>>
    /\ g[Len(f)].rest = Tail(f[Len(f)].rest)
    /\ g[Len(f)].defers = f[Len(f)].defers
FirstStep(f) == Head(f[Len(f)].rest)

LEMMA InnermostFrame ==
    ASSUME NEW f \in Seq(Frames), f # <<>>
    PROVE  Len(f) \in Nat \ {0} /\ f[Len(f)] \in Frames /\ Len(f) \in 1 .. Len(f)
OBVIOUS

LEMMA OneAheadFrames ==
    ASSUME NEW f \in Seq(Frames), NEW g \in Seq(Frames), OneAhead(f, g)
    PROVE  LET D == Len(f)
           IN /\ D \in Nat \ {0} /\ D \in 1 .. D /\ f[D] \in Frames /\ g[D] \in Frames
              /\ f[D].rest \in Seq(Steps) /\ f # <<>> /\ f[D].rest # <<>> /\ g # <<>>
              /\ FirstStep(f) = Head(f[D].rest) /\ FirstStep(f) \in Range(f[D].rest)
              /\ g[D].rest = Tail(f[D].rest) /\ g[D].defers = f[D].defers
              /\ Same(f, g, D - 1)
<1>1. Len(f) \in 1 .. Len(g) BY DEF OneAhead
<1>2. g[Len(f)] \in Frames
    <2> DEFINE D == Len(f)
    <2>1. D \in 1 .. Len(g) BY <1>1
    <2> HIDE DEF D
    <2>2. g[D] \in Frames BY <2>1
    <2> QED BY <2>2 DEF D
<1>3. g # <<>> BY <1>1
<1>4. f # <<>> /\ f[Len(f)].rest # <<>> BY DEF OneAhead
<1>5. f[Len(f)] \in Frames /\ f[Len(f)].rest \in Seq(Steps)
    BY <1>4, InnermostFrame DEF Frames
<1>6. Head(f[Len(f)].rest) \in Range(f[Len(f)].rest) BY <1>4, <1>5, RangeOfTail
<1> QED BY <1>2, <1>3, <1>4, <1>5, <1>6, InnermostFrame DEF OneAhead, FirstStep

LEMMA AheadOrderly ==
    ASSUME Paired, NEW f \in Seq(Frames), NEW g \in Seq(Frames), OneAhead(f, g),
           FirstStep(f).op # "defer", NEW c, Orderly(f, c, Len(f)),
           NEW e, \A x \in Range(e) : x \in Safe
    PROVE  /\ Orderly(g, e, Len(f))
           /\ Flushes(f[Len(f)]) => Flushes(g[Len(f)])
           /\ Pend(f, Len(f)) => Pend(g, Len(f))
<1> DEFINE D == Len(f)
           fr == f[D]
           gr == g[D]
<1>1. /\ D \in 1 .. D /\ fr \in Frames /\ gr \in Frames /\ fr.rest \in Seq(Steps)
      /\ f # <<>> /\ fr.rest # <<>> /\ gr.rest = Tail(fr.rest) /\ gr.defers = fr.defers
      /\ Same(f, g, D - 1)
    BY OneAheadFrames
<1>2. (Flushes(fr) => Flushes(gr)) /\ (MayFlush(gr) => MayFlush(fr))
    BY <1>1, FrameAhead DEF FirstStep
<1>3. Range(gr.rest) \subseteq Range(fr.rest) BY <1>1, RangeOfTail
<1>4. \A x \in Range(gr.defers) : x \in Safe BY <1>1 DEF Orderly
<1>5. \A o \in Roots : Follows(gr.rest, o) BY <1>1, TailFollows DEF Orderly
<1>6. Orderly(g, e, D) BY <1>1, <1>2, <1>3, <1>4, <1>5, OrderlyReplaced
<1>7. Pend(f, D) => Pend(g, D) BY <1>1, <1>2, PendCarried
<1> QED BY <1>1, <1>2, <1>6, <1>7

\* A step that registers, installs, makes or ends something, or none of these.
LEMMA StepAhead ==
    ASSUME Paired, NEW f \in Seq(Frames), NEW g \in Seq(Frames), OneAhead(f, g), Len(g) = Len(f),
           FirstStep(f).op \notin Hasty,
           NEW c, NEW e, NEW d, NEW b, Tidy(f, c, d),
           \A x \in Range(c) : x \in Range(e),
           \A x \in Range(e) :
               \/ x \in Range(c)
               \/ x = FirstStep(f).arg /\ FirstStep(f).op \in {"register", "registerIfDeployed"},
           FirstStep(f).op = "register" => FirstStep(f).arg \in Range(e),
           FirstStep(f).op = "registerIfDeployed" /\ d => FirstStep(f).arg \in Range(e),
           d \/ FirstStep(f).op = "installed" => b
    PROVE  /\ Tidy(g, e, b)
           /\ \A o \in Roots :
                  /\ Covered(f, c, d, o) \/ Makes(FirstStep(f), o)
                  /\ ~Ends(FirstStep(f), o)
                  => Covered(g, e, b, o)
<1> DEFINE D == Len(f)
           fr == f[D]
           gr == g[D]
           h == FirstStep(f)
<1>1. /\ D \in Nat \ {0} /\ D \in 1 .. D /\ fr \in Frames /\ gr \in Frames
      /\ fr.rest \in Seq(Steps) /\ f # <<>> /\ fr.rest # <<>> /\ gr.rest = Tail(fr.rest)
      /\ gr.defers = fr.defers /\ Len(g) = D /\ Same(f, g, D - 1) /\ h = Head(fr.rest)
      /\ g # <<>>
    BY InnermostFrame DEF OneAhead, Frames, FirstStep
<1>2. /\ h.op \notin {"call", "defer", "cleanups", "newContext", "returnIfInstalled"}
      /\ Orderly(f, c, D) /\ Sees(f, c, d)
    BY DEF Hasty, Tidy
<1>3. \A x \in Range(e) : x \in Safe
    <2>1. h \in Range(fr.rest) BY <1>1, RangeOfTail
    <2>2. IsSafe(h) BY <1>1, <1>2, <2>1 DEF Orderly
    <2> QED BY <1>2, <2>2 DEF Orderly, IsSafe
<1>4. /\ Orderly(g, e, D) /\ (Flushes(fr) => Flushes(gr)) /\ (Pend(f, D) => Pend(g, D))
    BY <1>1, <1>2, <1>3, AheadOrderly
<1>5. \A o : InCleanups(c, o) => InCleanups(e, o) BY DEF InCleanups
<1>6. ASSUME NEW o, Owed(f, c, D, o), ~Ends(h, o) \/ MakesSome(fr.rest, o)
      PROVE  Owed(g, e, D, o)
    <2>1. /\ Own(fr, o) => \/ Own(gr, o)
                           \/ ~MakesSome(fr.rest, o) /\ Ends(h, o)
                           \/ ~MakesSome(fr.rest, o) /\ h.op = "call" /\ h.arg \in Removers(o)
          /\ Registers(fr.rest, o) =>
                 Registers(gr.rest, o) \/ (h.op = "register" /\ h.arg \in Removers(o))
          /\ Flushing(fr.rest) =>
                 h.op \in {"saveLogs", "cleanups"} /\ (h.op = "saveLogs" => Flushing(gr.rest))
        BY <1>1, <1>2, FrameAhead
    <2>2. Pend(g, D) /\ InCleanups(e, o) => Owed(g, e, D, o)
        BY <1>1, OwedByCleanup
    <2>3. h.op = "register" /\ h.arg \in Removers(o) => InCleanups(e, o)
        BY DEF InCleanups
    <2>4. FrameSees(g, e, D, o) => Owed(g, e, D, o)
        BY <1>1, OwedBy
    <2>5. FrameSees(f, c, D, o) => Owed(g, e, D, o)
        BY <1>2, <1>4, <1>5, <1>6, <2>1, <2>2, <2>3, <2>4 DEF FrameSees
    <2> QED BY <1>1, <1>5, <1>6, <2>5, OwedInnermost
<1>7. ASSUME NEW o, Reported(f, d, o) PROVE Reported(g, b, o) \/ Owed(g, e, D, o)
    <2>1. Pend(f, D) /\ d /\ Conditional(fr.rest, o) BY <1>7 DEF Reported
    <2>2. Conditional(gr.rest, o) \/ (h.op = "registerIfDeployed" /\ h.arg \in Removers(o))
        BY <1>1, <2>1, TailConditional
    <2>3. h.op = "registerIfDeployed" /\ h.arg \in Removers(o) => InCleanups(e, o)
        BY <2>1 DEF InCleanups
    <2>4. InCleanups(e, o) => Owed(g, e, D, o)
        BY <1>1, <1>4, <2>1, OwedByCleanup
    <2> QED BY <1>1, <1>4, <2>1, <2>2, <2>3, <2>4 DEF Reported
<1>8. ASSUME NEW o, Under(f, o) PROVE Under(g, o)
    <2> DEFINE k == D - 1
    <2>1. k \in Nat /\ k <= k /\ D > 1 /\ Pend(f, k) /\ Conditional(f[k].rest, o) /\ fr.defers = <<>>
        BY <1>1, <1>8 DEF Under
    <2>2. Same(f, g, k) BY <1>1
    <2>3. g[k] = f[k] BY <2>1, <2>2 DEF Same
    <2> HIDE DEF k
    <2>4. Pend(g, k) BY <2>1, <2>2, SamePend
    <2> QED BY <1>1, <2>1, <2>3, <2>4 DEF Under, k
<1>9. ASSUME NEW o, Reporting(f, d, o) PROVE Reporting(g, b, o)
    <2>1. Range(fr.rest) = {h} \cup Range(gr.rest) BY <1>1, RangeOfTail
    <2>2. /\ \A x \in Range(gr.rest) : x.op \notin Hasty
          /\ b \/ HasOp(gr.rest, "installed")
        BY <1>9, <2>1 DEF Reporting, HasOp
    <2> QED BY <1>1, <1>8, <1>9, <2>2 DEF Reporting
<1>10. ASSUME NEW o, Lending(f, o) PROVE Lending(g, o) /\ ~Makes(h, o)
    <2>1. Lends(gr.rest, o) /\ ~Makes(h, o)
        BY <1>1, <1>2, <1>10, TailLends DEF Lending
    <2> QED BY <1>1, <1>4, <1>10, <2>1 DEF Lending
<1>11. ASSUME NEW o PROVE ~Looking(f, o)
    BY <1>1, <1>2 DEF Looking, InstallingOnce
<1>12. ASSUME NEW o, MakesSome(fr.rest, o), o \in Roots
       PROVE  \/ Owed(g, e, D, o)
              \/ Lending(g, o) /\ ~Makes(h, o)
              \/ Reporting(g, b, o)
    <2>1. Owed(f, c, D, o) \/ Lending(f, o) \/ Looking(f, o) \/ Reporting(f, d, o)
        BY <1>1, <1>2, <1>12 DEF Sees
    <2> QED BY <1>6, <1>9, <1>10, <1>11, <1>12, <2>1
<1>13. Sees(g, e, b)
    <2> SUFFICES ASSUME NEW o \in Roots, NEW m \in 1 .. D, MakesSome(g[m].rest, o)
                 PROVE  \/ Owed(g, e, m, o)
                        \/ m = D /\ (Lending(g, o) \/ Looking(g, o) \/ Reporting(g, b, o))
        BY <1>1 DEF Sees
    <2>1. CASE m = D
        <3>1. MakesSome(fr.rest, o) BY <1>1, <2>1, TailHas
        <3> QED BY <1>12, <2>1, <3>1
    <2>2. CASE m # D
        <3> DEFINE k == D - 1
        <3>1. m \in 1 .. k /\ m \in Nat /\ k \in Nat /\ m <= k /\ Same(f, g, k) BY <1>1, <2>2
        <3>2. g[m] = f[m] BY <3>1 DEF Same
        <3>3. Owed(f, c, m, o) BY <1>2, <2>2, <3>2 DEF Sees
        <3> HIDE DEF k
        <3> QED BY <1>5, <3>1, <3>3, SameOwed
    <2> QED BY <2>1, <2>2
<1>14. ASSUME NEW o \in Roots, Covered(f, c, d, o) \/ Makes(h, o), ~Ends(h, o)
       PROVE  Covered(g, e, b, o)
    <2>1. Makes(h, o) => MakesSome(fr.rest, o) BY <1>1, TailHas
    <2>2. Makes(h, o) => Owed(g, e, D, o) \/ Reporting(g, b, o)
        BY <1>12, <2>1
    <2>3. Covered(f, c, d, o) => Owed(g, e, D, o) \/ Reported(g, b, o) \/ Reporting(g, b, o)
        BY <1>6, <1>7, <1>9, <1>14 DEF Covered
    <2> QED BY <1>1, <1>14, <2>2, <2>3 DEF Covered
<1> QED BY <1>1, <1>4, <1>13, <1>14 DEF Tidy

\* No installer is at work, and none has reported, when the step at hand is of the others.
LEMMA HastyStep ==
    ASSUME NEW f \in Seq(Frames), f # <<>>, f[Len(f)].rest # <<>>,
           FirstStep(f).op \in Hasty, NEW d, NEW o
    PROVE  /\ ~Reported(f, d, o) /\ ~Reporting(f, d, o)
           /\ FirstStep(f).op # "call" => ~Lending(f, o)
           /\ FirstStep(f).op # "returnIfInstalled" => ~Looking(f, o)
<1> DEFINE s == f[Len(f)].rest
<1>1. s \in Seq(Steps) /\ s # <<>> /\ FirstStep(f) = Head(s)
    BY InnermostFrame DEF Frames, FirstStep
<1>2. Head(s) \in Range(s) BY <1>1, RangeOfTail
<1>3. ~Conditional(s, o) BY <1>1, TailConditional
<1>4. FirstStep(f).op # "call" => ~Lends(s, o) BY <1>1, TailLends
<1> QED
    BY <1>1, <1>2, <1>3, <1>4 DEF Reported, Reporting, Lending, Looking, InstallingOnce

\* The calls of the frames outside are seen to as before.
LEMMA SeesOutside ==
    ASSUME NEW f \in Seq(Frames), f # <<>>, NEW g, Same(f, g, Len(f) - 1),
           NEW c, NEW e, NEW d, Sees(f, c, d),
           NEW o \in Roots, InCleanups(c, o) => InCleanups(e, o),
           NEW m \in 1 .. Len(f) - 1, MakesSome(g[m].rest, o)
    PROVE  Owed(g, e, m, o)
<1> DEFINE k == Len(f) - 1
<1>1. /\ m \in 1 .. k /\ m \in Nat /\ k \in Nat /\ m <= k /\ Same(f, g, k)
      /\ m \in 1 .. Len(f) /\ m # Len(f)
    BY InnermostFrame
<1>2. g[m] = f[m] BY <1>1 DEF Same
<1>3. Owed(f, c, m, o) BY <1>1, <1>2 DEF Sees
<1> HIDE DEF k
<1> QED BY <1>1, <1>3, SameOwed

\* deployStrimziOperator returns at once if it finds the operator, with what its caller
\* has deferred or registered as it was.
LEMMA StepReturnIfInstalled ==
    ASSUME Paired, NEW f \in Seq(Frames), NEW g \in Seq(Frames),
           f # <<>>, Len(g) = Len(f), Same(f, g, Len(f) - 1), f[Len(f)].rest # <<>>,
           FirstStep(f).op = "returnIfInstalled",
           g[Len(f)].rest \in {Tail(f[Len(f)].rest), <<>>},
           g[Len(f)].defers = f[Len(f)].defers,
           NEW c, NEW d, Tidy(f, c, d)
    PROVE  Tidy(g, c, FALSE) /\ \A o \in Roots : Covered(f, c, d, o) => Covered(g, c, FALSE, o)
<1> DEFINE D == Len(f)
           fr == f[D]
           gr == g[D]
<1>1. /\ D \in Nat \ {0} /\ D \in 1 .. D /\ fr \in Frames /\ gr \in Frames
      /\ fr.rest \in Seq(Steps) /\ g # <<>> /\ FirstStep(f) = Head(fr.rest)
    BY InnermostFrame DEF Frames, FirstStep
<1>2. Sees(f, c, d) /\ Orderly(f, c, D) BY DEF Tidy
<1>3. ~Straight(fr.rest) BY <1>1, TailHas
<1>4. Flushes(fr) => Flushes(gr)
    BY <1>3, FrameWithReturn DEF Flushes
<1>5. ASSUME NEW o PROVE FrameSees(f, c, D, o) => FrameSees(g, c, D, o)
    <2>1. Own(fr, o) => Own(gr, o) BY <1>3, FrameWithReturn DEF Own
    <2> QED BY <1>3, <1>4, <2>1, FrameWithReturn DEF FrameSees
<1>6. ASSUME NEW o, Owed(f, c, D, o) PROVE Owed(g, c, D, o)
    <2>1. FrameSees(g, c, D, o) => Owed(g, c, D, o) BY <1>1, OwedBy
    <2> QED BY <1>1, <1>5, <1>6, <2>1, OwedInnermost
<1>7. CASE gr.rest = <<>>
    <2>1. Range(gr.rest) \subseteq Range(fr.rest) BY <1>7, RangeOfEmpty
    <2>2. MayFlush(gr) => MayFlush(fr) BY <1>7, EmptyFrame DEF MayFlush
    <2>3. \A o \in Roots : Follows(gr.rest, o) BY <1>7, NothingLeft
    <2>4. Orderly(g, c, D)
        BY <1>1, <1>2, <1>4, <2>1, <2>2, <2>3, OrderlyReplaced DEF Orderly
    <2>5. ASSUME NEW o \in Roots, NEW m \in 1 .. D, MakesSome(g[m].rest, o)
          PROVE  Owed(g, c, m, o)
        <3>1. m # D BY <1>7, <2>5, NothingLeft
        <3>2. m \in 1 .. D - 1 BY <1>1, <3>1
        <3> QED BY <1>2, <2>5, <3>2, SeesOutside
    <2>6. Sees(g, c, FALSE) BY <2>5 DEF Sees
    <2> QED BY <1>1, <1>6, <2>4, <2>6, HastyStep DEF Tidy, Covered, Hasty
<1>8. CASE gr.rest = Tail(fr.rest)
    <2>1. OneAhead(f, g) BY <1>8 DEF OneAhead
    <2>2. Orderly(g, c, D)
        BY <1>1, <1>2, <2>1, AheadOrderly DEF Orderly
    <2>3. ASSUME NEW o \in Roots, MakesSome(gr.rest, o)
          PROVE  Owed(g, c, D, o) \/ Reporting(g, FALSE, o)
        <3>1. MakesSome(fr.rest, o) BY <1>1, <1>8, <2>3, TailHas
        <3>2. Owed(f, c, D, o) \/ Lending(f, o) \/ Looking(f, o) \/ Reporting(f, d, o)
            BY <1>1, <1>2, <3>1 DEF Sees
        <3>3. Owed(f, c, D, o) \/ Looking(f, o)
            BY <1>1, <3>2, HastyStep DEF Hasty
        <3>4. CASE Looking(f, o)
            <4> DEFINE k == D - 1
            <4>1. /\ k \in Nat /\ k <= k /\ D > 1 /\ Pend(f, k) /\ Conditional(f[k].rest, o)
                  /\ fr.defers = <<>> /\ Installing(gr.rest)
                BY <1>1, <1>8, <3>4 DEF Looking, Under, InstallingOnce
            <4>2. Same(f, g, k) OBVIOUS
            <4>3. g[k] = f[k] BY <4>1, <4>2 DEF Same
            <4> HIDE DEF k
            <4>4. Pend(g, k) BY <4>1, <4>2, SamePend
            <4> QED BY <4>1, <4>3, <4>4 DEF Reporting, Under, Installing, k
        <3> QED BY <1>6, <3>3, <3>4
    <2>4. ASSUME NEW o \in Roots, NEW m \in 1 .. D, MakesSome(g[m].rest, o)
          PROVE  Owed(g, c, m, o) \/ (m = D /\ Reporting(g, FALSE, o))
        <3>1. CASE m = D BY <2>3, <2>4, <3>1
        <3>2. CASE m # D
            <4>1. m \in 1 .. D - 1 BY <1>1, <3>2
            <4> QED BY <1>2, <2>4, <4>1, SeesOutside
        <3> QED BY <3>1, <3>2
    <2>5. Sees(g, c, FALSE)
        <3>1. D = Len(g) OBVIOUS
        <3> HIDE DEF D
        <3> QED BY <2>4, <3>1, Zenon DEF Sees
    <2> QED BY <1>1, <1>6, <2>2, <2>5, HastyStep DEF Tidy, Covered, Hasty
<1> QED BY <1>7, <1>8

LEMMA StepDefer ==
    ASSUME Paired, NEW f \in Seq(Frames), NEW g \in Seq(Frames),
           f # <<>>, Len(g) = Len(f), Same(f, g, Len(f) - 1), f[Len(f)].rest # <<>>,
           FirstStep(f).op = "defer",
           g[Len(f)].rest = Tail(f[Len(f)].rest),
           Range(g[Len(f)].defers) = {FirstStep(f).arg} \cup Range(f[Len(f)].defers),
           NEW c, NEW d, Tidy(f, c, d)
    PROVE  Tidy(g, c, d) /\ \A o \in Roots : Covered(f, c, d, o) => Covered(g, c, d, o)
<1> DEFINE D == Len(f)
           fr == f[D]
           gr == g[D]
           h == FirstStep(f)
<1>1. /\ D \in Nat \ {0} /\ D \in 1 .. D /\ fr \in Frames /\ gr \in Frames
      /\ fr.rest \in Seq(Steps) /\ g # <<>> /\ h = Head(fr.rest)
    BY InnermostFrame DEF Frames, FirstStep
<1>2. Sees(f, c, d) /\ Orderly(f, c, D) BY DEF Tidy
<1>3. /\ Range(fr.rest) = {h} \cup Range(gr.rest)
      /\ Straight(fr.rest) => Straight(gr.rest)
      /\ \A o : MakesSome(gr.rest, o) => MakesSome(fr.rest, o)
    BY <1>1, RangeOfTail, TailHas
<1>4. \A op : \A args :
          Has(fr.rest, op, args) => Has(gr.rest, op, args) \/ (h.op = op /\ h.arg \in args)
    BY <1>1, TailHas
<1>5. Flushes(fr) => Flushes(gr) BY <1>3, <1>4 DEF Flushes
<1>6. MayFlush(gr) => MayFlush(fr)
    BY <1>3 DEF MayFlush, Has, HasOp
<1>7. ASSUME NEW o PROVE FrameSees(f, c, D, o) => FrameSees(g, c, D, o)
    <2>1. Own(fr, o) => Own(gr, o)
        <3>1. \A x \in Range(fr.rest) : Ends(x, o) => x \in Range(gr.rest)
            BY <1>1, <1>3 DEF Ends, Removals
        <3> QED BY <1>3, <1>4, <3>1 DEF Own
    <2>2. Registers(fr.rest, o) => Registers(gr.rest, o) BY <1>1, <1>3, <1>4 DEF Registers
    <2>3. ~Flushing(fr.rest) BY <1>1, <1>3 DEF Flushing
    <2>4. Pend(f, D) => Pend(g, D) BY <1>1, <1>5, PendCarried
    <2> QED BY <1>5, <2>1, <2>2, <2>3, <2>4 DEF FrameSees
<1>8. ASSUME NEW o, Owed(f, c, D, o) PROVE Owed(g, c, D, o)
    <2>1. FrameSees(g, c, D, o) => Owed(g, c, D, o) BY <1>1, OwedBy
    <2> QED BY <1>1, <1>7, <1>8, <2>1, OwedInnermost
<1>9. Orderly(g, c, D)
    <2>1. h.arg \in Safe
        BY <1>1, <1>2, <1>3 DEF Orderly, IsSafe
    <2>2. \A x \in Range(gr.defers) : x \in Safe BY <1>1, <1>2, <2>1 DEF Orderly
    <2>3. Range(gr.rest) \subseteq Range(fr.rest) BY <1>3
    <2>4. \A o \in Roots : Follows(gr.rest, o) BY <1>1, <1>2, TailFollows DEF Orderly
    <2> QED BY <1>1, <1>2, <1>5, <1>6, <2>2, <2>3, <2>4, OrderlyReplaced DEF Orderly
<1>10. ASSUME NEW o \in Roots, NEW m \in 1 .. D, MakesSome(g[m].rest, o)
       PROVE  Owed(g, c, m, o)
    <2>1. CASE m = D
        <3>1. Owed(f, c, D, o) \/ Lending(f, o) \/ Looking(f, o) \/ Reporting(f, d, o)
            BY <1>1, <1>2, <1>3, <1>10, <2>1 DEF Sees
        <3>2. Owed(f, c, D, o) BY <1>1, <3>1, HastyStep DEF Hasty
        <3> QED BY <1>8, <2>1, <3>2
    <2>2. CASE m # D
        <3>1. m \in 1 .. D - 1 BY <1>1, <2>2
        <3> QED BY <1>2, <1>10, <3>1, SeesOutside
    <2> QED BY <2>1, <2>2
<1>11. Sees(g, c, d) BY <1>10 DEF Sees
<1> QED BY <1>1, <1>8, <1>9, <1>11, HastyStep DEF Tidy, Covered, Hasty

\* A new TestContext forgets the cleanups: nobody counts on them.
LEMMA StepNewContext ==
    ASSUME Paired, NEW f \in Seq(Frames), NEW g \in Seq(Frames), OneAhead(f, g), Len(g) = Len(f),
           FirstStep(f).op = "newContext", NEW c, NEW d, Tidy(f, c, d)
    PROVE  Tidy(g, <<>>, FALSE) /\ \A o \in Roots : Covered(f, c, d, o) => Covered(g, <<>>, FALSE, o)
<1> DEFINE D == Len(f)
           fr == f[D]
           gr == g[D]
           h == FirstStep(f)
<1>1. /\ D \in Nat \ {0} /\ D \in 1 .. D /\ fr \in Frames /\ gr \in Frames /\ f # <<>>
      /\ fr.rest \in Seq(Steps) /\ fr.rest # <<>> /\ g # <<>> /\ h = Head(fr.rest)
      /\ gr.rest = Tail(fr.rest) /\ gr.defers = fr.defers /\ Len(g) = D /\ Same(f, g, D - 1)
    BY InnermostFrame DEF Frames, FirstStep, OneAhead
<1>2. Sees(f, c, d) /\ Orderly(f, c, D) BY DEF Tidy
<1>3. \A n \in 1 .. D : ~MayFlush(f[n])
    <2>1. Renews(fr.rest) BY <1>1, TailHas DEF Renews
    <2> SUFFICES ASSUME NEW n \in 1 .. D PROVE ~MayFlush(f[n]) OBVIOUS
    <2>2. D \in n .. D BY <1>1
    <2> QED BY <1>2, <2>1, <2>2 DEF Orderly
<1>4. \A n \in 1 .. D : ~Flushes(f[n]) /\ ~Flushing(f[n].rest)
    BY <1>3 DEF Flushes, MayFlush, Flushing
<1>5. ASSUME NEW m \in 1 .. D, NEW o PROVE Owed(f, c, m, o) => Owed(g, <<>>, m, o)
    <2> SUFFICES ASSUME Owed(f, c, m, o) PROVE Owed(g, <<>>, m, o) OBVIOUS
    <2>1. PICK n \in 1 .. m : FrameSees(f, c, n, o) BY DEF Owed
    <2>2. \A k \in 1 .. n : k \in 1 .. D BY <1>1
    <2>3. ~Pend(f, n) BY <1>4, <2>2 DEF Pend
    <2>4. n \in 1 .. D BY <1>1
    <2>5. Own(f[n], o) BY <1>4, <2>1, <2>3, <2>4 DEF FrameSees
    <2>6. Own(g[n], o)
        <3>1. CASE n = D
            BY <1>1, <2>5, <3>1, FrameAhead DEF Ends, Removals
        <3>2. CASE n # D
            <4>1. n \in 1 .. D - 1 BY <1>1, <2>4, <3>2
            <4> QED BY <1>1, <2>5, <4>1 DEF Same
        <3> QED BY <3>1, <3>2
    <2> QED BY <2>6 DEF Owed, FrameSees
<1>6. Orderly(g, <<>>, D)
    BY <1>1, <1>2, AheadOrderly, RangeOfEmpty
<1>7. ASSUME NEW o \in Roots, NEW m \in 1 .. D, MakesSome(g[m].rest, o)
      PROVE  Owed(g, <<>>, m, o)
    <2>1. MakesSome(f[m].rest, o)
        <3>1. CASE m = D BY <1>1, <1>7, <3>1, TailHas
        <3>2. CASE m # D
            <4>1. m \in 1 .. D - 1 BY <1>1, <3>2
            <4> QED BY <1>1, <1>7, <4>1 DEF Same
        <3> QED BY <3>1, <3>2
    <2>2. Owed(f, c, m, o) \/ Lending(f, o) \/ Looking(f, o) \/ Reporting(f, d, o)
        BY <1>2, <2>1 DEF Sees
    <2>3. Owed(f, c, m, o) BY <1>1, <2>2, HastyStep DEF Hasty
    <2> QED BY <1>5, <2>3
<1>8. Sees(g, <<>>, FALSE) BY <1>1, <1>7 DEF Sees
<1>9. \A o : ~Reported(f, d, o) /\ ~Reporting(f, d, o) BY <1>1, HastyStep DEF Hasty
<1> QED BY <1>1, <1>5, <1>6, <1>8, <1>9 DEF Tidy, Covered


----------------------------------------------------------------------------
(* The steps that change the number of frames. *)

LEMMA StepCall ==
    ASSUME Paired, NEW f \in Seq(Frames), NEW g \in Seq(Frames), OneAhead(f, g),
           Len(g) = Len(f) + 1, FirstStep(f).op = "call",
           g[Len(f) + 1] = NewFrame(Body[FirstStep(f).arg]),
           NEW c, NEW d, Tidy(f, c, d)
    PROVE  Tidy(g, c, d) /\ \A o \in Roots : Covered(f, c, d, o) => Covered(g, c, d, o)
<1> DEFINE D == Len(f)
           fr == f[D]
           gr == g[D]
           h == FirstStep(f)
           x == h.arg
<1>1. /\ D \in Nat \ {0} /\ D \in 1 .. D /\ fr \in Frames /\ gr \in Frames /\ f # <<>>
      /\ fr.rest \in Seq(Steps) /\ fr.rest # <<>> /\ g # <<>> /\ h = Head(fr.rest)
      /\ gr.rest = Tail(fr.rest) /\ gr.defers = fr.defers /\ Same(f, g, D - 1)
      /\ h \in Range(fr.rest)
    BY OneAheadFrames
<1>2. Sees(f, c, d) /\ Orderly(f, c, D) BY DEF Tidy
<1>3. x \in InUse /\ x \notin Outer /\ x \in Scripts
    <2>1. IsSafe(h) BY <1>1, <1>2 DEF Orderly
    <2> QED BY <2>1 DEF IsSafe, Paired, SpecsSeeTo
<1>4. Orderly(g, c, D) /\ (Flushes(fr) => Flushes(gr)) /\ (Pend(f, D) => Pend(g, D))
    BY <1>1, <1>2, AheadOrderly DEF Orderly
<1>5. Orderly(g, c, D + 1)
    <2>1. ASSUME NEW n \in 1 .. D, MayFlush(g[n]) PROVE ~Renews(Body[x])
        <3>1. MayFlush(f[n])
            <4>1. CASE n = D BY <1>1, <2>1, <4>1, FrameAhead
            <4>2. CASE n # D
                <5>1. n \in 1 .. D - 1 BY <1>1, <4>2
                <5> QED BY <1>1, <2>1, <5>1 DEF Same
            <4> QED BY <4>1, <4>2
        <3>2. D \in n .. D BY <1>1
        <3>3. ~Renews(fr.rest) BY <1>2, <3>1, <3>2 DEF Orderly
        <3>4. x \notin Renewers BY <1>1, <3>3 DEF Renews, Has
        <3> QED BY <1>3, <3>4 DEF Renews, Renewers, Outer
    <2>2. NewFrame(Body[x]).rest = Body[x] BY DEF NewFrame
    <2> DEFINE nf == NewFrame(Body[x])
    <2>3. /\ \A y \in Range(nf.rest) : IsSafe(y)
          /\ \A y \in Range(nf.defers) : y \in Safe
          /\ Has(nf.rest, "call", Borrowers) => Flushes(nf)
          /\ \A o \in Roots : Follows(nf.rest, o)
          /\ MayFlush(nf) => ~Renews(nf.rest)
        BY <1>3, OrderlyScript
    <2>4. g[D + 1] = nf /\ D \in Nat /\ \A n \in 1 .. D : MayFlush(g[n]) => ~Renews(nf.rest)
        BY <1>1, <2>1, <2>2
    <2> HIDE DEF D, nf
    <2> QED BY <1>4, <2>3, <2>4, OrderlyNext
<1>6. ASSUME NEW o, Owed(f, c, D, o), MakesSome(fr.rest, o) \/ x \notin Removers(o)
      PROVE  Owed(g, c, D, o)
    <2>1. Own(fr, o) => Own(gr, o)
        BY <1>1, <1>6, FrameAhead DEF Ends, Removals
    <2>2. (Registers(fr.rest, o) => Registers(gr.rest, o)) /\ ~Flushing(fr.rest)
        BY <1>1, FrameAhead
    <2>3. FrameSees(g, c, D, o) => Owed(g, c, D, o) BY <1>1, OwedBy
    <2>4. FrameSees(f, c, D, o) => Owed(g, c, D, o)
        BY <1>4, <2>1, <2>2, <2>3 DEF FrameSees
    <2> QED BY <1>1, <1>6, <2>4, OwedInnermost
<1>7. \A o : Owed(g, c, D, o) => Owed(g, c, D + 1, o) BY <1>1, OwedGrows
<1>8. ASSUME NEW o, x \in Removers(o) PROVE Owed(g, c, D + 1, o)
    <2>1. D + 1 \in 1 .. D + 1 BY <1>1
    <2> QED BY <1>8, <2>1, RemoverOwns DEF Owed, FrameSees
<1>9. ASSUME NEW o, Covered(f, c, d, o) PROVE Covered(g, c, d, o)
    <2>1. Owed(f, c, D, o) BY <1>1, <1>9, HastyStep DEF Covered, Hasty
    <2>2. Owed(g, c, D + 1, o) BY <1>6, <1>7, <1>8, <2>1
    <2> QED BY <1>1, <2>2 DEF Covered
\* What the caller was to make itself is owed by it, or is installed by the callee.
<1>10. ASSUME NEW o \in Roots, MakesSome(fr.rest, o)
       PROVE  \/ Owed(g, c, D, o)
              \/ ~MakesSome(gr.rest, o) /\ x \in Installers(o) /\ Looking(g, o)
              \/ x \notin Leaves(o) /\ Lending(f, o)
    <2>1. Owed(f, c, D, o) \/ Lending(f, o)
        BY <1>1, <1>2, <1>10, HastyStep DEF Sees, Hasty
    <2>2. CASE Owed(f, c, D, o) BY <1>6, <1>10, <2>2
    <2>3. CASE Lending(f, o)
        <3>1. Pend(f, D) /\ Lends(fr.rest, o) BY <2>3 DEF Lending
        <3>2. x \in Installers(o) /\ Conditional(gr.rest, o) /\ ~MakesSome(gr.rest, o)
            BY <1>1, <3>1, TailLends DEF Hasty
        <3>3. D + 1 - 1 = D /\ D + 1 > 1 /\ Pend(g, D) BY <1>1, <1>4, <3>1
        <3>4. Under(g, o) BY <3>2, <3>3 DEF Under, NewFrame
        <3>5. InstallingOnce(Body[x], o) BY <3>2 DEF Installers
        <3>6. Looking(g, o) BY <3>4, <3>5 DEF Looking, NewFrame
        <3> QED BY <3>2, <3>6
    <2> QED BY <2>1, <2>2, <2>3
<1>11. ASSUME NEW o \in Roots, MakesSome(Body[x], o)
       PROVE  Owed(g, c, D + 1, o) \/ Lending(g, o) \/ Looking(g, o)
    <2>1. CASE x \in Leaves(o)
        <3>1. MakesSome(fr.rest, o) BY <1>1, <2>1, TailHas DEF Makes
        <3> QED BY <1>7, <1>10, <2>1, <3>1
    <2>2. CASE x \notin Leaves(o)
        <3>1. x \in Borrowers => Pend(g, D)
            <4>1. x \in Borrowers => Has(fr.rest, "call", Borrowers) BY <1>1 DEF Has
            <4> QED BY <1>1, <1>2, <1>4, <4>1 DEF Orderly
        <3>2. D + 1 \in Nat \ {0} /\ D + 1 - 1 = D BY <1>1
        <3> QED BY <1>3, <1>11, <2>2, <3>1, <3>2, ScriptSees
    <2> QED BY <2>1, <2>2
<1>12. ASSUME NEW o \in Roots, NEW m \in 1 .. D + 1, MakesSome(g[m].rest, o)
       PROVE  \/ Owed(g, c, m, o)
              \/ m = D + 1 /\ (Lending(g, o) \/ Looking(g, o))
    <2>1. CASE m = D + 1
        BY <1>11, <1>12, <2>1 DEF NewFrame
    <2>2. CASE m = D
        <3>1. MakesSome(gr.rest, o) /\ MakesSome(fr.rest, o) BY <1>1, <1>12, <2>2, TailHas
        <3>2. Lending(f, o) => ~MakesSome(gr.rest, o)
            BY <1>1, TailLends DEF Lending, Hasty
        <3> QED BY <1>10, <2>2, <3>1, <3>2
    <2>3. CASE m \notin {D, D + 1}
        <3>1. m \in 1 .. D - 1 BY <1>1, <2>3
        <3> QED BY <1>1, <1>2, <1>12, <3>1, SeesOutside
    <2> QED BY <2>1, <2>2, <2>3
<1>13. Sees(g, c, d)
    <2>1. Len(g) = D + 1 OBVIOUS
    <2> HIDE DEF D
    <2> QED BY <1>12, <2>1, Zenon DEF Sees
<1> QED BY <1>5, <1>9, <1>13 DEF Tidy

LEMMA StepRunDeferred ==
    ASSUME Paired, NEW f \in Seq(Frames), NEW g \in Seq(Frames),
           f # <<>>, Len(g) = Len(f) + 1, Same(f, g, Len(f) - 1),
           f[Len(f)].rest = <<>>, g[Len(f)].rest = <<>>,
           NEW x, Range(f[Len(f)].defers) = {x} \cup Range(g[Len(f)].defers),
           g[Len(f) + 1] = NewFrame(Body[x]),
           NEW c, NEW d, Tidy(f, c, d)
    PROVE  Tidy(g, c, d) /\ \A o \in Roots : Covered(f, c, d, o) => Covered(g, c, d, o)
<1> DEFINE D == Len(f)
           k == D - 1
           fr == f[D]
           gr == g[D]
           nf == NewFrame(Body[x])
<1>1. /\ D \in Nat \ {0} /\ D \in 1 .. D /\ k \in Nat /\ k <= D /\ k + 1 = D /\ g # <<>>
      /\ D + 1 \in 1 .. D + 1 /\ D + 1 # D /\ D <= D + 1 /\ k <= D + 1 /\ D + 1 - 1 = D
      /\ D + 1 \in Nat \ {0} /\ D \in 1 .. D + 1
      /\ \A m \in 1 .. D + 1 : m # D /\ m # D + 1 => m \in 1 .. D - 1
    BY InnermostFrame
<1>2. Sees(f, c, d) /\ Orderly(f, c, D) BY DEF Tidy
<1>3. nf.rest = Body[x] BY DEF NewFrame
<1>4. x \in Safe /\ x \in InUse /\ x \in Scripts /\ ~Renews(Body[x]) /\ x \notin Borrowers
    <2>1. x \in Safe BY <1>1, <1>2 DEF Orderly
    <2>2. x \in InUse /\ x \in Scripts /\ x \notin Borrowers \cup Renewers \cup Outer
        BY <2>1 DEF Safe, Paired, SpecsSeeTo
    <2> QED BY <2>1, <2>2 DEF Renews, Renewers, Outer
<1>5. Orderly(g, c, D)
    <2>1. Same(f, g, k) /\ D \in Nat /\ k \in Nat /\ k <= D BY <1>1
    <2>2. Orderly(g, c, k)
        <3> HIDE DEF k, D
        <3> QED BY <1>2, <2>1, OrderlyLess
    <2>3. /\ \A y \in Range(gr.rest) : IsSafe(y)
          /\ \A y \in Range(gr.defers) : y \in Safe
          /\ ~Has(gr.rest, "call", Borrowers)
          /\ \A o \in Roots : Follows(gr.rest, o)
          /\ ~Renews(gr.rest)
        BY <1>1, <1>2, RangeOfEmpty, NothingLeft DEF Orderly
    <2> HIDE DEF k, D, gr
    <2>4. g[k + 1] = gr BY <1>1 DEF gr
    <2>5. Orderly(g, c, k + 1) BY <1>1, <2>2, <2>3, <2>4, OrderlyNext
    <2> QED BY <1>1, <2>5
<1>6. Orderly(g, c, D + 1)
    <2>1. /\ \A y \in Range(nf.rest) : IsSafe(y)
          /\ \A y \in Range(nf.defers) : y \in Safe
          /\ Has(nf.rest, "call", Borrowers) => Flushes(nf)
          /\ \A o \in Roots : Follows(nf.rest, o)
          /\ ~Renews(nf.rest)
        BY <1>3, <1>4, OrderlyScript
    <2>2. g[D + 1] = nf OBVIOUS
    <2> HIDE DEF D, nf
    <2> QED BY <1>1, <1>5, <2>1, <2>2, OrderlyNext
<1>7. ASSUME NEW o, Owed(f, c, D, o) PROVE Owed(g, c, D + 1, o)
    <2>1. ASSUME FrameSees(f, c, D, o) PROVE FrameSees(g, c, D, o) \/ FrameSees(g, c, D + 1, o)
        <3>1. \/ \E y \in Range(fr.defers) : y \in Removers(o)
              \/ (\E y \in Range(fr.defers) : y \in Flushers) /\ InCleanups(c, o)
            BY <2>1, EmptyFrame DEF FrameSees
        <3>2. CASE \E y \in Range(gr.defers) : y \in Removers(o)
            BY <3>2 DEF FrameSees, Own
        <3>3. CASE (\E y \in Range(gr.defers) : y \in Flushers) /\ InCleanups(c, o)
            BY <3>3 DEF FrameSees, Flushes
        <3>4. CASE x \in Removers(o)
            BY <3>4, RemoverOwns DEF FrameSees
        <3>5. CASE x \in Flushers /\ InCleanups(c, o)
            BY <1>3, <3>5 DEF FrameSees, Flushers
        <3>6. Range(fr.defers) = {x} \cup Range(gr.defers) OBVIOUS
        <3> HIDE DEF fr, gr, D
        <3> QED BY <3>1, <3>2, <3>3, <3>4, <3>5, <3>6
    <2>2. FrameSees(f, c, D, o) => Owed(g, c, D + 1, o)
        <3>1. D + 1 \in Nat /\ D + 1 \in 1 .. D + 1 /\ D \in 1 .. D + 1 BY <1>1
        <3> HIDE DEF D
        <3> QED BY <2>1, <3>1, OwedBy
    <2>3. Same(f, g, D - 1) /\ D - 1 <= D + 1 /\ D + 1 \in Nat BY <1>1
    <2>4. Owed(f, c, Len(f), o) /\ (FrameSees(f, c, Len(f), o) => Owed(g, c, D + 1, o))
        BY <1>7, <2>2
    <2> QED BY <2>3, <2>4, OwedCarried
<1>8. ASSUME NEW o, Covered(f, c, d, o) PROVE Covered(g, c, d, o)
    <2>1. ~Reported(f, d, o) BY NothingLeft DEF Reported
    <2>2. ~Reporting(f, d, o)
        <3>1. fr.defers # <<>> BY RangeOfEmpty
        <3> QED BY <3>1 DEF Reporting, Under
    <2>3. Owed(g, c, D + 1, o) BY <1>7, <1>8, <2>1, <2>2 DEF Covered
    <2> QED BY <1>1, <2>3 DEF Covered
<1>9. ASSUME NEW o \in Roots, MakesSome(Body[x], o)
       PROVE  Owed(g, c, D + 1, o) \/ Lending(g, o)
    <2>1. x \notin Leaves(o) BY <1>4 DEF Safe
    <2> QED BY <1>1, <1>4, <1>9, <2>1, ScriptSees
<1>10. ASSUME NEW o \in Roots, NEW m \in 1 .. D + 1, MakesSome(g[m].rest, o)
       PROVE  Owed(g, c, m, o) \/ (m = D + 1 /\ Lending(g, o))
    <2>1. CASE m = D + 1
        BY <1>3, <1>9, <1>10, <2>1
    <2>0. ~MakesSome(gr.rest, o) BY NothingLeft
    <2>2. m # D BY <1>10, <2>0
    <2>3. CASE m # D + 1
        <3>1. m \in 1 .. D - 1
            <4> HIDE DEF D
            <4> QED BY <1>1, <2>2, <2>3
        <3> QED BY <1>1, <1>2, <1>10, <3>1, SeesOutside
    <2> QED BY <2>1, <2>3
<1>11. Sees(g, c, d)
    <2>1. Len(g) = D + 1 OBVIOUS
    <2> HIDE DEF D
    <2> QED BY <1>10, <2>1, Zenon DEF Sees
<1> QED BY <1>6, <1>8, <1>11 DEF Tidy

LEMMA StepCleanups ==
    ASSUME Paired, NEW f \in Seq(Frames), NEW g \in Seq(Frames), OneAhead(f, g),
           Len(g) = Len(f) + 1, FirstStep(f).op = "cleanups",
           NEW c, NEW s, \A y : y \in Range(s) <=> \E z \in Range(c) : y = [op |-> "call", arg |-> z],
           \A o : Follows(s, o), g[Len(f) + 1] = NewFrame(s),
           NEW d, Tidy(f, c, d)
    PROVE  Tidy(g, c, d) /\ \A o \in Roots : Covered(f, c, d, o) => Covered(g, c, d, o)
<1> DEFINE D == Len(f)
           fr == f[D]
           gr == g[D]
           h == FirstStep(f)
           nf == NewFrame(s)
<1>1. /\ D \in Nat \ {0} /\ D \in 1 .. D /\ fr \in Frames /\ gr \in Frames /\ f # <<>>
      /\ fr.rest \in Seq(Steps) /\ fr.rest # <<>> /\ g # <<>> /\ h = Head(fr.rest)
      /\ gr.rest = Tail(fr.rest) /\ gr.defers = fr.defers /\ Same(f, g, D - 1)
      /\ h \in Range(fr.rest) /\ D + 1 \in 1 .. D + 1 /\ D + 1 \in Nat
    BY OneAheadFrames
<1>2. Sees(f, c, d) /\ Orderly(f, c, D) BY DEF Tidy
<1>3. nf.rest = s /\ nf.defers = <<>> BY DEF NewFrame
<1>4. Orderly(g, c, D) /\ (Flushes(fr) => Flushes(gr)) /\ (Pend(f, D) => Pend(g, D))
    BY <1>1, <1>2, AheadOrderly DEF Orderly
<1>5. \A y \in Range(s) : y.op = "call" /\ y.arg \in Safe
    BY <1>2 DEF Orderly
<1>6. \A z \in Safe : z \in InUse /\ z \notin Borrowers \cup Renewers \cup Outer
    BY DEF Safe
<1>7. Orderly(g, c, D + 1)
    <2>1. /\ \A y \in Range(nf.rest) : IsSafe(y)
          /\ \A y \in Range(nf.defers) : y \in Safe
          /\ ~Has(nf.rest, "call", Borrowers)
          /\ \A o \in Roots : Follows(nf.rest, o)
          /\ ~Renews(nf.rest)
        <3>1. \A y \in Range(s) : IsSafe(y) BY <1>5, <1>6 DEF IsSafe, Makings
        <3>2. ~Has(s, "call", Borrowers) /\ ~Renews(s)
            BY <1>5, <1>6 DEF Has, Renews, HasOp
        <3> QED BY <1>3, <3>1, <3>2, RangeOfEmpty
    <2>2. g[D + 1] = nf OBVIOUS
    <2> HIDE DEF D, nf
    <2> QED BY <1>1, <1>4, <2>1, <2>2, OrderlyNext
<1>8. ASSUME NEW o \in Roots PROVE ~MakesSome(s, o)
    BY <1>5 DEF MakesSome, Makes, Makings, Safe
\* The execution of the cleanups that are registered is at hand.
<1>9. ASSUME NEW o \in Roots, Owed(f, c, D, o), MakesSome(fr.rest, o) \/ ~Flushing(fr.rest)
      PROVE  Owed(g, c, D, o)
    <2>1. Own(fr, o) => Own(gr, o)
        BY <1>1, FrameAhead DEF Ends, Removals
    <2>2. Registers(fr.rest, o) => Registers(gr.rest, o)
        BY <1>1, FrameAhead
    <2>3. ~Flushing(fr.rest)
        BY <1>9 DEF Flushing, MakesSome, Makes, Makings
    <2>4. FrameSees(g, c, D, o) => Owed(g, c, D, o) BY <1>1, OwedBy
    <2>5. FrameSees(f, c, D, o) => Owed(g, c, D, o)
        BY <1>4, <2>1, <2>2, <2>3, <2>4 DEF FrameSees
    <2> QED BY <1>1, <1>9, <2>5, OwedInnermost
<1>10. ASSUME NEW o \in Roots, Owed(f, c, D, o) PROVE Owed(g, c, D + 1, o)
    <2>1. CASE ~Flushing(fr.rest) \/ ~InCleanups(c, o)
        <3>1. (Own(fr, o) => Own(gr, o)) /\ (Registers(fr.rest, o) => Registers(gr.rest, o))
            BY <1>1, FrameAhead DEF Ends, Removals
        <3>2. FrameSees(g, c, D, o) => Owed(g, c, D, o) BY <1>1, OwedBy
        <3>3. FrameSees(f, c, D, o) => Owed(g, c, D, o)
            BY <1>4, <2>1, <3>1, <3>2 DEF FrameSees
        <3>4. Owed(g, c, D, o) BY <1>1, <1>10, <3>3, OwedInnermost
        <3> QED BY <1>1, <3>4, OwedGrows
    <2>2. CASE InCleanups(c, o)
        <3>1. PICK z \in Range(c) : z \in Removers(o) BY <2>2 DEF InCleanups
        <3>2. [op |-> "call", arg |-> z] \in Range(s) BY <3>1
        <3>3. Has(s, "call", Removers(o)) BY <3>1, <3>2 DEF Has
        <3>4. Straight(s) BY <1>5 DEF Straight, HasOp
        <3>5. Own(nf, o) BY <1>3, <1>8, <3>3, <3>4 DEF Own
        <3> QED BY <1>1, <3>5 DEF Owed, FrameSees
    <2> QED BY <2>1, <2>2
<1>11. ASSUME NEW o \in Roots, Covered(f, c, d, o) PROVE Covered(g, c, d, o)
    <2>1. Owed(f, c, D, o) BY <1>1, <1>11, HastyStep DEF Covered, Hasty
    <2> QED BY <1>1, <1>10, <2>1 DEF Covered
<1>12. ASSUME NEW o \in Roots, NEW m \in 1 .. D + 1, MakesSome(g[m].rest, o)
       PROVE  Owed(g, c, m, o)
    <2>1. m # D + 1 BY <1>3, <1>8, <1>12
    <2>2. CASE m = D
        <3>1. MakesSome(fr.rest, o) BY <1>1, <1>12, <2>2, TailHas
        <3>2. Owed(f, c, D, o)
            BY <1>1, <1>2, <3>1, HastyStep DEF Sees, Hasty
        <3> QED BY <1>9, <2>2, <3>1, <3>2
    <2>3. CASE m # D
        <3>1. m \in 1 .. D - 1 BY <1>1, <2>1, <2>3
        <3> QED BY <1>1, <1>2, <1>12, <3>1, SeesOutside
    <2> QED BY <2>2, <2>3
<1>13. Sees(g, c, d)
    <2>1. Len(g) = D + 1 OBVIOUS
    <2> HIDE DEF D
    <2> QED BY <1>12, <2>1, Zenon DEF Sees
<1> QED BY <1>7, <1>11, <1>13 DEF Tidy

\* The installer's report reaches its caller.
LEMMA StepReturn ==
    ASSUME Paired, NEW f \in Seq(Frames), NEW g \in Seq(Frames),
           Len(f) > 1, Len(g) = Len(f) - 1, Same(f, g, Len(f) - 1),
           f[Len(f)].rest = <<>>, f[Len(f)].defers = <<>>,
           NEW c, NEW d, Tidy(f, c, d)
    PROVE  Tidy(g, c, d) /\ \A o \in Roots : Covered(f, c, d, o) => Covered(g, c, d, o)
<1> DEFINE D == Len(f)
           k == D - 1
           fr == f[D]
<1>1. /\ D \in Nat \ {0} /\ k \in Nat \ {0} /\ k <= D /\ k <= k /\ k \in 1 .. k /\ Same(f, g, k)
      /\ Len(g) = k /\ g # <<>> /\ f # <<>> /\ k < D
    OBVIOUS
<1>2. Sees(f, c, d) /\ Orderly(f, c, D) BY DEF Tidy
<1>3. Orderly(g, c, k) BY <1>1, <1>2, OrderlyLess
<1>4. ASSUME NEW o, Owed(f, c, D, o) PROVE Owed(g, c, k, o)
    <2>1. ~FrameSees(f, c, D, o) BY EmptyFrame, RangeOfEmpty DEF FrameSees
    <2>2. PICK n \in 1 .. D : FrameSees(f, c, n, o) BY <1>4 DEF Owed
    <2>3. n \in 1 .. k BY <1>1, <2>1, <2>2
    <2>4. Owed(f, c, k, o) BY <2>2, <2>3 DEF Owed
    <2> HIDE DEF k
    <2> QED BY <1>1, <2>4, SameOwed
<1>5. ASSUME NEW o, Reporting(f, d, o) PROVE Reported(g, d, o)
    <2>1. Pend(f, k) /\ Conditional(f[k].rest, o) /\ d
        BY <1>5, NothingLeft DEF Reporting, Under
    <2>2. g[k] = f[k] BY <1>1 DEF Same
    <2> HIDE DEF k
    <2>3. Pend(g, k) BY <1>1, <2>1, SamePend
    <2> QED BY <1>1, <2>1, <2>2, <2>3 DEF Reported
<1>6. ASSUME NEW o, Covered(f, c, d, o) PROVE Covered(g, c, d, o)
    <2>1. ~Reported(f, d, o) BY NothingLeft DEF Reported
    <2>2. Owed(f, c, D, o) \/ Reporting(f, d, o) BY <1>6, <2>1 DEF Covered
    <2> QED BY <1>1, <1>4, <1>5, <2>2 DEF Covered
<1>7. ASSUME NEW o \in Roots, NEW m \in 1 .. k, MakesSome(g[m].rest, o)
      PROVE  Owed(g, c, m, o)
    BY <1>1, <1>2, <1>7, SeesOutside
<1>8. Sees(g, c, d)
    <2> HIDE DEF k
    <2> QED BY <1>1, <1>7, Zenon DEF Sees
<1> QED BY <1>1, <1>3, <1>6, <1>8 DEF Tidy

LEMMA StepStart ==
    ASSUME Paired, NEW x \in Specs, NEW d
    PROVE  Tidy(<<NewFrame(Body[x])>>, <<>>, d)
<1> DEFINE nf == NewFrame(Body[x])
           g == <<nf>>
<1>1. Len(g) = 1 /\ g[1] = nf /\ nf.rest = Body[x] BY DEF NewFrame
<1>2. x \in InUse /\ x \notin Borrowers /\ \A o \in Roots : x \notin Leaves(o)
    BY DEF Paired, SpecsSeeTo
<1> HIDE DEF g
<1>3. Orderly(g, <<>>, 1)
    <2>1. Orderly(g, <<>>, 0) BY RangeOfEmpty DEF Orderly
    <2>2. /\ \A y \in Range(nf.rest) : IsSafe(y)
          /\ \A y \in Range(nf.defers) : y \in Safe
          /\ Has(nf.rest, "call", Borrowers) => Flushes(nf)
          /\ \A o \in Roots : Follows(nf.rest, o)
          /\ MayFlush(nf) => ~Renews(nf.rest)
        BY <1>2, OrderlyScript
    <2>3. g[0 + 1] = nf /\ \A n \in 1 .. 0 : MayFlush(g[n]) => ~Renews(nf.rest) BY <1>1
    <2> HIDE DEF nf
    <2>4. Orderly(g, <<>>, 0 + 1) BY <2>1, <2>2, <2>3, OrderlyNext
    <2> QED BY <2>4
<1>4. ASSUME NEW o \in Roots, MakesSome(Body[x], o)
      PROVE  Owed(g, <<>>, 1, o) \/ Lending(g, o)
    <2>1. 1 \in Nat \ {0} OBVIOUS
    <2> QED BY <1>1, <1>2, <1>4, <2>1, ScriptSees
<1>5. Sees(g, <<>>, d)
    BY <1>1, <1>4 DEF Sees
<1> QED BY <1>1, <1>3, <1>5 DEF Tidy, g

----------------------------------------------------------------------------
(* The states of a green suite. *)

\* What NothingForgotten says of a green suite.
Remembered ==
    /\ Homed
    /\ \A o \in Roots : Stands(o) => Covered(stack, cleanups, deployed, o)
    /\ Tidy(stack, cleanups, deployed)

LEMMA NothingForgottenSays == NothingForgotten <=> (Green => Remembered)
BY DEF NothingForgotten, Remembered, Tidy, Depth

\* A failure stays in the report; and a spec that passes was not unwinding.
LEMMA GreenBefore ==
    ASSUME IInv, [Next]_vars, Green'
    PROVE  Green
<1> USE DEF IInv
<1>0. verdict \in [Specs -> Verdicts] /\ erred \in BOOLEAN BY DEF TypeOK
<1>1. ASSUME NEW s \in Specs, StartSpec(s) PROVE Green
    <2>1. /\ stack = <<>> /\ verdict[s] = "pending"
          /\ verdict' = [verdict EXCEPT ![s] = "running"]
        BY <1>1 DEF StartSpec
    <2> QED BY <1>0, <2>1 DEF Green
<1>2. ASSUME NEW s \in Specs, EndSpec(s) PROVE Green
    <2>1. /\ stack # <<>> /\ Depth = 1 /\ verdict[s] = "running"
          /\ verdict' = [verdict EXCEPT ![s] = IF Top.panicking THEN "failed" ELSE "passed"]
        BY <1>2 DEF EndSpec, Finished
    <2>2. ~Top.panicking BY <1>0, <2>1 DEF Green
    <2>3. Len(stack) = 1 /\ Top = stack[1] BY <2>1 DEF Depth, Top
    <2>4. ~erred BY <2>1, <2>2, <2>3 DEF PanicIsKept, Panicking
    <2> QED BY <1>0, <2>1, <2>4 DEF Green
<1>3. CASE Moves BY <1>3 DEF Moves, Green
<1>4. CASE UNCHANGED <<stack, verdict, erred>> BY <1>4 DEF Green
<1> QED BY <1>1, <1>2, <1>3, <1>4, StepKinds

LEMMA GreenNoPanic ==
    ASSUME IInv, Green, stack # <<>>
    PROVE  ~Top.panicking
<1>1. ~Panicking(stack) BY DEF IInv, Green, PanicIsKept
<1>2. Depth \in 1 .. Len(stack) BY TopIsFrame DEF IInv, TypeOK, StackOK, Depth
<1> QED BY <1>1, <1>2 DEF Panicking, Top

LEMMA AdvancedAhead ==
    ASSUME StackOK, NEW op, At(op)
    PROVE  /\ stack \in Seq(Frames) /\ stack # <<>> /\ Depth = Len(stack)
           /\ Top.rest # <<>> /\ Advanced \in Seq(Frames) /\ Len(Advanced) = Len(stack)
           /\ OneAhead(stack, Advanced)
           /\ FirstStep(stack) = Head(Top.rest)
           /\ FirstStep(stack).op = op /\ FirstStep(stack).arg = Arg
<1> DEFINE fr == [Top EXCEPT !.rest = Tail(@)]
<1>1. /\ stack \in Seq(Frames) /\ stack # <<>> /\ Top.rest # <<>> /\ Head(Top.rest).op = op
      /\ Depth = Len(stack) /\ Depth \in Nat \ {0} /\ Top \in Frames /\ Top = stack[Depth]
    BY TopIsFrame DEF StackOK, At, Depth, Top
<1>2. Tail(Top.rest) \in Seq(Steps) BY <1>1 DEF Frames
<1>3. fr \in Frames /\ fr.rest = Tail(Top.rest) /\ fr.defers = Top.defers
    BY <1>1, <1>2 DEF Frames
<1>4. Advanced = [stack EXCEPT ![Depth] = fr] BY DEF Advanced, Top
<1> HIDE DEF fr
<1>5. /\ Advanced \in Seq(Frames) /\ Len(Advanced) = Depth /\ Advanced[Depth] = fr
      /\ \A n \in 1 .. Depth - 1 : Advanced[n] = stack[n]
    BY <1>1, <1>3, <1>4, TopReplacing
<1>6. Len(stack) \in 1 .. Len(Advanced) BY <1>1, <1>5
<1>7. OneAhead(stack, Advanced)
    BY <1>1, <1>3, <1>5, <1>6 DEF OneAhead, Same
<1> QED BY <1>1, <1>5, <1>7 DEF FirstStep, Arg

\* What the frames see to after the step, as before.
Carried ==
    /\ Tidy(stack', cleanups', deployed')
    /\ \A o \in Roots :
           Covered(stack, cleanups, deployed, o) => Covered(stack', cleanups', deployed', o)

LEMMA CarriedRemembers ==
    ASSUME Remembered, Carried, UNCHANGED cluster
    PROVE  Remembered'
<1>1. Homed' BY DEF Remembered, Homed
<1>2. \A o : Stands(o)' => Stands(o) BY DEF Stands
<1>3. \A o \in Roots : Stands(o)' => Covered(stack', cleanups', deployed', o)
    BY <1>2 DEF Remembered, Carried
<1> QED BY <1>1, <1>3 DEF Remembered, Carried

\* A step that makes or ends something, or none of these.
LEMMA AheadRemembers ==
    ASSUME Paired, TypeOK, Remembered, NEW op, At(op), op \notin Hasty, Advance,
           \A x \in Range(cleanups) : x \in Range(cleanups'),
           \A x \in Range(cleanups') :
               x \in Range(cleanups) \/ (x = Arg /\ op \in {"register", "registerIfDeployed"}),
           op = "register" => Arg \in Range(cleanups'),
           op = "registerIfDeployed" /\ deployed => Arg \in Range(cleanups'),
           deployed \/ op = "installed" => deployed',
           Homed',
           \A o \in Roots : Stands(o)' => /\ Stands(o) \/ Makes(Head(Top.rest), o)
                                          /\ ~Ends(Head(Top.rest), o)
    PROVE  Remembered'
<1> DEFINE f == stack
           g == stack'
           h == FirstStep(f)
<1>1. /\ f \in Seq(Frames) /\ g \in Seq(Frames) /\ OneAhead(f, g) /\ Len(g) = Len(f)
      /\ h = Head(Top.rest) /\ h.op = op /\ h.arg = Arg
    BY AdvancedAhead DEF TypeOK, StackOK, Advance
<1>2. Tidy(f, cleanups, deployed) BY DEF Remembered
<1> HIDE DEF f, g, h
<1>3. /\ Tidy(g, cleanups', deployed')
      /\ \A o \in Roots :
             /\ Covered(f, cleanups, deployed, o) \/ Makes(h, o)
             /\ ~Ends(h, o)
             => Covered(g, cleanups', deployed', o)
    <2>1. /\ \A x \in Range(cleanups') :
                 \/ x \in Range(cleanups)
                 \/ /\ x = FirstStep(f).arg
                    /\ FirstStep(f).op \in {"register", "registerIfDeployed"}
          /\ FirstStep(f).op \notin Hasty
          /\ FirstStep(f).op = "register" => FirstStep(f).arg \in Range(cleanups')
          /\ FirstStep(f).op = "registerIfDeployed" /\ deployed =>
                 FirstStep(f).arg \in Range(cleanups')
          /\ deployed \/ FirstStep(f).op = "installed" => deployed'
        BY <1>1 DEF h
    <2>2. \A x \in Range(cleanups) : x \in Range(cleanups') OBVIOUS
    <2> QED BY <1>1, <1>2, <2>1, <2>2, StepAhead DEF h
<1>4. \A o \in Roots : Stands(o)' => Covered(g, cleanups', deployed', o)
    BY <1>1, <1>3 DEF Remembered, f
<1> QED BY <1>3, <1>4 DEF Remembered, g

LEMMA ApiRemembers ==
    ASSUME Paired, TypeOK, Remembered, NEW op, At(op), Advance, UNCHANGED context,
           op \notin Hasty \cup {"register", "registerIfDeployed", "installed"},
           Homed',
           \A o \in Roots : Stands(o)' => /\ Stands(o) \/ Makes(Head(Top.rest), o)
                                          /\ ~Ends(Head(Top.rest), o)
    PROVE  Remembered'
<1>1. /\ \A x \in Range(cleanups) : x \in Range(cleanups')
      /\ \A x \in Range(cleanups') : x \in Range(cleanups)
      /\ deployed => deployed'
    BY DEF context
<1> QED BY <1>1, AheadRemembers

\* A step that leaves the cluster alone and waits for nothing.
LEMMA QuietlyRemembers ==
    ASSUME Paired, TypeOK, Remembered, NEW op, At(op), Advance, UNCHANGED <<context, cluster>>,
           op \notin Hasty \cup Removals,
           op \notin {"register", "registerIfDeployed", "installed", "awaitGone", "finalize"}
    PROVE  Remembered'
<1>1. Homed' BY DEF Remembered, Homed
<1>2. Head(Top.rest).op = op BY DEF At
<1>3. \A o \in Roots : Stands(o)' => Stands(o) /\ ~Ends(Head(Top.rest), o)
    BY <1>2 DEF Stands, Ends
<1> QED BY <1>1, <1>3, ApiRemembers

LEMMA SafeStep ==
    ASSUME TypeOK, Remembered, NEW op, At(op)
    PROVE  IsSafe(Head(Top.rest))
<1>1. /\ stack \in Seq(Frames) /\ stack # <<>> /\ Depth = Len(stack) /\ Top.rest # <<>>
    BY AdvancedAhead DEF TypeOK, StackOK
<1>2. Depth \in 1 .. Len(stack) /\ Top \in Frames BY <1>1, TopIsFrame DEF StackOK, Depth
<1>3. Top.rest \in Seq(Steps) BY <1>2 DEF Frames
<1>4. Head(Top.rest) \in Range(Top.rest) BY <1>1, <1>3, RangeOfTail
<1> QED BY <1>2, <1>4 DEF Remembered, Tidy, Orderly, Top, Depth

LEMMA CreateRemembers ==
    ASSUME Paired, TypeOK, Remembered, CreateObject
    PROVE  Remembered'
<1>1. /\ \E op \in Makings : At(op)
      /\ Accepting(Arg) /\ Advance /\ UNCHANGED context
      /\ cluster' = [cluster EXCEPT ![Arg] = IF @ = "absent" THEN Born(Arg) ELSE @]
    BY DEF CreateObject, Makings
<1>2. PICK op \in Makings : At(op) BY <1>1
<1>3. op \notin Hasty \cup {"register", "registerIfDeployed", "installed"}
    BY DEF Makings, Hasty
<1>4. Head(Top.rest).op = op /\ Head(Top.rest).arg = Arg /\ Arg \in Objects
    <2>1. op \in ObjectOps BY DEF Makings, ObjectOps
    <2> QED BY <1>2, <2>1, StepTyped DEF At, Arg, TypeOK, StackOK
<1>5. cluster \in [Objects -> Status] BY DEF TypeOK
<1>6. /\ \A o \in Objects : o # Arg => cluster'[o] = cluster[o]
      /\ \A o \in Objects : cluster[o] # "absent" => cluster'[o] = cluster[o]
    BY <1>1, <1>5
<1>7. Homed'
    <2> SUFFICES ASSUME NEW o \in Objects, Home[o] # None, cluster'[o] # "absent"
                 PROVE  cluster'[Home[o]] # "absent"
        BY DEF Homed
    <2>1. Home[o] \in Objects BY HarnessAssumption
    <2>2. cluster[Home[o]] # "absent"
        <3>1. CASE cluster[o] # "absent" BY <3>1 DEF Remembered, Homed
        <3>2. CASE cluster[o] = "absent"
            <4>1. o = Arg BY <1>6, <3>2
            <4> QED BY <1>1, <4>1 DEF Accepting, Live
        <3> QED BY <3>1, <3>2
    <2> QED BY <1>6, <2>1, <2>2
<1>8. ASSUME NEW o \in Roots, Stands(o)'
      PROVE  (Stands(o) \/ Makes(Head(Top.rest), o)) /\ ~Ends(Head(Top.rest), o)
    <2>1. o \in Objects BY DEF Roots, Kept
    <2>2. CASE o = Arg
        BY <1>4, <2>2 DEF Makes, Ends, Makings, Removals
    <2>3. CASE o # Arg
        BY <1>4, <1>6, <1>8, <2>1, <2>3 DEF Stands, Ends
    <2> QED BY <2>2, <2>3
<1> QED BY <1>1, <1>2, <1>3, <1>7, <1>8, ApiRemembers

LEMMA RemovalRemembers ==
    ASSUME Paired, TypeOK, Remembered, DeleteObject \/ EraseFile
    PROVE  Remembered'
<1>1. /\ \E op \in Removals \cup {"erase"} : At(op) /\ (op = "erase" => EraseFile)
      /\ Advance /\ UNCHANGED context
      /\ \E v \in {"absent", "terminating"} :
             /\ cluster' = [cluster EXCEPT ![Arg] = IF @ = "absent" THEN @ ELSE v]
             /\ v = "absent" => At("erase")
    <2>1. CASE DeleteObject
        BY <2>1 DEF DeleteObject, Removals
    <2>2. CASE EraseFile
        <3>1. /\ At("erase") /\ Advance /\ UNCHANGED context
              /\ cluster' = [cluster EXCEPT ![Arg] = "absent"]
            BY <2>2 DEF EraseFile
        <3>2. cluster' = [cluster EXCEPT ![Arg] = IF @ = "absent" THEN @ ELSE "absent"]
            BY <3>1
        <3> QED BY <2>2, <3>1, <3>2
    <2> QED BY <2>1, <2>2
<1>2. PICK op \in Removals \cup {"erase"} : At(op) BY <1>1
<1>3. op \notin Hasty \cup {"register", "registerIfDeployed", "installed"} \cup Makings
    BY DEF Makings, Hasty, Removals
<1>4. Head(Top.rest).op = op /\ Head(Top.rest).arg = Arg /\ Arg \in Objects
    <2>1. op \in ObjectOps BY DEF Removals, ObjectOps
    <2> QED BY <1>2, <2>1, StepTyped DEF At, Arg, TypeOK, StackOK
<1>5. cluster \in [Objects -> Status] BY DEF TypeOK
<1>6. PICK v \in {"absent", "terminating"} :
          /\ cluster' = [cluster EXCEPT ![Arg] = IF @ = "absent" THEN @ ELSE v]
          /\ v = "absent" => op = "erase"
    BY <1>1, <1>4 DEF At
<1>7. op = "erase" => Arg \notin Namespaces
    BY <1>2, <1>4, SafeStep DEF IsSafe
<1>8. /\ \A o \in Objects : o # Arg => cluster'[o] = cluster[o]
      /\ cluster'[Arg] \notin Live
      /\ \A o \in Objects : o \in Namespaces => (cluster'[o] # "absent" <=> cluster[o] # "absent")
      /\ \A o \in Objects : cluster'[o] # "absent" => cluster[o] # "absent"
    BY <1>4, <1>5, <1>6, <1>7 DEF Live
<1>9. Homed'
    <2> SUFFICES ASSUME NEW o \in Objects, Home[o] # None, cluster'[o] # "absent"
                 PROVE  cluster'[Home[o]] # "absent"
        BY DEF Homed
    <2>1. Home[o] \in Namespaces /\ Home[o] \in Objects BY HarnessAssumption DEF Namespaces
    <2>2. cluster[Home[o]] # "absent" BY <1>8 DEF Remembered, Homed
    <2> QED BY <1>8, <2>1, <2>2
<1>10. ASSUME NEW o \in Roots, Stands(o)'
       PROVE  Stands(o) /\ ~Ends(Head(Top.rest), o)
    <2>1. o \in Objects BY DEF Roots, Kept
    <2>2. CASE o = Arg
        BY <1>3, <1>4, <1>7, <1>8, <1>10, <2>1, <2>2 DEF Stands, Ends, Removals
    <2>3. CASE o # Arg
        BY <1>4, <1>8, <1>10, <2>1, <2>3 DEF Stands, Ends
    <2> QED BY <2>2, <2>3
<1> QED BY <1>1, <1>2, <1>3, <1>9, <1>10, ApiRemembers

LEMMA PollRemembers ==
    ASSUME Paired, TypeOK, Remembered, PollDone
    PROVE  Remembered'
<1>1. /\ \E op \in {"await", "awaitGone", "awaitGoneQuietly", "finalize"} : At(op)
      /\ Advance /\ UNCHANGED <<context, cluster>>
      /\ At("awaitGone") \/ At("finalize") => cluster[Arg] = "absent"
    BY DEF PollDone, Observed, At
<1>2. PICK op \in {"await", "awaitGone", "awaitGoneQuietly", "finalize"} : At(op) BY <1>1
<1>3. op \notin Hasty \cup {"register", "registerIfDeployed", "installed"} \cup Removals
    BY DEF Hasty, Removals
<1>4. Head(Top.rest).op = op /\ Head(Top.rest).arg = Arg BY <1>2 DEF At, Arg
<1>5. Homed' BY <1>1 DEF Remembered, Homed
<1>6. ASSUME NEW o \in Roots, Stands(o)'
      PROVE  Stands(o) /\ ~Ends(Head(Top.rest), o)
    <2>1. Stands(o) BY <1>1, <1>6 DEF Stands
    <2>2. CASE Ends(Head(Top.rest), o)
        <3>1. op \in {"awaitGone", "finalize"} /\ Arg = o BY <1>3, <1>4, <2>2 DEF Ends
        <3>2. cluster[o] = "absent" BY <1>1, <1>2, <3>1
        <3> QED BY <2>1, <3>2 DEF Stands, Live
    <2> QED BY <2>1, <2>2
<1> QED BY <1>1, <1>2, <1>3, <1>5, <1>6, ApiRemembers

LEMMA StackStepTyped == TypeOK /\ [Next]_vars => stack' \in Seq(Frames)
BY StackStep DEF StackOK

\* The installer that has found the operator returns; its caller goes on as before.
LEMMA ReturnIfInstalledRemembers ==
    ASSUME Paired, TypeOK, Remembered, ReturnIfInstalled, stack' \in Seq(Frames)
    PROVE  Remembered'
<1> DEFINE f == stack
           g == stack'
           D == Len(f)
<1>1. /\ At("returnIfInstalled") /\ deployed' = FALSE /\ UNCHANGED <<cleanups, cluster>>
      /\ stack' \in {Advanced, [stack EXCEPT ![Depth].rest = <<>>]}
    BY DEF ReturnIfInstalled, Advance
<1>2. /\ f \in Seq(Frames) /\ f # <<>> /\ Depth = D /\ Top.rest # <<>>
      /\ FirstStep(f).op = "returnIfInstalled"
      /\ Advanced \in Seq(Frames) /\ Len(Advanced) = D /\ OneAhead(f, Advanced)
    BY <1>1, AdvancedAhead DEF TypeOK, StackOK
<1>3. Top = f[D] /\ Top \in Frames /\ D \in Nat \ {0} BY <1>2, InnermostFrame DEF Top
<1>4. /\ Len(g) = D /\ Same(f, g, D - 1) /\ g[D].rest \in {Tail(f[D].rest), <<>>}
      /\ g[D].defers = f[D].defers
    <2>1. CASE g = Advanced BY <1>2, <2>1 DEF OneAhead
    <2>2. CASE g = [stack EXCEPT ![Depth].rest = <<>>]
        <3> DEFINE fr == [Top EXCEPT !.rest = <<>>]
        <3>0. <<>> \in Seq(Steps) /\ Top.defers = f[D].defers BY <1>3
        <3>1. fr \in Frames /\ fr.rest = <<>> /\ fr.defers = Top.defers
            BY <1>3, <3>0 DEF Frames
        <3>2. g = [stack EXCEPT ![Depth] = fr] BY <2>2 DEF Top
        <3> HIDE DEF fr
        <3>3. Len(g) = Depth /\ g[Depth] = fr /\ \A n \in 1 .. Depth - 1 : g[n] = stack[n]
            BY <1>2, <3>1, <3>2, TopReplacing DEF StackOK
        <3> HIDE DEF D, f, g
        <3> QED BY <1>2, <3>0, <3>1, <3>3 DEF Same, f, g
    <2> QED BY <1>1, <2>1, <2>2
<1>5. Tidy(f, cleanups, deployed) BY DEF Remembered
<1> HIDE DEF f, g, D
<1>6. /\ Tidy(g, cleanups, FALSE)
      /\ \A o \in Roots : Covered(f, cleanups, deployed, o) => Covered(g, cleanups, FALSE, o)
    BY <1>2, <1>3, <1>4, <1>5, StepReturnIfInstalled DEF Top, D, g
<1>7. Carried BY <1>1, <1>6 DEF Carried, f, g
<1> QED BY <1>1, <1>7, CarriedRemembers

LEMMA ApiStepRemembers ==
    ASSUME Paired, TypeOK, Remembered, ApiStep, stack' \in Seq(Frames), ~erred'
    PROVE  Remembered'
<1>1. CASE Pass BY <1>1, QuietlyRemembers DEF Pass, Hasty, Removals
<1>2. CASE CreateObject BY <1>2, CreateRemembers
<1>3. CASE DeleteObject \/ EraseFile BY <1>3, RemovalRemembers
<1>4. CASE ReadFile BY <1>4, QuietlyRemembers DEF ReadFile, Hasty, Removals
<1>5. CASE ReturnIfInstalled BY <1>5, ReturnIfInstalledRemembers
<1>6. CASE PollDone BY <1>6, PollRemembers
<1>7. CASE GiveUpQuietly BY <1>7, QuietlyRemembers DEF GiveUpQuietly, Hasty, Removals
<1>8. CASE SilentFailure BY <1>8, QuietlyRemembers DEF SilentFailure, Hasty, Removals
<1>9. ~Deadline /\ ~Refused /\ ~Misfortune BY DEF Deadline, Refused, Misfortune, Panic
<1> QED BY <1>1, <1>2, <1>3, <1>4, <1>5, <1>6, <1>7, <1>8, <1>9 DEF ApiStep

LEMMA EnterAhead ==
    ASSUME StackOK, NEW op, At(op), NEW steps \in Seq(Steps), Enter(steps)
    PROVE  /\ stack \in Seq(Frames) /\ stack # <<>> /\ stack' \in Seq(Frames)
           /\ Len(stack') = Len(stack) + 1 /\ OneAhead(stack, stack')
           /\ stack'[Len(stack) + 1] = NewFrame(steps)
           /\ FirstStep(stack).op = op /\ FirstStep(stack).arg = Arg
<1>1. /\ stack \in Seq(Frames) /\ stack # <<>> /\ Advanced \in Seq(Frames)
      /\ Len(Advanced) = Len(stack) /\ OneAhead(stack, Advanced)
      /\ FirstStep(stack).op = op /\ FirstStep(stack).arg = Arg
    BY AdvancedAhead
<1>2. NewFrame(steps) \in Frames BY DEF NewFrame, Frames
<1> DEFINE D == Len(stack)
           nf == NewFrame(steps)
<1>3. D \in Nat \ {0} /\ stack' = Append(Advanced, nf) BY <1>1, InnermostFrame DEF Enter
<1> HIDE DEF nf, D
<1>4. /\ stack' \in Seq(Frames) /\ Len(stack') = D + 1 /\ stack'[D + 1] = nf
      /\ \A n \in 1 .. D : stack'[n] = Advanced[n]
    BY <1>1, <1>2, <1>3 DEF nf, D
<1>5. D \in 1 .. Len(stack') /\ D \in 1 .. D /\ \A n \in 1 .. D - 1 : n \in 1 .. D
    BY <1>3, <1>4
<1>6. OneAhead(stack, stack')
    BY <1>1, <1>4, <1>5 DEF OneAhead, Same, D
<1> QED BY <1>1, <1>4, <1>6 DEF D, nf

\* A step that does no more than to note something.
LEMMA NoteRemembers ==
    ASSUME Paired, TypeOK, Remembered, NEW op, At(op), Advance, UNCHANGED cluster,
           op \in {"name", "installed", "register", "registerIfDeployed"},
           \A x \in Range(cleanups) : x \in Range(cleanups'),
           \A x \in Range(cleanups') :
               x \in Range(cleanups) \/ (x = Arg /\ op \in {"register", "registerIfDeployed"}),
           op = "register" => Arg \in Range(cleanups'),
           op = "registerIfDeployed" /\ deployed => Arg \in Range(cleanups'),
           deployed \/ op = "installed" => deployed'
    PROVE  Remembered'
<1>1. op \notin Hasty BY DEF Hasty
<1>2. Homed' BY DEF Remembered, Homed
<1>3. Head(Top.rest).op = op BY DEF At
<1>4. \A o \in Roots : Stands(o)' => Stands(o) /\ ~Ends(Head(Top.rest), o)
    BY <1>3 DEF Stands, Ends, Removals
<1> QED BY <1>1, <1>2, <1>4, AheadRemembers

LEMMA RegisterRemembers ==
    ASSUME Paired, TypeOK, Remembered, RegisterCleanup
    PROVE  Remembered'
<1>1. /\ Advance /\ UNCHANGED <<cluster, deployed>>
      /\ cleanups' = Append(cleanups, Arg)
      /\ \E op \in {"register", "registerIfDeployed"} : At(op)
    BY DEF RegisterCleanup
<1>2. PICK op \in {"register", "registerIfDeployed"} : At(op) BY <1>1
<1>3. Arg \in Scripts
    <2>1. op \in ScriptOps BY DEF ScriptOps
    <2> QED BY <1>2, <2>1, StepTyped DEF TypeOK, StackOK
<1>4. cleanups \in Seq(Scripts) BY DEF TypeOK
<1>5. Range(cleanups') = Range(cleanups) \cup {Arg}
    BY <1>1, <1>3, <1>4, RangeOfAppend
<1> QED BY <1>1, <1>2, <1>5, NoteRemembers

\* What the calls of the cleanups are.
LEMMA CleanupCallsRange ==
    ASSUME TypeOK
    PROVE  /\ CleanupCalls \in Seq(Steps)
           /\ \A y : y \in Range(CleanupCalls) <=>
                         \E z \in Range(cleanups) : y = [op |-> "call", arg |-> z]
           /\ \A o : Follows(CleanupCalls, o)
<1> DEFINE n == Len(cleanups)
           s == CleanupCalls
<1>1. cleanups \in Seq(Scripts) /\ n \in Nat /\ s \in Seq(Steps)
    BY CleanupCallsTyped DEF TypeOK
<1>2. s = [i \in 1 .. n |-> [op |-> "call", arg |-> cleanups[n + 1 - i]]] BY DEF CleanupCalls
<1> HIDE DEF n, s
<1>3. Len(s) = n /\ \A i \in 1 .. n : s[i] = [op |-> "call", arg |-> cleanups[n + 1 - i]]
    BY <1>1, <1>2
<1>4. \A i \in 1 .. n : n + 1 - i \in 1 .. n /\ n + 1 - (n + 1 - i) = i BY <1>1
<1>5. /\ \A y : y \in Range(s) <=> \E i \in 1 .. n : y = s[i]
      /\ \A z : z \in Range(cleanups) <=> \E i \in 1 .. n : z = cleanups[i]
    BY <1>1, <1>3, RangeIn DEF n
<1>6. ASSUME NEW y
      PROVE  y \in Range(s) <=> \E z \in Range(cleanups) : y = [op |-> "call", arg |-> z]
    <2>1. ASSUME y \in Range(s) PROVE \E z \in Range(cleanups) : y = [op |-> "call", arg |-> z]
        <3>1. PICK i \in 1 .. n : y = s[i] BY <1>5, <2>1
        <3> QED BY <1>3, <1>4, <1>5, <3>1
    <2>2. ASSUME NEW z \in Range(cleanups), y = [op |-> "call", arg |-> z] PROVE y \in Range(s)
        <3>1. PICK i \in 1 .. n : z = cleanups[i] BY <1>5, <2>2
        <3>2. s[n + 1 - i] = y BY <1>3, <1>4, <2>2, <3>1
        <3> QED BY <1>4, <1>5, <3>2
    <2> QED BY <2>1, <2>2
<1>7. \A o : Follows(s, o)
    BY <1>3 DEF Follows, Ends, Removals
<1> QED BY <1>1, <1>6, <1>7 DEF s

LEMMA ContextStepRemembers ==
    ASSUME Paired, TypeOK, Remembered, ContextStep
    PROVE  Remembered'
<1>0. StackOK /\ Tidy(stack, cleanups, deployed) BY DEF TypeOK, StackOK, Remembered
<1>1. CASE NewContext
    <2>1. /\ At("newContext") /\ stack' = Advanced /\ cleanups' = <<>> /\ deployed' = FALSE
          /\ UNCHANGED cluster
        BY <1>1 DEF NewContext, Advance
    <2>2. /\ stack \in Seq(Frames) /\ Advanced \in Seq(Frames) /\ OneAhead(stack, Advanced)
          /\ Len(Advanced) = Len(stack) /\ FirstStep(stack).op = "newContext"
        BY <1>0, <2>1, AdvancedAhead
    <2>3. /\ Tidy(Advanced, <<>>, FALSE)
          /\ \A o \in Roots :
                 Covered(stack, cleanups, deployed, o) => Covered(Advanced, <<>>, FALSE, o)
        BY <1>0, <2>2, StepNewContext
    <2>4. Carried BY <2>1, <2>3 DEF Carried
    <2> QED BY <2>1, <2>4, CarriedRemembers
<1>2. CASE Name BY <1>2, NoteRemembers DEF Name
<1>3. CASE Installed BY <1>3, NoteRemembers DEF Installed
<1>4. CASE RegisterCleanup BY <1>4, RegisterRemembers
<1>5. CASE SkipRegister
    BY <1>5, NoteRemembers DEF SkipRegister, context
<1>6. CASE ExecuteCleanups
    <2>1. /\ At("cleanups") /\ Enter(CleanupCalls) /\ UNCHANGED <<cleanups, deployed, cluster>>
        BY <1>6 DEF ExecuteCleanups, context
    <2> DEFINE s == CleanupCalls
    <2>2. /\ s \in Seq(Steps) /\ \A o : Follows(s, o)
          /\ \A y : y \in Range(s) <=> \E z \in Range(cleanups) : y = [op |-> "call", arg |-> z]
        BY CleanupCallsRange
    <2>3. Enter(s) BY <2>1
    <2> HIDE DEF s
    <2>4. /\ stack \in Seq(Frames) /\ stack' \in Seq(Frames) /\ OneAhead(stack, stack')
          /\ Len(stack') = Len(stack) + 1 /\ FirstStep(stack).op = "cleanups"
          /\ stack'[Len(stack) + 1] = NewFrame(s)
        BY <1>0, <2>1, <2>2, <2>3, EnterAhead
    <2> DEFINE g == stack'
    <2>5. /\ g \in Seq(Frames) /\ OneAhead(stack, g) /\ Len(g) = Len(stack) + 1
          /\ g[Len(stack) + 1] = NewFrame(s)
        BY <2>4
    <2> HIDE DEF g
    <2>6. /\ Tidy(g, cleanups, deployed)
          /\ \A o \in Roots :
                 Covered(stack, cleanups, deployed, o) => Covered(g, cleanups, deployed, o)
        BY <1>0, <2>2, <2>4, <2>5, StepCleanups
    <2>7. Carried BY <2>1, <2>6 DEF Carried, g
    <2> QED BY <2>1, <2>7, CarriedRemembers
<1> QED BY <1>1, <1>2, <1>3, <1>4, <1>5, <1>6 DEF ContextStep

LEMMA ReturnRemembers ==
    ASSUME Paired, IInv, Green, Remembered, Return, stack' \in Seq(Frames)
    PROVE  Remembered'
<1> DEFINE f == stack
           g == stack'
           D == Len(f)
<1>0. StackOK /\ Tidy(stack, cleanups, deployed) BY DEF IInv, TypeOK, StackOK, Remembered
<1>1. /\ stack # <<>> /\ Top.rest = <<>> /\ Top.defers = <<>> /\ Depth > 1
      /\ UNCHANGED <<cleanups, deployed, cluster>> /\ stack' = Caller
    BY DEF Return, Finished, context
<1>2. Depth = D /\ D \in Nat \ {0} /\ Top = f[D]
    BY <1>0, <1>1, TopIsFrame DEF Depth, Top
<1>3. g = SubSeq(stack, 1, Depth - 1)
    BY <1>1, GreenNoPanic DEF Caller
<1>4. g \in Seq(Frames) /\ Len(g) = D - 1 /\ \A n \in 1 .. D - 1 : g[n] = f[n]
    <2>1. \A n \in 1 .. Depth - 1 : stack[n] \in Frames BY <1>0, <1>2 DEF StackOK
    <2> QED BY <1>1, <1>2, <1>3, <2>1, SubSeqProperties
<1> HIDE DEF g
<1>5. /\ f \in Seq(Frames) /\ Len(f) > 1 /\ Len(g) = Len(f) - 1 /\ Same(f, g, Len(f) - 1)
      /\ f[Len(f)].rest = <<>> /\ f[Len(f)].defers = <<>>
    BY <1>0, <1>1, <1>2, <1>4 DEF StackOK, Same
<1> HIDE DEF f, D
<1>6. /\ Tidy(g, cleanups, deployed)
      /\ \A o \in Roots : Covered(f, cleanups, deployed, o) => Covered(g, cleanups, deployed, o)
    BY <1>0, <1>4, <1>5, StepReturn DEF f
<1>7. Carried BY <1>1, <1>6 DEF Carried, f, g
<1> QED BY <1>1, <1>7, CarriedRemembers

LEMMA RunDeferredRemembers ==
    ASSUME Paired, TypeOK, Remembered, RunDeferred
    PROVE  Remembered'
<1> DEFINE fr == [Top EXCEPT !.defers = Tail(@)]
           D == Depth
           h == [stack EXCEPT ![D] = fr]
           x == Head(Top.defers)
           nf == NewFrame(Body[x])
           g == stack'
<1>0. StackOK /\ Tidy(stack, cleanups, deployed) BY DEF TypeOK, StackOK, Remembered
<1>1. /\ stack # <<>> /\ Top.rest = <<>> /\ Top.defers # <<>>
      /\ g = Append(h, nf) /\ UNCHANGED <<cleanups, deployed, cluster>>
    BY DEF RunDeferred, Top, context
<1>2. /\ D = Len(stack) /\ D \in Nat \ {0} /\ Top \in Frames /\ Top = stack[D]
      /\ Top.defers \in Seq(Scripts)
    BY <1>0, <1>1, TopIsFrame DEF Depth, Top, Frames
<1>3. /\ x \in Scripts /\ Tail(Top.defers) \in Seq(Scripts)
      /\ Range(Top.defers) = {x} \cup Range(Tail(Top.defers))
    BY <1>1, <1>2, RangeOfTail
<1>4. fr \in Frames /\ fr.rest = <<>> /\ fr.defers = Tail(Top.defers)
    BY <1>1, <1>2, <1>3 DEF Frames
<1>5. nf \in Frames BY <1>3, BodyTyped DEF NewFrame, Frames
<1> HIDE DEF fr
<1>6. /\ h \in Seq(Frames) /\ Len(h) = D /\ h[D] = fr
      /\ \A n \in 1 .. D - 1 : h[n] = stack[n]
    BY <1>0, <1>1, <1>4, TopReplacing
<1> HIDE DEF h, nf, x, D, g
<1>7. /\ g \in Seq(Frames) /\ Len(g) = D + 1 /\ g[D + 1] = nf
      /\ \A n \in 1 .. D : g[n] = h[n]
    BY <1>1, <1>2, <1>5, <1>6
<1>8. D \in 1 .. D /\ \A n \in 1 .. D - 1 : n \in 1 .. D BY <1>2
<1>9. /\ Same(stack, g, D - 1) /\ stack[D].rest = <<>> /\ g[D].rest = <<>>
      /\ Range(stack[D].defers) = {x} \cup Range(g[D].defers)
    BY <1>1, <1>2, <1>3, <1>4, <1>6, <1>7, <1>8 DEF Same
<1>10. /\ Tidy(g, cleanups, deployed)
       /\ \A o \in Roots :
              Covered(stack, cleanups, deployed, o) => Covered(g, cleanups, deployed, o)
    <2>1. /\ stack \in Seq(Frames) /\ Len(g) = Len(stack) + 1 /\ Same(stack, g, Len(stack) - 1)
          /\ stack[Len(stack)].rest = <<>> /\ g[Len(stack)].rest = <<>>
          /\ Range(stack[Len(stack)].defers) = {x} \cup Range(g[Len(stack)].defers)
          /\ g[Len(stack) + 1] = NewFrame(Body[x])
        BY <1>0, <1>2, <1>7, <1>9 DEF StackOK, nf
    <2> QED BY <1>0, <1>1, <1>7, <2>1, StepRunDeferred
<1>11. Carried BY <1>1, <1>10 DEF Carried, g
<1> QED BY <1>1, <1>11, CarriedRemembers

LEMMA CallRemembers ==
    ASSUME Paired, TypeOK, Remembered, Call
    PROVE  Remembered'
<1> DEFINE g == stack'
           x == Arg
<1>0. StackOK /\ Tidy(stack, cleanups, deployed) BY DEF TypeOK, StackOK, Remembered
<1>1. At("call") /\ Enter(Body[x]) /\ UNCHANGED <<cleanups, deployed, cluster>>
    BY DEF Call, context
<1>2. x \in Scripts BY <1>0, <1>1, StepTyped DEF ScriptOps
<1>3. Body[x] \in Seq(Steps) BY <1>2, BodyTyped
<1>4. /\ stack \in Seq(Frames) /\ g \in Seq(Frames) /\ OneAhead(stack, g)
      /\ Len(g) = Len(stack) + 1 /\ FirstStep(stack).op = "call"
      /\ g[Len(stack) + 1] = NewFrame(Body[FirstStep(stack).arg])
    BY <1>0, <1>1, <1>3, EnterAhead
<1> HIDE DEF g, x
<1>5. /\ Tidy(g, cleanups, deployed)
      /\ \A o \in Roots :
             Covered(stack, cleanups, deployed, o) => Covered(g, cleanups, deployed, o)
    BY <1>0, <1>4, StepCall
<1>6. Carried BY <1>1, <1>5 DEF Carried, g
<1> QED BY <1>1, <1>6, CarriedRemembers

LEMMA DeferRemembers ==
    ASSUME Paired, TypeOK, Remembered, Defer, stack' \in Seq(Frames)
    PROVE  Remembered'
<1> DEFINE g == stack'
           a == Advanced
           D == Len(stack)
           x == Arg
<1>0. StackOK /\ Tidy(stack, cleanups, deployed) BY DEF TypeOK, StackOK, Remembered
<1>1. /\ At("defer") /\ UNCHANGED <<cleanups, deployed, cluster>>
      /\ g = [a EXCEPT ![Depth].defers = <<x>> \o @]
    BY DEF Defer, context
<1>2. /\ stack # <<>> /\ Depth = D /\ a \in Seq(Frames) /\ Len(a) = D /\ OneAhead(stack, a)
      /\ FirstStep(stack).op = "defer" /\ FirstStep(stack).arg = x
    BY <1>0, <1>1, AdvancedAhead
<1>3. D \in Nat \ {0} /\ stack[D] \in Frames BY <1>0, <1>2, InnermostFrame DEF StackOK
<1>4. x \in Scripts BY <1>0, <1>1, StepTyped DEF ScriptOps
<1> HIDE DEF g, a, D, x
<1>5. a \in [1 .. D -> Frames] /\ D \in 1 .. D /\ \A n \in 1 .. D - 1 : n \in 1 .. D /\ n # D
    BY <1>2, <1>3
<1>6. a[D].defers \in Seq(Scripts) BY <1>5 DEF Frames
<1>7. <<x>> \o a[D].defers \in Seq(Scripts) BY <1>4, <1>6
<1>8. /\ g[D].rest = a[D].rest /\ g[D].defers = <<x>> \o a[D].defers
      /\ \A n \in 1 .. D - 1 : g[n] = a[n]
      /\ DOMAIN g = 1 .. D
    BY <1>1, <1>2, <1>5 DEF Frames
<1>9. g \in Seq(Frames) /\ Len(g) = D
    <2>1. g \in Seq(Frames) BY DEF g
    <2> QED BY <1>3, <1>8, <2>1
<1>10. Range(g[D].defers) = {x} \cup Range(a[D].defers)
    <2> DEFINE t == <<x>> \o a[D].defers
    <2>1. t \in Seq(Scripts) /\ t # <<>> /\ Head(t) = x /\ Tail(t) = a[D].defers
        BY <1>4, <1>6
    <2>2. g[D].defers = t BY <1>8
    <2> HIDE DEF t
    <2> QED BY <2>1, <2>2, RangeOfTail
<1>11. /\ Same(stack, g, D - 1) /\ stack[D].rest # <<>> /\ g[D].rest = Tail(stack[D].rest)
       /\ Range(g[D].defers) = {x} \cup Range(stack[D].defers)
    BY <1>2, <1>8, <1>10 DEF OneAhead, Same, D
<1>12. /\ Tidy(g, cleanups, deployed)
       /\ \A o \in Roots :
              Covered(stack, cleanups, deployed, o) => Covered(g, cleanups, deployed, o)
    BY <1>0, <1>2, <1>9, <1>11, StepDefer DEF StackOK, D
<1>13. Carried BY <1>1, <1>12 DEF Carried, g
<1> QED BY <1>1, <1>13, CarriedRemembers

LEMMA GoStepRemembers ==
    ASSUME Paired, IInv, Green, Remembered, GoStep, stack' \in Seq(Frames)
    PROVE  Remembered'
BY ReturnRemembers, RunDeferredRemembers, CallRemembers, DeferRemembers DEF GoStep, IInv

\* Nothing stands when the outermost function has returned.
LEMMA GinkgoRemembers ==
    ASSUME Paired, IInv, Green, Remembered, Ginkgo
    PROVE  Remembered'
<1>1. ASSUME NEW s \in Specs, StartSpec(s) PROVE Remembered'
    <2>1. /\ stack = <<>> /\ stack' = <<NewFrame(Body[s])>> /\ cleanups' = <<>>
          /\ deployed' = FALSE /\ UNCHANGED cluster
        BY <1>1 DEF StartSpec
    <2>2. Tidy(stack', cleanups', deployed') BY <2>1, StepStart
    <2>3. \A o : ~Covered(stack, cleanups, deployed, o) BY <2>1 DEF Covered
    <2> QED BY <2>1, <2>2, <2>3, CarriedRemembers DEF Carried
<1>2. ASSUME NEW s \in Specs, EndSpec(s) PROVE Remembered'
    <2>1. /\ stack # <<>> /\ Top.rest = <<>> /\ Top.defers = <<>> /\ Depth = 1 /\ stack' = <<>>
          /\ UNCHANGED <<cleanups, deployed, cluster>>
        BY <1>2 DEF EndSpec, Finished, context
    <2>2. Len(stack) = 1 /\ stack[1].rest = <<>> /\ stack[1].defers = <<>>
        BY <2>1 DEF Depth, Top
    <2>3. ASSUME NEW o PROVE ~Covered(stack, cleanups, deployed, o)
        <3>1. ~FrameSees(stack, cleanups, 1, o)
            BY <2>2, EmptyFrame, RangeOfEmpty DEF FrameSees
        <3>2. ~Owed(stack, cleanups, 1, o) BY <3>1 DEF Owed
        <3>3. ~Reported(stack, deployed, o) BY <2>2, NothingLeft DEF Reported
        <3>4. ~Reporting(stack, deployed, o) BY <2>2 DEF Reporting, Under
        <3> QED BY <2>2, <3>2, <3>3, <3>4 DEF Covered
    <2>4. Tidy(<<>>, cleanups, deployed)
        <3>1. \A x \in Range(cleanups) : x \in Safe BY DEF Remembered, Tidy, Orderly
        <3>2. Len(<<>>) = 0 /\ 1 .. 0 = {} OBVIOUS
        <3> QED BY <3>1, <3>2 DEF Tidy, Sees, Orderly
    <2> QED BY <2>1, <2>3, <2>4, CarriedRemembers DEF Carried
<1> QED BY <1>1, <1>2 DEF Ginkgo

----------------------------------------------------------------------------
(* The steps of the cluster. *)

\* What a controller makes goes with what it was made for, or before.
LEMMA EndsFollow ==
    ASSUME NEW s \in Seq(Steps), NEW o, Maker[o] # None, Follows(s, o),
           \E x \in Range(s) : Ends(x, Maker[o])
    PROVE  \E x \in Range(s) : Ends(x, o)
<1>1. \A x : x \in Range(s) <=> \E i \in 1 .. Len(s) : x = s[i] BY RangeIn
<1>2. PICK i \in 1 .. Len(s) : Ends(s[i], Maker[o]) BY <1>1
<1>3. PICK j \in i + 1 .. Len(s) : Ends(s[j], o) BY <1>2 DEF Follows
<1>4. j \in 1 .. Len(s) BY <1>2, <1>3
<1> QED BY <1>1, <1>3, <1>4

LEMMA RemoversFollow ==
    ASSUME Paired, NEW o \in Roots, Maker[o] # None
    PROVE  /\ Leaves(o) = {}
           /\ Removers(Maker[o]) \subseteq Removers(o)
<1>1. \A s \in Scripts : /\ Follows(Body[s], o) /\ Body[s] \in Seq(Steps)
                         /\ \A x \in Range(Body[s]) : x.op \in Makings => Maker[x.arg] = None
    BY BodyTyped DEF Paired, PodsFollow
<1>2. Leaves(o) = {} BY <1>1 DEF Leaves
<1>3. \A s \in Scripts : ~MakesSome(Body[s], o)
    BY <1>1, <1>2 DEF MakesSome, Makes
<1>4. Takers(Maker[o]) \subseteq Takers(o)
    BY <1>1, <1>3, EndsFollow DEF Takers
<1> QED BY <1>2, <1>4 DEF Removers, Has

LEMMA CoveredFollows ==
    ASSUME Paired, NEW f \in Seq(Frames), NEW c, NEW d, Tidy(f, c, d),
           NEW o \in Roots, Maker[o] # None, Covered(f, c, d, Maker[o])
    PROVE  Covered(f, c, d, o)
<1> DEFINE m == Maker[o]
<1>1. m \in MakerSet BY DEF MakerSet
<1>2. ~Reported(f, d, m) /\ ~Reporting(f, d, m)
    BY <1>1 DEF Reported, Reporting, Under, Conditional
<1>3. f # <<>> /\ Owed(f, c, Len(f), m) BY <1>2 DEF Covered
<1>4. PICK n \in 1 .. Len(f) : FrameSees(f, c, n, m) BY <1>3 DEF Owed
<1>5. Leaves(o) = {} /\ Removers(m) \subseteq Removers(o) BY RemoversFollow
<1> HIDE DEF m
<1>6. /\ \A x \in Range(f[n].rest) : IsSafe(x)
      /\ Follows(f[n].rest, o)
      /\ f[n].rest \in Seq(Steps)
    <2>1. f[n] \in Frames OBVIOUS
    <2> QED BY <2>1 DEF Tidy, Orderly, Frames
<1>7. ~MakesSome(f[n].rest, o)
    BY <1>5, <1>6 DEF MakesSome, Makes, IsSafe
<1>8. Own(f[n], m) => Own(f[n], o)
    <2>1. (\E x \in Range(f[n].rest) : Ends(x, m)) => \E x \in Range(f[n].rest) : Ends(x, o)
        BY <1>6, EndsFollow DEF m
    <2>2. \A op : Has(f[n].rest, op, Removers(m)) => Has(f[n].rest, op, Removers(o))
        BY <1>5 DEF Has
    <2> QED BY <1>5, <1>7, <2>1, <2>2 DEF Own
<1>9. /\ Registers(f[n].rest, m) => Registers(f[n].rest, o)
      /\ InCleanups(c, m) => InCleanups(c, o)
    BY <1>5 DEF Registers, Has, InCleanups
<1>10. FrameSees(f, c, n, o) BY <1>4, <1>8, <1>9 DEF FrameSees
<1> QED BY <1>3, <1>10 DEF Covered, Owed

LEMMA ClusterStepRemembers ==
    ASSUME Paired, TypeOK, Remembered, ClusterStep
    PROVE  Remembered'
<1>0. cluster \in [Objects -> Status] /\ stack \in Seq(Frames) BY DEF TypeOK
<1>1. UNCHANGED <<stack, cleanups, deployed>>
    BY DEF ClusterStep, ControllerCreates, BecomesReady, Collected, Vanishes, context
<1>2. PICK o \in Objects : ControllerCreates(o) \/ BecomesReady(o) \/ Collected(o) \/ Vanishes(o)
    BY DEF ClusterStep
<1>3. \A p \in Objects : Home[p] # None => Home[p] \in Objects BY HarnessAssumption
<1>4. Tidy(stack', cleanups', deployed')
    BY <1>1 DEF Remembered
<1>5. CASE ControllerCreates(o)
    <2>1. /\ Maker[o] # None /\ cluster[o] = "absent" /\ cluster[Maker[o]] \in Live /\ Accepting(o)
          /\ cluster' = [cluster EXCEPT ![o] = "pending"]
        BY <1>5 DEF ControllerCreates
    <2>2. cluster'[o] = "pending" /\ \A p \in Objects : p # o => cluster'[p] = cluster[p]
        BY <1>0, <2>1
    <2>3. Homed'
        <3> SUFFICES ASSUME NEW p \in Objects, Home[p] # None, cluster'[p] # "absent"
                     PROVE  cluster'[Home[p]] # "absent"
            BY DEF Homed
        <3>1. cluster[Home[p]] # "absent"
            <4>1. CASE p = o BY <2>1, <4>1 DEF Accepting, Live
            <4>2. CASE p # o BY <2>2, <4>2 DEF Remembered, Homed
            <4> QED BY <4>1, <4>2
        <3> QED BY <1>3, <2>2, <3>1
    <2>4. ASSUME NEW p \in Roots, Stands(p)' PROVE Covered(stack, cleanups, deployed, p)
        <3>1. p \in Objects BY DEF Roots, Kept
        <3>2. CASE p # o
            <4>1. Stands(p) BY <2>2, <2>4, <3>1, <3>2 DEF Stands
            <4> QED BY <4>1 DEF Remembered
        <3>3. CASE p = o
            <4>1. Maker[p] \in Roots BY <2>1, <3>3 DEF Paired, PodsFollow
            <4>2. Stands(Maker[p]) BY <2>1, <3>3 DEF Stands, Live
            <4>3. Covered(stack, cleanups, deployed, Maker[p]) BY <4>1, <4>2 DEF Remembered
            <4> QED BY <1>0, <2>1, <3>3, <4>3, CoveredFollows DEF Remembered
        <3> QED BY <3>2, <3>3
    <2> QED BY <1>1, <1>4, <2>3, <2>4 DEF Remembered
<1>6. CASE BecomesReady(o) \/ Collected(o) \/ Vanishes(o)
    <2>1. \/ /\ cluster[o] \in {"pending", "ready"} /\ cluster'[o] \in {"ready", "terminating"}
             /\ cluster[o] = "pending" \/ cluster'[o] = "terminating"
          \/ /\ cluster'[o] = "absent" /\ \A p \in Objects : Home[p] = o => cluster[p] = "absent"
        BY <1>0, <1>6 DEF BecomesReady, Collected, Vanishes, Live
    <2>2. \A p \in Objects : p # o => cluster'[p] = cluster[p]
        BY <1>0, <1>6 DEF BecomesReady, Collected, Vanishes
    <2>3. \A p \in Objects : cluster'[p] # "absent" => cluster[p] # "absent"
        BY <2>1, <2>2
    <2>4. \A p \in Objects : cluster'[p] \in Live => cluster[p] \in Live
        BY <2>1, <2>2 DEF Live
    <2>5. Homed'
        <3> SUFFICES ASSUME NEW p \in Objects, Home[p] # None, cluster'[p] # "absent"
                     PROVE  cluster'[Home[p]] # "absent"
            BY DEF Homed
        <3>1. cluster[p] # "absent" /\ cluster[Home[p]] # "absent"
            BY <2>3 DEF Remembered, Homed
        <3> QED BY <1>3, <2>1, <2>2, <3>1
    <2>6. ASSUME NEW p \in Roots, Stands(p)' PROVE Covered(stack, cleanups, deployed, p)
        <3>1. p \in Objects BY DEF Roots, Kept
        <3>2. Stands(p) BY <2>3, <2>4, <2>6, <3>1 DEF Stands
        <3> QED BY <3>2 DEF Remembered
    <2> QED BY <1>1, <1>4, <2>5, <2>6 DEF Remembered
<1> QED BY <1>2, <1>5, <1>6

----------------------------------------------------------------------------
(* The theorem. *)

LEMMA RemembersStep ==
    ASSUME Paired, IInv, NothingForgotten, [Next]_vars
    PROVE  NothingForgotten'
<1> SUFFICES ASSUME Green' PROVE Remembered'
    BY DEF NothingForgotten, Remembered, Tidy, Depth
<1>1. Green BY GreenBefore
<1>2. Remembered BY <1>1, NothingForgottenSays
<1>3. TypeOK /\ stack' \in Seq(Frames) BY StackStep DEF IInv, StackOK
<1>4. CASE Ginkgo BY <1>1, <1>2, <1>4, GinkgoRemembers
<1>5. CASE GoStep BY <1>1, <1>2, <1>3, <1>5, GoStepRemembers
<1>6. CASE ContextStep BY <1>2, <1>3, <1>6, ContextStepRemembers
<1>7. CASE ApiStep
    <2>1. Moves BY <1>3, <1>7, ApiStepMoves
    <2>2. ~erred' BY <2>1 DEF Moves, Green
    <2> QED BY <1>2, <1>3, <1>7, <2>2, ApiStepRemembers
<1>8. CASE ClusterStep BY <1>2, <1>3, <1>8, ClusterStepRemembers
<1>9. CASE UNCHANGED vars
    BY <1>2, <1>9 DEF vars, context, history, Remembered, Homed, Stands
<1> QED BY <1>4, <1>5, <1>6, <1>7, <1>8, <1>9 DEF Next, HarnessStep, Terminated

LEMMA RemembersInit == Init => NothingForgotten
<1> SUFFICES ASSUME Init PROVE Remembered
    BY NothingForgottenSays
<1>1. /\ stack = <<>> /\ cleanups = <<>>
      /\ \A o \in Objects : cluster[o] = "absent"
    BY DEF Init
<1>2. Homed BY <1>1 DEF Homed
<1>3. \A o \in Roots : ~Stands(o) BY <1>1 DEF Stands, Live, Roots, Kept
<1>4. Tidy(<<>>, <<>>, deployed)
    <2>1. Range(<<>>) = {} /\ Len(<<>>) = 0 /\ 1 .. 0 = {} BY RangeOfEmpty
    <2> QED BY <2>1 DEF Tidy, Sees, Orderly
<1> QED BY <1>1, <1>2, <1>3, <1>4 DEF Remembered

\* What lives in a namespace goes with it.
LEMMA RememberedIsClean ==
    ASSUME Paired, TypeOK, NothingForgotten
    PROVE  GreenSuiteIsClean
<1> SUFFICES ASSUME stack = <<>>, \A s \in Specs : verdict[s] # "failed",
                    NEW o \in Objects \ Unawaited
             PROVE  cluster[o] \notin Live
    BY DEF GreenSuiteIsClean, Clean
<1>1. Green BY DEF Green
<1>2. Remembered BY <1>1, NothingForgottenSays
<1>3. \A p \in Roots : ~Stands(p) BY <1>2 DEF Remembered, Covered
<1>4. CASE Home[o] = None
    <2>1. o \in Roots BY <1>4 DEF Roots, Kept
    <2> QED BY <1>3, <2>1 DEF Stands, Live
<1>5. CASE Home[o] # None
    <2>1. Home[o] \in Roots BY <1>5 DEF Paired, HomesStand, Kept
    <2>2. Home[o] \in Namespaces BY DEF Namespaces
    <2>3. cluster[Home[o]] = "absent" BY <1>3, <2>1, <2>2 DEF Stands
    <2>4. cluster[o] = "absent" BY <1>2, <1>5, <2>3 DEF Remembered, Homed
    <2> QED BY <2>4 DEF Live
<1> QED BY <1>4, <1>5

\* testcase.go:182-186, security.go:20 and 37-42, converters.go:66-75: if every script
\* sees to the removal of what it makes, by what it has deferred or registered or is still
\* to defer, register or call, a suite without failures leaves nothing that works.
THEOREM NothingIsForgotten ==
    ASSUME Paired
    PROVE  Spec => [](NothingForgotten /\ GreenSuiteIsClean)
<1>1. Init => NothingForgotten
    BY RemembersInit
<1>2. IInv /\ NothingForgotten /\ [Next]_vars => NothingForgotten'
    BY RemembersStep
<1>3. IInv /\ NothingForgotten => GreenSuiteIsClean
    BY RememberedIsClean DEF IInv
<1> QED BY <1>1, <1>2, <1>3, Invariance, PTL DEF Spec

=============================================================================
