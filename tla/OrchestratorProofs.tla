-------------------------- MODULE OrchestratorProofs --------------------------
(***************************************************************************)
(* The owner's invariant, for every graph of services, every set of        *)
(* clients and whatever they call: no step of the composition lets a       *)
(* generation's resources outlive what its phase says of it, or two        *)
(* holders of a service's storage meet; and no step parts the executions   *)
(* under way from the phases that wait for them.                           *)
(***************************************************************************)
EXTENDS Orchestrator, ServiceProofs, LifecycleProofs

-----------------------------------------------------------------------------
(* Walks over the services in their order.                                 *)

\* A set of naturals has a smallest member: among the intervals up to its members
\* one contains no other.
LEMMA Smallest ==
  ASSUME NEW S \in SUBSET Nat, S # {}
  PROVE  \E m \in S : \A k \in S : m <= k
<1> DEFINE below == {1..k : k \in S}
<1>1. below \subseteq FiniteSubsetsOf(Nat) /\ below # {}
  <2>1. \A k \in S : IsFiniteSet(1..k) /\ 1..k \subseteq Nat
    BY FS_Interval
  <2> QED
    BY <2>1 DEF FiniteSubsetsOf
<1>2. PICK m \in S : \A k \in S : <<1..k, 1..m>> \notin StrictSubsetOrdering(Nat)
  <2>1. PICK x \in below : \A y \in below : <<y, x>> \notin StrictSubsetOrdering(Nat)
    <3>1. IsWellFoundedOn(StrictSubsetOrdering(Nat), FiniteSubsetsOf(Nat))
      BY FS_StrictSubsetOrderingWellFounded
    <3> HIDE DEF below
    <3> QED
      BY <1>1, <3>1, WFMin
  <2> QED
    BY <2>1
<1>3. ASSUME NEW k \in S, k < m
      PROVE  FALSE
  <2>1. 1..k \subseteq 1..m /\ 1..k \in SUBSET Nat /\ 1..m \in SUBSET Nat /\ m \in 1..m /\ m \notin 1..k
    BY <1>3
  <2> QED
    BY <1>2, <2>1 DEF StrictSubsetOrdering
<1> QED
  BY <1>3

\* What holds at the first of n + 1 values and passes from each to the next holds at all.
LEMMA Along ==
  ASSUME NEW X, NEW n \in Nat, NEW f, f[0] \in X, \A i \in 1..n : f[i - 1] \in X => f[i] \in X
  PROVE  \A i \in 0..n : f[i] \in X
<1>1. PICK S : S = {i \in 0..n : f[i] \notin X}
  OBVIOUS
<1> SUFFICES ASSUME S # {} PROVE FALSE
  BY <1>1
<1>2. PICK m \in S : \A k \in S : m <= k
  BY <1>1, Smallest
<1>3. m \in 1..n /\ m - 1 \in 0..n /\ m - 1 \notin S
  BY <1>1, <1>2
<1> QED
  BY <1>1, <1>2, <1>3

\* The first k values that next makes from x0, one after the other.
Chain(X, x0, next, k, f) ==
  f \in [0..k -> X] /\ f[0] = x0 /\ \A i \in 1..k : f[i] = next[<<f[i - 1], i>>]

\* However far, there are such values.
LEMMA Iterates ==
  ASSUME NEW X, NEW n \in Nat, NEW x0 \in X, NEW next \in [X \X (1..n) -> X]
  PROVE  \E f : Chain(X, x0, next, n, f)
<1>1. Chain(X, x0, next, 0, [i \in 0..0 |-> x0])
  BY DEF Chain
<1>2. ASSUME NEW k \in Nat, k < n, NEW f, Chain(X, x0, next, k, f)
      PROVE  \E h : Chain(X, x0, next, k + 1, h)
  <2>1. f[k] \in X /\ <<f[k], k + 1>> \in X \X (1..n)
    BY <1>2 DEF Chain
  <2>2. next[<<f[k], k + 1>>] \in X
    BY <2>1
  <2>0. PICK h : h = [i \in 0..(k + 1) |-> IF i = k + 1 THEN next[<<f[k], k + 1>>] ELSE f[i]]
    OBVIOUS
  <2>3. h \in [0..(k + 1) -> X] /\ h[0] = x0
    BY <1>2, <2>0, <2>2 DEF Chain
  <2>4. ASSUME NEW i \in 1..(k + 1)
        PROVE  h[i] = next[<<h[i - 1], i>>]
    <3>1. CASE i = k + 1
      <4>1. i \in 0..(k + 1) /\ i - 1 = k /\ k \in 0..(k + 1) /\ k # k + 1
        BY <3>1
      <4>2. h[i] = next[<<f[k], k + 1>>] /\ h[k] = f[k]
        BY <2>0, <3>1, <4>1
      <4> QED
        BY <3>1, <4>1, <4>2
    <3>2. CASE i # k + 1
      <4>1. i \in 1..k /\ i - 1 \in 0..(k + 1) /\ i - 1 # k + 1 /\ i \in 0..(k+1)
        BY <3>2
      <4> QED
        BY <1>2, <2>0, <3>2, <4>1 DEF Chain
    <3> QED
      BY <3>1, <3>2
  <2> QED
    BY <2>3, <2>4 DEF Chain
<1>3. \A k \in 0..n : \E f : Chain(X, x0, next, k, f)
  <2>0. PICK S : S = {k \in 0..n : ~\E f : Chain(X, x0, next, k, f)}
    OBVIOUS
  <2> SUFFICES ASSUME S # {} PROVE FALSE
    BY <2>0
  <2>9. S \in SUBSET Nat
    BY <2>0
  <2>1. PICK m \in S : \A k \in S : m <= k
    BY <2>9, Smallest
  <2>2. m # 0
    BY <1>1, <2>0
  <2>3. m - 1 \in Nat /\ m - 1 < n /\ m - 1 \notin S /\ m - 1 \in 0..n /\ (m - 1) + 1 = m
    BY <2>0, <2>1, <2>2
  <2>4. PICK f : Chain(X, x0, next, m - 1, f)
    BY <2>0, <2>3
  <2>5. \E h : Chain(X, x0, next, m, h)
    BY <1>2, <2>3, <2>4
  <2> QED
    BY <2>0, <2>1, <2>5
<1> QED
  BY <1>3

-----------------------------------------------------------------------------
(* What a call's requests and waits do to the lifecycle, one after another. *)

Reductions(st) ==
  {x \in [st : SoundState, out : SUBSET LifecycleCommands] :
     Reduces(st, x.st, x.out) /\ KeepsStorages(st, x.st, {})}

\* Nothing reduced is a reduction.
LEMMA IgnoredReduces ==
  ASSUME NEW st \in SoundState
  PROVE  Ignored(st) \in Reductions(st)
<1>1. QuietStep(st, Ignored(st), {}) /\ Ignored(st) = [st |-> st, out |-> {}]
  BY IgnoredQuiet DEF Ignored, Step
<1>2. Reduces(st, Ignored(st).st, Ignored(st).out)
  BY <1>1, IgnoredCalm, CalmReduces DEF QuietStep, Quiet, CalmStep
<1>3. Ignored(st).st \in SoundState /\ Ignored(st).out \subseteq LifecycleCommands
  BY <1>1
<1> QED
  BY <1>1, <1>2, <1>3 DEF Reductions, KeepsStorages, KeepsStorage

\* An event about anything but the storage, on top of what came before it.
LEMMA AlsoReduces ==
  ASSUME NEW st \in SoundState, NEW x \in Reductions(st), NEW step, QuietStep(x.st, step, {}),
         CalmStep(x.st, step), step = Step(step.st, step.out)
  PROVE  settle(Also(step, x.out)) \in Reductions(st)
<1>0. /\ x.st \in SoundState /\ x.out \subseteq LifecycleCommands
      /\ Reduces(st, x.st, x.out) /\ KeepsStorages(st, x.st, {})
  BY DEF Reductions
<1>1. PICK both : both = Step(step.st, step.out \union x.out)
  OBVIOUS
<1>2. Also(step, x.out) = both
  BY <1>1, AlsoFields
<1>3. both.st = step.st /\ both.out = step.out \union x.out
  BY <1>1, StepFields
<1>4. /\ step.st \in SoundState
      /\ Reduces(x.st, step.st, step.out) /\ KeepsStorages(x.st, step.st, {})
  <2>1. StorageStep(x.st, step, {})
    BY QuietStorage
  <2>2. PICK a \in SoundState : a = x.st
    BY <1>0
  <2>3. Reduces(a, step.st, step.out)
    BY <2>1, <2>2, CalmReduces DEF StorageStep, CalmStep
  <2> QED
    BY <2>1, <2>2, <2>3 DEF StorageStep, Leads, KeepsStorages
<1>5. /\ settle(both).out = both.out \union Turns(step.st)
      /\ Reduces(step.st, settle(both).st, Turns(step.st))
      /\ KeepsStorages(step.st, settle(both).st, {})
  BY <1>3, <1>4, SettleAdvances, SettleReduces
<1>6. Reduces(st, step.st, x.out \union step.out)
  BY <1>0, <1>4, ReducesOn
<1>7. Reduces(st, settle(both).st, (x.out \union step.out) \union Turns(step.st))
  BY <1>5, <1>6, ReducesOn
<1>8. settle(both).out = (x.out \union step.out) \union Turns(step.st)
  BY <1>3, <1>5
<1>9. KeepsStorages(st, settle(both).st, {})
  BY <1>0, <1>4, <1>5, KeepsStoragesOn
<1>10. settle(both) \in [st : SoundState, out : SUBSET LifecycleCommands]
  <2>1. settle(both).st \in SoundState /\ settle(both).out \subseteq LifecycleCommands
    BY <1>7, <1>8 DEF Reduces, Advances
  <2>2. settle(both) = [st |-> settle(both).st, out |-> settle(both).out]
    BY DEF settle, Step
  <2> QED
    BY <2>1, <2>2
<1> QED
  BY <1>2, <1>7, <1>8, <1>9, <1>10 DEF Reductions

\* An event and its settling.
LEMMA SettledReduces ==
  ASSUME NEW st \in SoundState, NEW step, StorageStep(st, step, {}), CalmStep(st, step)
  PROVE  settle(step) \in Reductions(st)
<1>1. /\ Reduces(st, settle(step).st, settle(step).out)
      /\ KeepsStorages(st, settle(step).st, {})
  BY SettledAdvances, SettledCalm DEF StorageStep, KeepsStorages
<1>2. settle(step).st \in SoundState /\ settle(step).out \subseteq LifecycleCommands
  BY <1>1 DEF Reduces, Advances
<1>3. settle(step) = [st |-> settle(step).st, out |-> settle(step).out]
  BY DEF settle, Step
<1> QED
  BY <1>1, <1>2, <1>3 DEF Reductions

\* The request of a call.
LEMMA RequestedReduces ==
  ASSUME NEW st \in SoundState, NEW call \in Operation
  PROVE  StorageStep(st, Requested(st, call), {}) /\ CalmStep(st, Requested(st, call))
<1>0. call.id \in Services /\ call.op \in {"connect", "inspect", "start", "ready", "compose",
        "restart", "arm", "stop", "storage", "destroy"}
  BY DEF Operation
<1>1. CASE call.op \in {"start", "compose"}
  BY <1>0, <1>1, StartRequestedQuiet, QuietStorage, StartRequestedCalm DEF Requested
<1>2. CASE call.op = "restart"
  BY <1>0, <1>2, RestartRequestedQuiet, QuietStorage, RestartRequestedCalm DEF Requested
<1>3. CASE call.op = "arm"
  BY <1>0, <1>3, ArmRequestedQuiet, QuietStorage, ArmRequestedCalm DEF Requested
<1>4. CASE call.op = "stop"
  BY <1>0, <1>4, StopRequestedQuiet, QuietStorage, StopRequestedCalm DEF Requested
<1>5. CASE call.op = "storage"
  BY <1>0, <1>5, StorageReservedStep, StorageReservedCalm DEF Requested
<1>6. CASE call.op = "destroy"
  BY <1>0, <1>6, DestroyRequestedStep, DestroyRequestedCalm DEF Requested
<1>7. CASE call.op \in {"connect", "inspect", "ready"}
  BY <1>0, <1>7, IgnoredQuiet, QuietStorage, IgnoredCalm DEF Requested
<1> QED
  BY <1>0, <1>1, <1>2, <1>3, <1>4, <1>5, <1>6, <1>7

\* The request a call starts with.
LEMMA FirstReduces ==
  ASSUME lifecycle \in SoundState, NEW call \in Operation
  PROVE  FirstReduced(call) \in Reductions(lifecycle)
BY RequestedReduces, SettledReduces, IgnoredReduces DEF FirstReduced

\* A wait moves no phase and no reservation.
LEMMA AwaitedQuiet ==
  ASSUME NEW st \in SoundState, NEW c \in Clients, NEW call, NEW s
  PROVE  /\ QuietStep(st, Awaited(st, c, call, s), {})
         /\ CalmStep(st, Awaited(st, c, call, s))
         /\ Awaited(st, c, call, s) = Step(Awaited(st, c, call, s).st, Awaited(st, c, call, s).out)
<1>1. QuietStep(st, Awaited(st, c, call, s), {}) /\ CalmStep(st, Awaited(st, c, call, s))
  <2>1. RequiresReady(call, s) \in BOOLEAN
    BY DEF RequiresReady
  <2> QED
    BY <2>1, ConnectionOpenedQuiet, ConnectionOpenedCalm DEF Awaited
<1>2. ASSUME NEW ready, NEW kind
      PROVE  openWaiter(st, s, c, ready, kind)
               = Step(openWaiter(st, s, c, ready, kind).st, openWaiter(st, s, c, ready, kind).out)
  BY DEF openWaiter, Ignored, retryBlockedCleanup, retryCleanups, Step
<1> QED
  BY <1>1, <1>2 DEF Awaited, ConnectionOpened, ReadinessAwaited

\* What a call has been reduced to, service by service.
AwaitsAlong(g, c, call) ==
  /\ g[0] = FirstReduced(call)
  /\ \A i \in 1..Len(Order) :
       g[i] = IF Order[i] \notin WaitIds(call) THEN g[i - 1]
              ELSE settle(Also(Awaited(g[i - 1].st, c, call, Order[i]), g[i - 1].out))
  /\ \A i \in 0..Len(Order) : g[i] \in Reductions(lifecycle)

\* Its value is the last of such a walk.
LEMMA ReducedWalk ==
  ASSUME lifecycle \in SoundState, NEW c \in Clients, NEW call \in Operation
  PROVE  \E g : AwaitsAlong(g, c, call) /\ Reduced(c, call) = g[Len(Order)]
<1>1. PICK X : X = Reductions(lifecycle)
  OBVIOUS
<1>2. PICK n \in Nat : n = Len(Order)
  BY OrderAssumption
<1>3. PICK next : next = [a \in X \X (1..n) |->
                            IF Order[a[2]] \notin WaitIds(call) THEN a[1]
                            ELSE settle(Also(Awaited(a[1].st, c, call, Order[a[2]]), a[1].out))]
  OBVIOUS
<1>4. \A x \in X, i \in 1..n :
        next[<<x, i>>] = IF Order[i] \notin WaitIds(call) THEN x
                         ELSE settle(Also(Awaited(x.st, c, call, Order[i]), x.out))
  BY <1>3
<1>5. ASSUME NEW x \in X, NEW i \in 1..n
      PROVE  settle(Also(Awaited(x.st, c, call, Order[i]), x.out)) \in X
  <2>1. x.st \in SoundState
    BY <1>1 DEF Reductions
  <2>2. /\ QuietStep(x.st, Awaited(x.st, c, call, Order[i]), {})
        /\ CalmStep(x.st, Awaited(x.st, c, call, Order[i]))
        /\ Awaited(x.st, c, call, Order[i]) = Step(Awaited(x.st, c, call, Order[i]).st,
                                                   Awaited(x.st, c, call, Order[i]).out)
    BY <2>1, AwaitedQuiet
  <2> QED
    BY <1>1, <2>2, AlsoReduces
<1>6. next \in [X \X (1..n) -> X]
  BY <1>3, <1>5
<1>7. PICK x0 : x0 = FirstReduced(call)
  OBVIOUS
<1>8. x0 \in X
  BY <1>1, <1>7, FirstReduces
<1>9. PICK h : Chain(X, x0, next, n, h)
  BY <1>6, <1>8, Iterates
<1>10. h = [i \in 0..n |->
              IF i = 0 THEN x0
              ELSE IF Order[i] \notin WaitIds(call) THEN h[i - 1]
              ELSE settle(Also(Awaited(h[i - 1].st, c, call, Order[i]), h[i - 1].out))]
  <2>1. h \in [0..n -> X] /\ h[0] = x0
    BY <1>9 DEF Chain
  <2>2. ASSUME NEW i \in 1..n
        PROVE  h[i] = IF Order[i] \notin WaitIds(call) THEN h[i - 1]
                      ELSE settle(Also(Awaited(h[i - 1].st, c, call, Order[i]), h[i - 1].out))
    <3>1. h[i] = next[<<h[i - 1], i>>] /\ h[i - 1] \in X
      BY <1>9, <2>1 DEF Chain
    <3> QED
      BY <1>4, <3>1
  <2>3. \A i \in 0..n : i = 0 \/ i \in 1..n
    OBVIOUS
  <2> QED
    BY <2>1, <2>2, <2>3
<1> DEFINE g == CHOOSE after : after = [i \in 0..n |->
              IF i = 0 THEN x0
              ELSE IF Order[i] \notin WaitIds(call) THEN after[i - 1]
              ELSE settle(Also(Awaited(after[i - 1].st, c, call, Order[i]), after[i - 1].out))]
<1>11. g = [i \in 0..n |->
              IF i = 0 THEN x0
              ELSE IF Order[i] \notin WaitIds(call) THEN g[i - 1]
              ELSE settle(Also(Awaited(g[i - 1].st, c, call, Order[i]), g[i - 1].out))]
  BY <1>10
<1>12. Reduced(c, call) = g[n]
  BY <1>2, <1>7 DEF Reduced
<1> HIDE DEF g
<1>13. 0 \in 0..n /\ \A i \in 1..n : i \in 0..n /\ i # 0
  OBVIOUS
<1>14. g[0] \in X /\ \A i \in 1..n : g[i - 1] \in X => g[i] \in X
  BY <1>5, <1>8, <1>11, <1>13
<1>15. \A i \in 0..n : g[i] \in X
  BY <1>14, Along
<1>16. \A i \in 1..n :
         g[i] = IF Order[i] \notin WaitIds(call) THEN g[i - 1]
                ELSE settle(Also(Awaited(g[i - 1].st, c, call, Order[i]), g[i - 1].out))
  BY <1>11, <1>13
<1>17. g[0] = x0
  BY <1>11, <1>13
<1>18. AwaitsAlong(g, c, call) /\ Reduced(c, call) = g[Len(Order)]
  BY <1>1, <1>2, <1>7, <1>12, <1>15, <1>16, <1>17 DEF AwaitsAlong
<1> QED
  BY <1>18

\* A call, reduced wait by wait.
LEMMA ReducedReduces ==
  ASSUME lifecycle \in SoundState, NEW c \in Clients, NEW call \in Operation
  PROVE  Reduced(c, call) \in Reductions(lifecycle)
<1>1. PICK g : AwaitsAlong(g, c, call) /\ Reduced(c, call) = g[Len(Order)]
  BY ReducedWalk
<1>2. Len(Order) \in Nat
  BY OrderAssumption
<1> QED
  BY <1>1, <1>2 DEF AwaitsAlong

\* What a withdrawal has been reduced to, service by service.
CancelsAlong(g, c, call) ==
  /\ g[0] = Ignored(lifecycle)
  /\ \A i \in 1..Len(Order) :
       g[i] = IF Order[i] \notin WaitIds(call) THEN g[i - 1]
              ELSE settle(Also(WaiterCancelled(g[i - 1].st, Order[i], c), g[i - 1].out))
  /\ \A i \in 0..Len(Order) : g[i] \in Reductions(lifecycle)

\* Its value is the last of such a walk, too.
LEMMA WithdrawnWalk ==
  ASSUME lifecycle \in SoundState, NEW c, NEW call
  PROVE  \E g : CancelsAlong(g, c, call) /\ Withdrawn(c, call) = g[Len(Order)]
<1>1. PICK X : X = Reductions(lifecycle)
  OBVIOUS
<1>2. PICK n \in Nat : n = Len(Order)
  BY OrderAssumption
<1>3. PICK next : next = [a \in X \X (1..n) |->
                            IF Order[a[2]] \notin WaitIds(call) THEN a[1]
                            ELSE settle(Also(WaiterCancelled(a[1].st, Order[a[2]], c), a[1].out))]
  OBVIOUS
<1>4. \A x \in X, i \in 1..n :
        next[<<x, i>>] = IF Order[i] \notin WaitIds(call) THEN x
                         ELSE settle(Also(WaiterCancelled(x.st, Order[i], c), x.out))
  BY <1>3
<1>5. ASSUME NEW x \in X, NEW i \in 1..n
      PROVE  settle(Also(WaiterCancelled(x.st, Order[i], c), x.out)) \in X
  <2>1. x.st \in SoundState
    BY <1>1 DEF Reductions
  <2>2. Order[i] \in Services
    BY <1>2, OrderAssumption
  <2>3. /\ QuietStep(x.st, WaiterCancelled(x.st, Order[i], c), {})
        /\ CalmStep(x.st, WaiterCancelled(x.st, Order[i], c))
    BY <2>1, <2>2, WaiterCancelledQuiet, WaiterCancelledCalm
  <2>4. WaiterCancelled(x.st, Order[i], c) = Step(WaiterCancelled(x.st, Order[i], c).st,
                                                  WaiterCancelled(x.st, Order[i], c).out)
    BY DEF WaiterCancelled, Step
  <2> QED
    BY <1>1, <2>3, <2>4, AlsoReduces
<1>6. next \in [X \X (1..n) -> X]
  BY <1>3, <1>5
<1>7. PICK x0 : x0 = Ignored(lifecycle)
  OBVIOUS
<1>8. x0 \in X
  BY <1>1, <1>7, IgnoredReduces
<1>9. PICK h : Chain(X, x0, next, n, h)
  BY <1>6, <1>8, Iterates
<1>10. h = [i \in 0..n |->
              IF i = 0 THEN x0
              ELSE IF Order[i] \notin WaitIds(call) THEN h[i - 1]
              ELSE settle(Also(WaiterCancelled(h[i - 1].st, Order[i], c), h[i - 1].out))]
  <2>1. h \in [0..n -> X] /\ h[0] = x0
    BY <1>9 DEF Chain
  <2>2. ASSUME NEW i \in 1..n
        PROVE  h[i] = IF Order[i] \notin WaitIds(call) THEN h[i - 1]
                      ELSE settle(Also(WaiterCancelled(h[i - 1].st, Order[i], c), h[i - 1].out))
    <3>1. h[i] = next[<<h[i - 1], i>>] /\ h[i - 1] \in X
      BY <1>9, <2>1 DEF Chain
    <3> QED
      BY <1>4, <3>1
  <2>3. \A i \in 0..n : i = 0 \/ i \in 1..n
    OBVIOUS
  <2> QED
    BY <2>1, <2>2, <2>3
<1> DEFINE g == CHOOSE after : after = [i \in 0..n |->
              IF i = 0 THEN x0
              ELSE IF Order[i] \notin WaitIds(call) THEN after[i - 1]
              ELSE settle(Also(WaiterCancelled(after[i - 1].st, Order[i], c), after[i - 1].out))]
<1>11. g = [i \in 0..n |->
              IF i = 0 THEN x0
              ELSE IF Order[i] \notin WaitIds(call) THEN g[i - 1]
              ELSE settle(Also(WaiterCancelled(g[i - 1].st, Order[i], c), g[i - 1].out))]
  BY <1>10
<1>12. Withdrawn(c, call) = g[n]
  BY <1>2, <1>7 DEF Withdrawn
<1> HIDE DEF g
<1>13. 0 \in 0..n /\ \A i \in 1..n : i \in 0..n /\ i # 0
  OBVIOUS
<1>14. g[0] \in X /\ \A i \in 1..n : g[i - 1] \in X => g[i] \in X
  BY <1>5, <1>8, <1>11, <1>13
<1>15. \A i \in 0..n : g[i] \in X
  BY <1>14, Along
<1>16. \A i \in 1..n :
         g[i] = IF Order[i] \notin WaitIds(call) THEN g[i - 1]
                ELSE settle(Also(WaiterCancelled(g[i - 1].st, Order[i], c), g[i - 1].out))
  BY <1>11, <1>13
<1>17. g[0] = x0
  BY <1>11, <1>13
<1>18. CancelsAlong(g, c, call) /\ Withdrawn(c, call) = g[Len(Order)]
  BY <1>1, <1>2, <1>7, <1>12, <1>15, <1>16, <1>17 DEF CancelsAlong
<1> QED
  BY <1>18

\* A withdrawal, reduced wait by wait.
LEMMA WithdrawnReduces ==
  ASSUME lifecycle \in SoundState, NEW c, NEW call
  PROVE  Withdrawn(c, call) \in Reductions(lifecycle)
<1>1. PICK g : CancelsAlong(g, c, call) /\ Withdrawn(c, call) = g[Len(Order)]
  BY WithdrawnWalk
<1>2. Len(Order) \in Nat
  BY OrderAssumption
<1> QED
  BY <1>1, <1>2 DEF CancelsAlong

\* A call without waits is its request.
LEMMA ReducedRequest ==
  ASSUME NEW c, NEW call, WaitIds(call) = {}
  PROVE  Reduced(c, call) = FirstReduced(call)
<1>1. PICK n \in Nat : n = Len(Order)
  BY OrderAssumption
<1>2. PICK x0 : x0 = FirstReduced(call)
  OBVIOUS
<1>3. PICK h : h = [i \in 0..n |-> x0]
  OBVIOUS
<1>4. h = [i \in 0..n |->
              IF i = 0 THEN x0
              ELSE IF Order[i] \notin WaitIds(call) THEN h[i - 1]
              ELSE settle(Also(Awaited(h[i - 1].st, c, call, Order[i]), h[i - 1].out))]
  <2>1. \A i \in 0..n : i # 0 => i - 1 \in 0..n
    OBVIOUS
  <2>2. \A i \in 0..n : i # 0 => h[i - 1] = x0
    BY <1>3, <2>1
  <2> QED
    BY <1>3, <2>2
<1> DEFINE g == CHOOSE after : after = [i \in 0..n |->
              IF i = 0 THEN x0
              ELSE IF Order[i] \notin WaitIds(call) THEN after[i - 1]
              ELSE settle(Also(Awaited(after[i - 1].st, c, call, Order[i]), after[i - 1].out))]
<1>5. g = [i \in 0..n |->
              IF i = 0 THEN x0
              ELSE IF Order[i] \notin WaitIds(call) THEN g[i - 1]
              ELSE settle(Also(Awaited(g[i - 1].st, c, call, Order[i]), g[i - 1].out))]
  BY <1>4
<1>6. Reduced(c, call) = g[n]
  BY <1>1, <1>2 DEF Reduced
<1> HIDE DEF g
<1>7. 0 \in 0..n /\ \A i \in 1..n : i \in 0..n /\ i # 0
  OBVIOUS
<1>8. PICK X : X = {x0}
  OBVIOUS
<1>9. g[0] \in X /\ \A i \in 1..n : g[i - 1] \in X => g[i] \in X
  BY <1>5, <1>7, <1>8
<1>10. \A i \in 0..n : g[i] \in X
  BY <1>9, Along
<1>11. g[n] \in X
  BY <1>10
<1> QED
  BY <1>2, <1>6, <1>8, <1>11

\* A storage operation that is not refused has the storage, which nobody had.
LEMMA StorageEntered ==
  ASSUME lifecycle \in SoundState, NEW c, NEW call \in Operation, call.op = "storage",
         call.id \in lifecycle.members, Rejected(call.id) \notin Reduced(c, call).out
  PROVE  /\ ~lifecycle.services[call.id].storageReserved
         /\ Reduced(c, call).st.services[call.id].storageReserved
         /\ Reduced(c, call).st.services[call.id].destroy # "reserved"
<1>0. call.id \in Services
  BY DEF Operation
<1>1. WaitIds(call) = {}
  BY DEF WaitIds, Traffic, Waiting
<1>2. PICK step : step = StorageReserved(lifecycle, call.id)
  OBVIOUS
<1>3. Reduced(c, call) = settle(step)
  BY <1>1, <1>2, ReducedRequest DEF FirstReduced, Traffic, Requested
<1>4. /\ StorageStep(lifecycle, step, {})
      /\ Rejected(call.id) \notin step.out =>
           /\ ~lifecycle.services[call.id].storageReserved
           /\ step.st.services[call.id].storageReserved
           /\ step.st.services[call.id].destroy # "reserved"
  BY <1>0, <1>2, StorageReservedStep
<1>5. step.st \in SoundState
  BY <1>4 DEF StorageStep, Leads
<1>6. /\ settle(step).out = step.out \union Turns(step.st)
      /\ KeepsStorages(step.st, settle(step).st, {})
  BY <1>5, SettleAdvances
<1>7. KeepsStorage(step.st.services[call.id], settle(step).st.services[call.id])
  BY <1>0, <1>6 DEF KeepsStorages
<1> QED
  BY <1>3, <1>4, <1>6, <1>7 DEF KeepsStorage

-----------------------------------------------------------------------------
(* What the executions may hold, against the phases.                       *)

\* A sound state has generations to count.
LEMMA LastGenerations ==
  ASSUME lifecycle \in SoundState
  PROVE  /\ LastGeneration \in [Services -> Nat]
         /\ \A s \in Services : lifecycle.generationCounters[s] = LastGeneration[s] + 1
<1>1. ASSUME NEW s \in Services
      PROVE  LastGeneration[s] \in Nat /\ lifecycle.generationCounters[s] = LastGeneration[s] + 1
  <2>1. lifecycle.generationCounters[s] \in Nat /\ lifecycle.services[s].phase.generation \in Nat
        /\ SoundService(lifecycle.services[s], lifecycle.generationCounters[s])
    BY SoundFields
  <2>2. lifecycle.services[s].phase.generation < lifecycle.generationCounters[s]
    BY <2>1 DEF SoundService
  <2> QED
    BY <2>1, <2>2 DEF LastGeneration
<1> QED
  BY <1>1 DEF LastGeneration

\* So has the state a step leaves.
LEMMA NextGenerations ==
  ASSUME lifecycle' \in SoundState
  PROVE  /\ LastGeneration' \in [Services -> Nat]
         /\ \A s \in Services : lifecycle'.generationCounters[s] = LastGeneration'[s] + 1
<1>1. ASSUME NEW s \in Services
      PROVE  LastGeneration'[s] \in Nat /\ lifecycle'.generationCounters[s] = LastGeneration'[s] + 1
  <2>1. lifecycle'.generationCounters[s] \in Nat /\ lifecycle'.services[s].phase.generation \in Nat
        /\ SoundService(lifecycle'.services[s], lifecycle'.generationCounters[s])
    BY SoundFields
  <2>2. lifecycle'.services[s].phase.generation < lifecycle'.generationCounters[s]
    BY <2>1 DEF SoundService
  <2> QED
    BY <2>1, <2>2 DEF LastGeneration
<1> QED
  BY <1>1 DEF LastGeneration

\* The executions a reduction forks are of generations the reducer knows, and a
\* launch is of a new one.
LEMMA ForkedCommanded ==
  ASSUME lifecycle \in SoundState, lifecycle' \in SoundState, NEW out, NEW over,
         Advances(lifecycle, lifecycle', out, over)
  PROVE  Commanded(Forked(out), LastGeneration, LastGeneration')
<1>1. /\ LastGeneration \in [Services -> Nat]
      /\ \A s \in Services : lifecycle.generationCounters[s] = LastGeneration[s] + 1
  BY LastGenerations
<1>2. /\ LastGeneration' \in [Services -> Nat]
      /\ \A s \in Services : lifecycle'.generationCounters[s] = LastGeneration'[s] + 1
  BY NextGenerations
<1>3. \A s \in Services : LastGeneration[s] <= LastGeneration'[s]
  <2>1. ASSUME NEW s \in Services
        PROVE  LastGeneration[s] <= LastGeneration'[s]
    <3>1. ServiceAdvances(lifecycle, lifecycle', s, out, over)
      BY DEF Advances
    <3>2. \/ lifecycle'.generationCounters[s] = lifecycle.generationCounters[s]
          \/ lifecycle'.generationCounters[s] = lifecycle.generationCounters[s] + 1
      BY <3>1 DEF ServiceAdvances
    <3>3. LastGeneration[s] \in Nat /\ LastGeneration'[s] \in Nat
      BY <1>1, <1>2
    <3> QED
      BY <1>1, <1>2, <3>2, <3>3
  <2> QED
    BY <2>1
<1>4. ASSUME NEW x \in out, x.tag \in {"Launch", "Stop", "Reprobe"},
             NEW y, y = [op |-> x.tag, id |-> x.id, generation |-> x.generation]
      PROVE  /\ y \in Command /\ y.generation \in 1..LastGeneration'[y.id]
             /\ y.op = "Launch" => LastGeneration[y.id] < y.generation
  <2>1. x \in LifecycleCommands
    BY DEF Advances
  <2>2. x.id \in Services /\ x.generation \in Nat
    BY <1>4, <2>1 DEF LifecycleCommands
  <2>3. ServiceAdvances(lifecycle, lifecycle', x.id, out, over)
    BY <2>2 DEF Advances
  <2>4. LastGeneration[x.id] \in Nat /\ LastGeneration'[x.id] \in Nat
    BY <1>1, <1>2, <2>2
  <2>5. CASE x.tag = "Launch"
    <3>1. /\ lifecycle'.generationCounters[x.id] = lifecycle.generationCounters[x.id] + 1
          /\ x.generation = lifecycle.generationCounters[x.id]
      BY <2>3, <2>5 DEF ServiceAdvances
    <3>2. x.generation = LastGeneration[x.id] + 1 /\ LastGeneration'[x.id] = x.generation
      BY <1>1, <1>2, <2>2, <2>4, <3>1
    <3> QED
      BY <1>4, <2>2, <2>4, <2>5, <3>2 DEF Command, Generation
  <2>6. CASE x.tag \in {"Stop", "Reprobe"}
    <3>1. x.generation \in 1..(lifecycle'.generationCounters[x.id] - 1)
      BY <2>6 DEF Advances
    <3>2. x.generation \in 1..LastGeneration'[x.id]
      BY <1>2, <2>2, <2>4, <3>1
    <3> QED
      BY <1>4, <2>2, <2>4, <2>6, <3>2 DEF Command, Generation
  <2> QED
    BY <1>4, <2>5, <2>6
<1>5. \A y \in Forked(out) :
        /\ y \in Command /\ y.generation \in 1..LastGeneration'[y.id]
        /\ y.op = "Launch" => LastGeneration[y.id] < y.generation
  BY <1>4 DEF Forked, Tagged
<1> QED
  BY <1>3, <1>5 DEF Commanded

\* A reduction moves a phase only to account for what its generation may still
\* hold: a service it gives another generation held nothing.
LEMMA AdvancesAccounted ==
  ASSUME lifecycle \in SoundState, lifecycle' \in SoundState, AccountedFor, NEW out, NEW over,
         Advances(lifecycle, lifecycle', out, over),
         \A s \in Services, g \in Nat :
           MayHold(s, g)' => MayHold(s, g) \/ LaunchCommand(s, g) \in Forked(out),
         \A s \in Services : s \in over => \A g \in 1..LastGeneration[s] : ~MayHold(s, g)
  PROVE  AccountedFor'
<1>1. /\ LastGeneration \in [Services -> Nat]
      /\ \A s \in Services : lifecycle.generationCounters[s] = LastGeneration[s] + 1
  BY LastGenerations
<1>2. SUFFICES ASSUME NEW s \in Services, NEW g \in 1..LastGeneration'[s], MayHold(s, g)'
               PROVE  /\ isUpOrWindingDown(lifecycle'.services[s].phase)
                      /\ lifecycle'.services[s].phase.generation = g
  BY DEF AccountedFor, PhaseAt, GenerationOf
<1>3. PICK n \in Nat : n = LastGeneration[s]
  BY <1>1
<1>4. lifecycle.generationCounters[s] = n + 1 /\ ServiceAdvances(lifecycle, lifecycle', s, out, over)
  BY <1>1, <1>3 DEF Advances
<1>5. PICK m : m = LastGeneration'[s] /\ m = lifecycle'.generationCounters[s] - 1
  BY DEF LastGeneration
<1>6. g \in 1..n /\ MayHold(s, g) =>
        /\ isUpOrWindingDown(lifecycle.services[s].phase)
        /\ lifecycle.services[s].phase.generation = g
        /\ s \notin over
  BY <1>3 DEF AccountedFor, PhaseAt, GenerationOf
<1>7. LaunchCommand(s, g) \in Forked(out) => \E x \in out : x.tag = "Launch" /\ x.id = s /\ x.generation = g
  <2>1. SUFFICES ASSUME NEW x \in Tagged(out, "Launch") \union Tagged(out, "Stop") \union Tagged(out, "Reprobe"),
                        LaunchCommand(s, g) = [op |-> x.tag, id |-> x.id, generation |-> x.generation]
                 PROVE  x \in out /\ x.tag = "Launch" /\ x.id = s /\ x.generation = g
    BY DEF Forked
  <2> QED
    BY <2>1 DEF Tagged, LaunchCommand
<1>8. CASE /\ lifecycle'.generationCounters[s] = lifecycle.generationCounters[s]
           /\ s \in over \/ PhaseKept(lifecycle.services[s].phase, lifecycle'.services[s].phase)
           /\ \A x \in out : ~(x.tag = "Launch" /\ x.id = s)
  <2>1. MayHold(s, g)
    BY <1>2, <1>7, <1>8
  <2>2. g \in 1..n
    BY <1>2, <1>4, <1>5, <1>8
  <2> QED
    BY <1>6, <1>8, <2>1, <2>2 DEF PhaseKept
<1>9. CASE /\ lifecycle'.generationCounters[s] = lifecycle.generationCounters[s] + 1
           /\ s \in over \/ ~isUpOrWindingDown(lifecycle.services[s].phase)
           /\ isUpOrWindingDown(lifecycle'.services[s].phase)
           /\ lifecycle'.services[s].phase.generation = lifecycle.generationCounters[s]
           /\ \A x \in out : x.tag = "Launch" /\ x.id = s => x.generation = lifecycle.generationCounters[s]
  <2>1. g \in 1..(n + 1)
    BY <1>2, <1>4, <1>5, <1>9
  <2>2. CASE g = n + 1
    BY <1>4, <1>9, <2>2
  <2>3. CASE g \in 1..n
    <3>1. MayHold(s, g)
      BY <1>2, <1>4, <1>7, <1>9, <2>3
    <3> QED
      BY <1>6, <1>9, <2>3, <3>1
  <2> QED
    BY <2>1, <2>2, <2>3
<1> QED
  BY <1>4, <1>8, <1>9 DEF ServiceAdvances

\* A service's own step starts nothing to hold.
LEMMA OwnStepAccounted ==
  ASSUME NEW b \in [Services -> Nat], BoundaryInv(b), OwnStep, UNCHANGED lifecycle, AccountedFor
  PROVE  AccountedFor'
<1>1. ASSUME NEW s \in Services, NEW g \in Nat, MayHold(s, g)', g # 0
      PROVE  MayHold(s, g)
  <2>1. /\ MayAcquire(s, g)' => MayAcquire(s, g)
        /\ stoppedThrough[s] <= stoppedThrough'[s]
    BY OwnStepFences
  <2>2. stoppedThrough[s] \in Nat /\ stoppedThrough'[s] \in Nat
    <3>1. TypeOK /\ TypeOK'
      BY OwnStepInv DEF BoundaryInv
    <3> QED
      BY <3>1 DEF TypeOK
  <2>3. CASE MayAcquire(s, g)' /\ stoppedThrough'[s] < g
    BY <2>1, <2>2, <2>3 DEF MayHold
  <2>4. CASE session'[s].generation = g
    <3>1. \/ Holder' = Holder
          \/ \E f \in fibers : Takes(f)
          \/ \E t \in Services : Frees(t)
      BY OwnStepHolders
    <3>2. CASE Holder' = Holder
      <4>1. Holder'[s] = Holder[s]
        BY <3>2
      <4>2. session'[s].generation = session[s].generation
        BY <4>1 DEF Holder
      <4> QED
        BY <1>1, <2>4, <4>2 DEF MayHold
    <3>3. CASE \E f \in fibers : Takes(f)
      <4>1. PICK f \in fibers : Takes(f)
        BY <3>3
      <4>2. Holder'[s] = IF s = f.id THEN f.generation ELSE Holder[s]
        BY <4>1 DEF Takes, Holder
      <4>3. CASE s = f.id
        <5>1. f.generation = g
          BY <2>4, <4>2, <4>3 DEF Holder
        <5>2. MayAcquire(s, g)
          BY <4>1, <4>3, <5>1 DEF MayAcquire, Takes
        <5>3. stoppedThrough[s] < g
          BY <2>2, <4>1, <4>3, <5>1 DEF Takes, Fenced
        <5> QED
          BY <5>2, <5>3 DEF MayHold
      <4>4. CASE s # f.id
        <5>1. session'[s].generation = session[s].generation
          BY <4>2, <4>4 DEF Holder
        <5> QED
          BY <1>1, <2>4, <5>1 DEF MayHold
      <4> QED
        BY <4>3, <4>4
    <3>4. CASE \E t \in Services : Frees(t)
      <4>1. PICK t \in Services : Frees(t)
        BY <3>4
      <4>2. Holder'[s] = IF s = t THEN 0 ELSE Holder[s]
        BY <4>1 DEF Frees, Holder
      <4>3. session'[s].generation = session[s].generation
        BY <1>1, <2>4, <4>2 DEF Holder
      <4> QED
        BY <1>1, <2>4, <4>3 DEF MayHold
    <3> QED
      BY <3>1, <3>2, <3>3, <3>4
  <2> QED
    BY <1>1, <2>3, <2>4 DEF MayHold
<1>2. LastGeneration' = LastGeneration
  BY DEF LastGeneration
<1>3. SUFFICES ASSUME NEW s \in Services, NEW g \in 1..LastGeneration[s], MayHold(s, g)'
               PROVE  isUpOrWindingDown(lifecycle.services[s].phase) /\ lifecycle.services[s].phase.generation = g
  BY <1>2 DEF AccountedFor, PhaseAt, GenerationOf
<1>4. g \in Nat /\ g # 0
  OBVIOUS
<1> QED
  BY <1>1, <1>3, <1>4 DEF AccountedFor, PhaseAt, GenerationOf

-----------------------------------------------------------------------------
(* What a dispatching step publishes.                                      *)

TimersType == [idle : [Services -> IdleTimer], cooldown : SUBSET (Services \X Nat)]

\* A reported outcome leaves every phase to its generation, but for the one it
\* reports over.
LEMMA EventQuiet ==
  ASSUME lifecycle \in SoundState, NEW f \in Fiber, Reports(f), NEW quiet
  PROVE  \/ QuietStep(lifecycle, EventOf(f, quiet, lifecycle), {})
         \/ /\ OutcomeOf(f) \in {"Exited", "LaunchFailed"}
            /\ QuietStep(lifecycle, EventOf(f, quiet, lifecycle),
                         OverAt(lifecycle, f.id, f.generation))
<1>1. f.generation \in Nat \ {0}
  BY DEF Fiber, Generation
<1>2. f.at \in {"available", "succeeded", "recovered", "unready", "failed", "lost", "exited",
                "retained", "stopFailed"}
  BY DEF Fiber, Kinds, Reports, Reporting
<1>3. CASE f.at = "available"
  <2>1. EventOf(f, quiet, lifecycle) = SessionAvailable(lifecycle, f.id, f.generation)
    BY <1>3 DEF EventOf, OutcomeOf
  <2> QED
    BY <2>1, SessionAvailableQuiet
<1>4. CASE f.at = "succeeded"
  <2>1. EventOf(f, quiet, lifecycle) = LaunchSucceeded(lifecycle, f.id, f.generation)
    BY <1>4 DEF EventOf, OutcomeOf
  <2> QED
    BY <2>1, LaunchSucceededQuiet
<1>5. CASE f.at = "recovered"
  <2>1. EventOf(f, quiet, lifecycle) = ReadinessRecovered(lifecycle, f.id, f.generation)
    BY <1>5 DEF EventOf, OutcomeOf
  <2> QED
    BY <2>1, ReadinessRecoveredQuiet
<1>6. CASE f.at = "unready"
  <2>1. EventOf(f, quiet, lifecycle) = ReadinessLost(lifecycle, f.id, f.generation)
    BY <1>6 DEF EventOf, OutcomeOf
  <2> QED
    BY <2>1, ReadinessLostQuiet
<1>7. CASE f.at = "failed"
  <2>1. /\ EventOf(f, quiet, lifecycle) = LaunchFailed(lifecycle, f.id, f.generation, quiet)
        /\ OutcomeOf(f) = "LaunchFailed"
    BY <1>7 DEF EventOf, OutcomeOf
  <2> QED
    BY <2>1, LaunchFailedQuiet
<1>8. CASE f.at = "lost"
  <2>1. EventOf(f, quiet, lifecycle) = SessionLost(lifecycle, f.id, f.generation, quiet)
    BY <1>8 DEF EventOf, OutcomeOf
  <2> QED
    BY <2>1, SessionLostQuiet
<1>9. CASE f.at = "exited"
  <2>1. PICK requested : requested = (f.kind = "stop")
    OBVIOUS
  <2>2. /\ EventOf(f, quiet, lifecycle) = Exited(lifecycle, f.id, f.generation, requested)
        /\ OutcomeOf(f) = "Exited"
    BY <1>9, <2>1 DEF EventOf, OutcomeOf
  <2> QED
    BY <1>1, <2>2, ExitedQuiet
<1>10. CASE f.at \in {"retained", "stopFailed"}
  <2>1. PICK failure \in BOOLEAN : failure = (f.kind # "stop")
    OBVIOUS
  <2>2. EventOf(f, quiet, lifecycle) = StopFailed(lifecycle, f.id, f.generation, failure, quiet)
    BY <1>10, <2>1 DEF EventOf, OutcomeOf
  <2> QED
    BY <1>1, <2>2, StopFailedQuiet
<1> QED
  BY <1>2, <1>3, <1>4, <1>5, <1>6, <1>7, <1>8, <1>9, <1>10

\* Armed timers are timers.
LEMMA ArmedTyped ==
  ASSUME NEW running \in TimersType, NEW out \in SUBSET LifecycleCommands
  PROVE  ArmedBy(running, out) \in TimersType
<1>1. ASSUME NEW s \in Services
      PROVE  (IF \E x \in Tagged(out, "ArmIdleTimer") : x.id = s
                THEN LET x == CHOOSE x \in Tagged(out, "ArmIdleTimer") : x.id = s
                     IN [generation |-> x.generation, epoch |-> x.epoch]
                ELSE running.idle[s]) \in IdleTimer
  <2>1. CASE \E x \in Tagged(out, "ArmIdleTimer") : x.id = s
    <3>1. PICK y : y = CHOOSE x \in Tagged(out, "ArmIdleTimer") : x.id = s
      OBVIOUS
    <3>2. y \in Tagged(out, "ArmIdleTimer")
      BY <2>1, <3>1
    <3>3. y.generation \in Nat /\ y.epoch \in Nat
      BY <3>2 DEF Tagged, LifecycleCommands
    <3> QED
      BY <2>1, <3>1, <3>3 DEF IdleTimer
  <2>2. CASE ~\E x \in Tagged(out, "ArmIdleTimer") : x.id = s
    BY <2>2 DEF TimersType
  <2> QED
    BY <2>1, <2>2
<1>2. {<<x.id, x.generation>> : x \in Tagged(out, "ArmCooldownTimer")} \subseteq Services \X Nat
  <2>1. \A x \in Tagged(out, "ArmCooldownTimer") : x.id \in Services /\ x.generation \in Nat
    BY DEF Tagged, LifecycleCommands
  <2> QED
    BY <2>1
<1>3. ArmedBy(running, out).cooldown \subseteq Services \X Nat
  BY <1>2 DEF ArmedBy, TimersType
<1>4. ArmedBy(running, out).idle \in [Services -> IdleTimer]
  BY <1>1 DEF ArmedBy
<1> QED
  BY <1>3, <1>4 DEF ArmedBy, TimersType

\* What a caller becomes by a step of the others.
GoesOn(k, r, st) ==
  /\ r \in Caller
  /\ Orderly(r)
  /\ r.at # "done" => k.at # "done" /\ r.call = k.call
  /\ \A s \in Services : /\ Removing(r, s) => Removing(k, s) \/ st.services[s].destroy = "reserved"
                         /\ Storing(r, s) => Storing(k, s)

\* A caller that is done owns nothing.
LEMMA DoneCaller ==
  ASSUME NEW caller
  PROVE  /\ Arrive(caller, "done") \in Caller
         /\ Arrive(caller, "done").at = "done"
         /\ Arrive(caller, "done").call = NoOperation
         /\ Orderly(Arrive(caller, "done"))
         /\ \A s : ~Removing(Arrive(caller, "done"), s) /\ ~Storing(Arrive(caller, "done"), s)
<1>1. /\ Arrive(caller, "done") \in Caller
      /\ Arrive(caller, "done").at = "done"
      /\ Arrive(caller, "done").call = NoOperation
  BY DEF Arrive, NewCaller, Caller, Stages
<1> QED
  BY <1>1 DEF Orderly, Removing, Storing, NoOperation

\* What arriving at a stage changes of a caller.
LEMMA ArriveFields ==
  ASSUME NEW caller \in Caller, NEW at \in Stages, at # "done"
  PROVE  /\ Arrive(caller, at) \in Caller
         /\ Arrive(caller, at).at = at
         /\ Arrive(caller, at).call = caller.call
BY DEF Arrive, Caller

\* A watcher that sees a state goes on.
LEMMA SeenGoesOn ==
  ASSUME NEW caller \in Caller, Orderly(caller), Observes(caller), NEW st \in SoundState
  PROVE  GoesOn(caller, Seen(caller, st), st)
<1>0. caller.call \in Operation \union {NoOperation} /\ caller.at \in {"stopping", "reserving"}
  BY DEF Caller, Observes
<1>1. caller.call \in Operation
  BY <1>0 DEF Orderly, NoOperation
<1>2. PICK s \in Services : s = caller.call.id
  BY <1>1 DEF Operation
<1>3. \/ Seen(caller, st) = [caller EXCEPT !.awaiting = {s}]
      \/ Seen(caller, st) = Arrive(caller, "done")
      \/ /\ caller.at = "reserving" /\ st.services[s].destroy = "reserved"
         /\ Seen(caller, st) = [caller EXCEPT !.awaiting = {}, !.at = "remove"]
      \/ /\ caller.at = "reserving"
         /\ Seen(caller, st) = [caller EXCEPT !.awaiting = {}, !.at = "release"]
  BY <1>0, <1>2 DEF Seen
<1>4. CASE Seen(caller, st) = [caller EXCEPT !.awaiting = {s}]
  <2>1. PICK r : r = [caller EXCEPT !.awaiting = {s}]
    OBVIOUS
  <2>2. r \in Caller /\ r.call = caller.call /\ r.at = caller.at
    BY <2>1 DEF Caller
  <2>3. GoesOn(caller, r, st)
    BY <1>0, <2>2 DEF GoesOn, Orderly, Removing, Storing
  <2> QED
    BY <1>4, <2>1, <2>3
<1>5. CASE Seen(caller, st) = Arrive(caller, "done")
  BY <1>5, DoneCaller DEF GoesOn
<1>6. CASE /\ caller.at = "reserving" /\ st.services[s].destroy = "reserved"
           /\ Seen(caller, st) = [caller EXCEPT !.awaiting = {}, !.at = "remove"]
  <2>1. PICK r : r = [caller EXCEPT !.awaiting = {}, !.at = "remove"]
    OBVIOUS
  <2>2. r \in Caller /\ r.call = caller.call /\ r.at = "remove"
    BY <2>1 DEF Caller, Stages
  <2>3. Orderly(r)
    BY <1>6, <2>2 DEF Orderly
  <2>4. \A t \in Services : Removing(r, t) => st.services[t].destroy = "reserved"
    BY <1>2, <1>6, <2>2 DEF Removing
  <2>5. GoesOn(caller, r, st)
    BY <1>6, <2>2, <2>3, <2>4 DEF GoesOn, Storing
  <2> QED
    BY <1>6, <2>1, <2>5
<1>7. CASE /\ caller.at = "reserving"
           /\ Seen(caller, st) = [caller EXCEPT !.awaiting = {}, !.at = "release"]
  <2>1. PICK r : r = [caller EXCEPT !.awaiting = {}, !.at = "release"]
    OBVIOUS
  <2>2. r \in Caller /\ r.call = caller.call /\ r.at = "release"
    BY <2>1 DEF Caller, Stages
  <2>3. Orderly(r) /\ caller.call.op = "destroy"
    BY <1>7, <2>2 DEF Orderly
  <2>4. GoesOn(caller, r, st)
    BY <1>7, <2>2, <2>3 DEF GoesOn, Removing, Storing
  <2> QED
    BY <1>7, <2>1, <2>4
<1> QED
  BY <1>3, <1>4, <1>5, <1>6, <1>7

\* A caller that keeps its call and its stage goes on.
LEMMA SameGoesOn ==
  ASSUME NEW caller \in Caller, Orderly(caller), NEW r \in Caller, r.call = caller.call,
         r.at = caller.at, NEW st
  PROVE  GoesOn(caller, r, st)
BY DEF GoesOn, Orderly, Removing, Storing

\* A caller whose waits are resolved goes on.
LEMMA ResolvedGoesOn ==
  ASSUME NEW caller \in Caller, Orderly(caller), NEW c, NEW step, step.st \in SoundState
  PROVE  GoesOn(caller, Resolved(caller, c, step), step.st)
<1>1. CASE Observes(caller) /\ caller.awaiting = {}
  BY <1>1, SameGoesOn DEF Resolved
<1>2. CASE Observes(caller) /\ caller.awaiting # {}
  BY <1>2, SeenGoesOn DEF Resolved
<1>3. CASE ~Observes(caller)
  <2>1. PICK A : A = caller.awaiting \ {x.id : x \in {y \in Tagged(step.out, "AdmitConnection") : y.client = c}}
    OBVIOUS
  <2>2. PICK b \in BOOLEAN : b = (caller.failed \/ \E x \in Tagged(step.out, "FailConnection") :
                                                    x.client = c /\ x.id \in caller.awaiting)
    BY DEF Caller
  <2>3. PICK r : r = [caller EXCEPT !.awaiting = A, !.failed = b]
    OBVIOUS
  <2>4. r \in Caller /\ r.call = caller.call /\ r.at = caller.at
    BY <2>1, <2>3 DEF Caller
  <2>5. Resolved(caller, c, step) = r
    BY <1>3, <2>1, <2>2, <2>3 DEF Resolved
  <2> QED
    BY <2>4, <2>5, SameGoesOn
<1> QED
  BY <1>1, <1>2, <1>3

-----------------------------------------------------------------------------
(* Calls and reservations across a step.                                   *)

CallsInv == CallsAreOrderly /\ ReservationsAreHeld

\* Storage work newly allowed: nobody had the storage.
NewlyStored(s) ==
  /\ ~lifecycle.services[s].storageReserved
  /\ lifecycle'.services[s].storageReserved
  /\ lifecycle'.services[s].destroy # "reserved"

KeptStorage(s) == KeepsStorage(lifecycle.services[s], lifecycle'.services[s])

\* One caller acts, the others go on: what the acting one must see to.
LEMMA CallsStep ==
  ASSUME CallsInv, lifecycle \in SoundState, lifecycle' \in SoundState,
         lifecycle'.members \subseteq lifecycle.members, NEW c \in Clients,
         \A d \in Clients \ {c} : GoesOn(client[d], client'[d], lifecycle'),
         Orderly(client'[c]),
         Destroying(c)' => \A d \in Clients \ {c} : ~Destroying(d),
         \A s \in Services : Removing(client'[c], s) => lifecycle'.services[s].destroy = "reserved",
         \A s \in lifecycle'.members : Storing(client'[c], s) =>
           NewlyStored(s) \/ (Storing(client[c], s) /\ KeptStorage(s)),
         \A d \in Clients \ {c}, s \in Services :
           Removing(client[d], s) \/ (s \in lifecycle.members /\ Storing(client[d], s)) =>
             KeptStorage(s)
  PROVE  CallsInv'
<1>0. lifecycle.members \subseteq Services /\ lifecycle'.members \subseteq Services
  BY SoundMembers
<1>1. \A s \in Services : lifecycle.services[s].destroy = "reserved" => lifecycle.services[s].storageReserved
  <2>1. ASSUME NEW s \in Services
        PROVE  lifecycle.services[s].destroy = "reserved" => lifecycle.services[s].storageReserved
    <3>1. SoundService(lifecycle.services[s], lifecycle.generationCounters[s])
      BY SoundFields
    <3> QED
      BY <3>1 DEF SoundService
  <2> QED
    BY <2>1
<1>2. \A d \in Clients \ {c} : Destroying(d)' => Destroying(d)
  BY DEF GoesOn, Destroying
<1>3. CallsAreOrderly'
  <2>1. \A d \in Clients : Orderly(client'[d])
    BY DEF GoesOn
  <2>2. ASSUME NEW d \in Clients, NEW e \in Clients, Destroying(d)', Destroying(e)'
        PROVE  d = e
    <3>1. \A x, y \in Clients : Destroying(x) /\ Destroying(y) => x = y
      BY DEF CallsInv, CallsAreOrderly
    <3> QED
      BY <1>2, <2>2, <3>1
  <2> QED
    BY <2>1, <2>2 DEF CallsAreOrderly
<1>4. ASSUME NEW s \in Services, NEW d \in Clients, Removing(client'[d], s)
      PROVE  lifecycle'.services[s].destroy = "reserved"
  <2>1. CASE d = c
    BY <1>4, <2>1
  <2>2. CASE d # c
    <3>1. Removing(client[d], s) \/ lifecycle'.services[s].destroy = "reserved"
      BY <1>4, <2>2 DEF GoesOn
    <3>2. Removing(client[d], s) => lifecycle.services[s].destroy = "reserved" /\ KeptStorage(s)
      BY <2>2 DEF CallsInv, ReservationsAreHeld
    <3> QED
      BY <1>1, <3>1, <3>2 DEF KeptStorage, KeepsStorage
  <2> QED
    BY <2>1, <2>2
<1>5. ASSUME NEW s \in lifecycle'.members, NEW d \in Clients, Storing(client'[d], s)
      PROVE  \/ NewlyStored(s) /\ d = c
             \/ Storing(client[d], s) /\ KeptStorage(s)
  <2>1. CASE d = c
    BY <1>5, <2>1
  <2>2. CASE d # c
    <3>1. Storing(client[d], s) /\ s \in lifecycle.members /\ s \in Services
      BY <1>0, <1>5, <2>2 DEF GoesOn
    <3> QED
      BY <2>2, <3>1
  <2> QED
    BY <2>1, <2>2
<1>6. ASSUME NEW s \in lifecycle'.members, NEW d \in Clients, Storing(client[d], s)
      PROVE  /\ lifecycle.services[s].storageReserved
             /\ lifecycle.services[s].destroy # "reserved"
             /\ \A e \in Clients : Storing(client[e], s) => e = d
  BY <1>6 DEF CallsInv, ReservationsAreHeld
<1>7. ASSUME NEW s \in lifecycle'.members, NEW d \in Clients, Storing(client'[d], s)
      PROVE  /\ lifecycle'.services[s].storageReserved
             /\ lifecycle'.services[s].destroy # "reserved"
             /\ \A e \in Clients : Storing(client'[e], s) => e = d
  <2>1. CASE NewlyStored(s) /\ d = c
    <3>1. \A e \in Clients : ~Storing(client[e], s)
      BY <1>6, <2>1 DEF NewlyStored
    <3> QED
      BY <1>5, <2>1, <3>1 DEF NewlyStored
  <2>2. CASE Storing(client[d], s) /\ KeptStorage(s)
    <3>1. /\ lifecycle.services[s].storageReserved
          /\ lifecycle.services[s].destroy # "reserved"
          /\ \A e \in Clients : Storing(client[e], s) => e = d
      BY <1>6, <2>2
    <3>2. \A e \in Clients : Storing(client'[e], s) => e = d
      BY <1>5, <3>1 DEF NewlyStored
    <3> QED
      BY <2>2, <3>1, <3>2 DEF KeptStorage, KeepsStorage
  <2> QED
    BY <1>5, <1>7, <2>1, <2>2
<1>8. ReservationsAreHeld'
  BY <1>4, <1>7 DEF ReservationsAreHeld
<1> QED
  BY <1>3, <1>8 DEF CallsInv

\* A step in which every caller goes on and no storage changes hands.
LEMMA AllGoOn ==
  ASSUME CallsInv, lifecycle \in SoundState, lifecycle' \in SoundState,
         lifecycle'.members \subseteq lifecycle.members,
         \A d \in Clients : GoesOn(client[d], client'[d], lifecycle'),
         \A s \in Services : KeptStorage(s)
  PROVE  CallsInv'
<1>1. CASE Clients = {}
  BY <1>1 DEF CallsInv, CallsAreOrderly, ReservationsAreHeld
<1>2. CASE Clients # {}
  <2>1. PICK c \in Clients : TRUE
    BY <1>2
  <2>2. Orderly(client'[c])
    BY DEF GoesOn
  <2>3. Destroying(c)' => \A d \in Clients \ {c} : ~Destroying(d)
    <3>1. Destroying(c)' => Destroying(c)
      BY DEF GoesOn, Destroying
    <3> QED
      BY <3>1 DEF CallsInv, CallsAreOrderly
  <2>4. ASSUME NEW s \in Services, Removing(client'[c], s)
        PROVE  lifecycle'.services[s].destroy = "reserved"
    <3>1. Removing(client[c], s) \/ lifecycle'.services[s].destroy = "reserved"
      BY <2>4 DEF GoesOn
    <3>2. Removing(client[c], s) => lifecycle.services[s].destroy = "reserved"
      BY DEF CallsInv, ReservationsAreHeld
    <3>3. SoundService(lifecycle.services[s], lifecycle.generationCounters[s])
      BY SoundFields
    <3>4. lifecycle.services[s].destroy = "reserved" => lifecycle.services[s].storageReserved
      BY <3>3 DEF SoundService
    <3> QED
      BY <3>1, <3>2, <3>4 DEF KeptStorage, KeepsStorage
  <2>5. \A s \in lifecycle'.members : Storing(client'[c], s) => Storing(client[c], s) /\ KeptStorage(s)
    <3>1. lifecycle'.members \subseteq Services
      BY SoundMembers
    <3> QED
      BY <3>1 DEF GoesOn
  <2> QED
    BY <2>2, <2>3, <2>4, <2>5, CallsStep
<1> QED
  BY <1>1, <1>2

\* The acting caller of a dispatch: it is at an end or waits, or works with what
\* it has just reserved.
LEMMA DispatchCalls ==
  ASSUME CallsInv, client \in [Clients -> Caller], lifecycle \in SoundState, NEW step,
         step.st \in SoundState, lifecycle' = step.st,
         lifecycle'.members \subseteq lifecycle.members, NEW c \in Clients,
         NEW callers \in [Clients -> Caller],
         client' = [d \in Clients |-> Resolved(callers[d], d, step)],
         \A d \in Clients \ {c} : callers[d] = client[d],
         Orderly(callers[c]),
         callers[c].at # "done" => client[c].at # "done" /\ callers[c].call = client[c].call,
         \A s \in Services : ~Removing(callers[c], s),
         \A s \in lifecycle'.members : Storing(callers[c], s) => NewlyStored(s),
         \A d \in Clients \ {c}, s \in Services :
           Removing(client[d], s) \/ (s \in lifecycle.members /\ Storing(client[d], s)) =>
             KeptStorage(s)
  PROVE  CallsInv' /\ client' \in [Clients -> Caller]
<1>1. \A d \in Clients : Orderly(client[d])
  BY DEF CallsInv, CallsAreOrderly
<1>2. \A d \in Clients : GoesOn(callers[d], client'[d], lifecycle')
  <2>1. ASSUME NEW d \in Clients
        PROVE  GoesOn(callers[d], Resolved(callers[d], d, step), step.st)
    <3>1. Orderly(callers[d]) /\ callers[d] \in Caller
      BY <1>1
    <3> QED
      BY <3>1, ResolvedGoesOn
  <2>2. \A d \in Clients : client'[d] = Resolved(callers[d], d, step)
    OBVIOUS
  <2> QED
    BY <2>1, <2>2
<1>3. client' \in [Clients -> Caller]
  <2>1. \A d \in Clients : client'[d] \in Caller
    BY <1>2 DEF GoesOn
  <2> QED
    BY <2>1
<1>4. \A d \in Clients \ {c} : GoesOn(client[d], client'[d], lifecycle')
  BY <1>2
<1>5. Orderly(client'[c])
  BY <1>2 DEF GoesOn
<1>6. Destroying(c)' => \A d \in Clients \ {c} : ~Destroying(d)
  <2>1. Destroying(c)' => Destroying(c)
    BY <1>2 DEF GoesOn, Destroying
  <2> QED
    BY <2>1 DEF CallsInv, CallsAreOrderly
<1>7. \A s \in Services : Removing(client'[c], s) => lifecycle'.services[s].destroy = "reserved"
  BY <1>2 DEF GoesOn
<1>8. \A s \in lifecycle'.members : Storing(client'[c], s) => NewlyStored(s)
  <2>1. lifecycle'.members \subseteq Services
    BY SoundMembers
  <2> QED
    BY <1>2, <2>1 DEF GoesOn
<1> QED
  BY <1>3, <1>4, <1>5, <1>6, <1>7, <1>8, CallsStep

\* A step of a caller alone.
LEMMA MovedCalls ==
  ASSUME CallsInv, client \in [Clients -> Caller], lifecycle \in SoundState, UNCHANGED lifecycle,
         NEW c \in Clients, NEW r, client' = [client EXCEPT ![c] = r],
         GoesOn(client[c], r, lifecycle)
  PROVE  CallsInv' /\ client' \in [Clients -> Caller]
<1>1. \A d \in Clients : GoesOn(client[d], client'[d], lifecycle')
  <2>1. \A d \in Clients : Orderly(client[d])
    BY DEF CallsInv, CallsAreOrderly
  <2>2. \A d \in Clients \ {c} : GoesOn(client[d], client[d], lifecycle)
    BY <2>1, SameGoesOn
  <2>3. client'[c] = r /\ \A d \in Clients \ {c} : client'[d] = client[d]
    OBVIOUS
  <2> QED
    BY <2>2, <2>3
<1>2. client' \in [Clients -> Caller]
  BY DEF GoesOn
<1>3. \A s \in Services : KeptStorage(s)
  BY DEF KeptStorage, KeepsStorage
<1> QED
  BY <1>1, <1>2, <1>3, AllGoOn

-----------------------------------------------------------------------------
(* The parts of the owner's invariant, and what keeps them.                *)

\* The invariant, in the parts its proof takes one by one.
LEMMA OwnerParts ==
  /\ OwnerInv <=> /\ lifecycle \in SoundState
                  /\ timers \in TimersType
                  /\ client \in [Clients -> Caller]
                  /\ BoundaryInv(LastGeneration)
                  /\ AccountedFor
                  /\ CallsInv
  /\ OwnerInv' <=> /\ lifecycle' \in SoundState
                   /\ timers' \in TimersType
                   /\ client' \in [Clients -> Caller]
                   /\ BoundaryInv(LastGeneration)'
                   /\ AccountedFor'
                   /\ CallsInv'
BY DEF OwnerInv, OrchestratorTypeOK, TimersType, SoundState, CallsInv, BoundaryInv

Bounded ==
  /\ lifecycle' \in SoundState
  /\ BoundaryInv(LastGeneration)'
  /\ AccountedFor'

\* The bound on the generations, across a step.
LEMMA BoundedBy ==
  ASSUME lifecycle' \in SoundState, NEW b2, b2 = LastGeneration', BoundaryInv(b2)'
  PROVE  BoundaryInv(LastGeneration)'
BY DEF BoundaryInv, KnownGenerations

\* A dispatch that leaves the executions alone.
LEMMA DispatchedBounded ==
  ASSUME OwnerInv, NEW step, NEW running, NEW callers, Dispatch(step, running, callers),
         Advances(lifecycle, step.st, step.out, {})
  PROVE  Bounded /\ lifecycle'.members \subseteq lifecycle.members
<1>1. /\ lifecycle \in SoundState /\ BoundaryInv(LastGeneration) /\ AccountedFor
  BY OwnerParts
<1>2. lifecycle' = step.st /\ commands' = commands \union Forked(step.out)
  BY DEF Dispatch, Publish
<1>3. lifecycle' \in SoundState /\ lifecycle'.members \subseteq lifecycle.members
  BY <1>2 DEF Advances
<1>4. PICK out : out = step.out
  OBVIOUS
<1>5. Advances(lifecycle, lifecycle', out, {})
  BY <1>2, <1>4
<1>6. PICK b \in [Services -> Nat] : b = LastGeneration
  BY <1>1, LastGenerations
<1>7. PICK b2 \in [Services -> Nat] : b2 = LastGeneration'
  BY <1>3, NextGenerations
<1>8. PICK New : New = Forked(out)
  OBVIOUS
<1>9. Commanded(New, b, b2)
  BY <1>1, <1>3, <1>5, <1>6, <1>7, <1>8, ForkedCommanded
<1>10. BoundaryInv(b2)'
  <2>1. UNCHANGED <<fibers, attempt, stoppedThrough, session, working, ended, failures>>
    BY DEF Dispatch
  <2> QED
    BY <1>1, <1>2, <1>4, <1>6, <1>8, <1>9, <2>1, CommandsInv
<1>11. BoundaryInv(LastGeneration)'
  BY <1>3, <1>7, <1>10, BoundedBy
<1>12. \A s \in Services, g \in Nat :
         MayHold(s, g)' => MayHold(s, g) \/ LaunchCommand(s, g) \in Forked(out)
  BY <1>2, <1>4 DEF Dispatch, MayHold, MayAcquire
<1>13. AccountedFor'
  BY <1>1, <1>3, <1>5, <1>12, AdvancesAccounted
<1> QED
  BY <1>3, <1>11, <1>13 DEF Bounded

\* A reported outcome.
LEMMA DeliveredBounded ==
  ASSUME OwnerInv, NEW f \in fibers, NEW step, NEW over, Delivered(f),
         Publish(step, commands, timers, client), Advances(lifecycle, step.st, step.out, over),
         over = {} \/ /\ OutcomeOf(f) \in {"Exited", "LaunchFailed"}
                      /\ over = OverAt(lifecycle, f.id, f.generation)
  PROVE  Bounded /\ lifecycle'.members \subseteq lifecycle.members
<1>1. /\ lifecycle \in SoundState /\ BoundaryInv(LastGeneration) /\ AccountedFor
  BY OwnerParts
<1>2. lifecycle' = step.st /\ commands' = commands \union Forked(step.out)
  BY DEF Publish
<1>3. lifecycle' \in SoundState /\ lifecycle'.members \subseteq lifecycle.members
  BY <1>2 DEF Advances
<1>4. PICK out : out = step.out
  OBVIOUS
<1>5. Advances(lifecycle, lifecycle', out, over)
  BY <1>2, <1>4
<1>6. PICK b \in [Services -> Nat] : b = LastGeneration
  BY <1>1, LastGenerations
<1>7. PICK b2 \in [Services -> Nat] : b2 = LastGeneration'
  BY <1>3, NextGenerations
<1>8. PICK New : New = Forked(out)
  OBVIOUS
<1>9. Commanded(New, b, b2)
  BY <1>1, <1>3, <1>5, <1>6, <1>7, <1>8, ForkedCommanded
<1>10. BoundaryInv(b2)'
  BY <1>1, <1>2, <1>4, <1>6, <1>8, <1>9, DeliveredInv
<1>11. BoundaryInv(LastGeneration)'
  BY <1>3, <1>7, <1>10, BoundedBy
<1>12. TypeOK /\ f \in Fiber
  BY <1>1 DEF BoundaryInv, TypeOK
<1>13. \A s \in Services, g \in Nat :
         MayHold(s, g)' => MayHold(s, g) \/ LaunchCommand(s, g) \in Forked(out)
  <2>1. After(f)
    BY <1>12, DeliveredAfter
  <2>2. \A x \in fibers' : x \in fibers \/ x.at \notin {"prepare", "acquire"}
    BY <2>1 DEF After
  <2>3. \A s, g : MayAcquire(s, g)' => MayAcquire(s, g) \/ LaunchCommand(s, g) \in Forked(out)
    BY <1>2, <1>4, <2>2 DEF MayAcquire
  <2>4. UNCHANGED <<session, stoppedThrough>>
    BY DEF Delivered
  <2> QED
    BY <2>3, <2>4 DEF MayHold
<1>14. ASSUME NEW s \in Services, s \in over, NEW g \in 1..LastGeneration[s], MayHold(s, g)
       PROVE  FALSE
  <2>1. /\ OutcomeOf(f) \in {"Exited", "LaunchFailed"}
        /\ s = f.id /\ lifecycle.services[s].phase.generation = f.generation
    BY <1>14 DEF OverAt
  <2>2. f.generation = g
    BY <1>1, <1>14, <2>1 DEF AccountedFor, GenerationOf, PhaseAt
  <2>3. /\ session[s].generation # g
        /\ g <= stoppedThrough[s] \/ ~MayAcquire(s, g)
    <3>1. Reports(f)
      BY DEF Delivered
    <3> QED
      BY <1>1, <1>6, <2>1, <2>2, <3>1, ReportedEnds
  <2>4. stoppedThrough[s] \in Nat /\ g \in Nat
    BY <1>12 DEF TypeOK
  <2> QED
    BY <1>14, <2>3, <2>4 DEF MayHold
<1>15. AccountedFor'
  BY <1>1, <1>3, <1>5, <1>13, <1>14, AdvancesAccounted
<1> QED
  BY <1>3, <1>11, <1>15 DEF Bounded

\* A service's own step, or none.
LEMMA OwnBounded ==
  ASSUME OwnerInv, UNCHANGED lifecycle, OwnStep \/ UNCHANGED serviceVars
  PROVE  Bounded
<1>1. /\ lifecycle \in SoundState /\ BoundaryInv(LastGeneration) /\ AccountedFor
  BY OwnerParts
<1>2. PICK b \in [Services -> Nat] : b = LastGeneration
  BY <1>1, LastGenerations
<1>3. LastGeneration' = LastGeneration
  BY DEF LastGeneration
<1>4. CASE OwnStep
  <2>1. BoundaryInv(b)' /\ AccountedFor'
    BY <1>1, <1>2, <1>4, OwnStepInv, OwnStepAccounted
  <2>2. BoundaryInv(LastGeneration)'
    BY <1>1, <1>2, <1>3, <2>1, BoundedBy
  <2> QED
    BY <1>1, <2>1, <2>2 DEF Bounded
<1>5. CASE UNCHANGED serviceVars
  <2>1. BoundaryInv(LastGeneration)'
    BY <1>1, <1>3, <1>5 DEF serviceVars, BoundaryInv, TypeOK, KnownGenerations, OneLaunch, AcquiredOnce,
         StopsFence, ReportsAreTrue, OverIsFinal, Held, MayAcquire
  <2>2. AccountedFor'
    BY <1>1, <1>3, <1>5 DEF serviceVars, AccountedFor, MayHold, MayAcquire, PhaseAt, GenerationOf
  <2> QED
    BY <1>1, <2>1, <2>2 DEF Bounded
<1> QED
  BY <1>4, <1>5

\* A quiet event, settled.
LEMMA QuietSettled ==
  ASSUME NEW st \in SoundState, NEW step, NEW over, QuietStep(st, step, over)
  PROVE  /\ Advances(st, settle(step).st, settle(step).out, over)
         /\ KeepsStorages(st, settle(step).st, {})
<1>1. Leads(st, step.st, over) /\ Plain(st, step.out) /\ KeepsStorages(st, step.st, {})
  BY DEF QuietStep, Quiet, LeavesStorage, SameStorage, KeepsStorages, KeepsStorage
<1> QED
  BY <1>1, SettledAdvances

\* A dispatch publishes timers.
LEMMA PublishedTimers ==
  ASSUME NEW step, NEW pending, NEW running \in TimersType, NEW callers,
         Publish(step, pending, running, callers), step.out \subseteq LifecycleCommands
  PROVE  timers' \in TimersType
BY ArmedTyped DEF Publish

\* A step no caller takes part in but as a waiter.
LEMMA PassiveOwner ==
  ASSUME OwnerInv, NEW step, NEW pending, NEW running \in TimersType,
         Publish(step, pending, running, client), step.out \subseteq LifecycleCommands,
         Bounded, lifecycle'.members \subseteq lifecycle.members,
         KeepsStorages(lifecycle, lifecycle', {})
  PROVE  OwnerInv'
<1>1. /\ lifecycle \in SoundState /\ client \in [Clients -> Caller] /\ CallsInv
  BY OwnerParts
<1>2. lifecycle' = step.st /\ lifecycle' \in SoundState
  BY DEF Publish, Bounded
<1>3. \A d \in Clients : GoesOn(client[d], client'[d], lifecycle')
  <2>1. ASSUME NEW d \in Clients
        PROVE  GoesOn(client[d], Resolved(client[d], d, step), step.st)
    <3>1. Orderly(client[d]) /\ client[d] \in Caller
      BY <1>1 DEF CallsInv, CallsAreOrderly
    <3> QED
      BY <1>2, <3>1, ResolvedGoesOn
  <2>2. \A d \in Clients : client'[d] = Resolved(client[d], d, step)
    BY DEF Publish
  <2> QED
    BY <1>2, <2>1, <2>2
<1>4. client' \in [Clients -> Caller]
  <2>1. \A d \in Clients : client'[d] \in Caller
    BY <1>3 DEF GoesOn
  <2>2. client' = [d \in Clients |-> Resolved(client[d], d, step)]
    BY DEF Publish
  <2> QED
    BY <2>1, <2>2
<1>5. \A s \in Services : KeptStorage(s)
  BY DEF KeepsStorages, KeptStorage
<1>6. CallsInv'
  BY <1>1, <1>2, <1>3, <1>5, AllGoOn
<1>7. timers' \in TimersType
  BY PublishedTimers
<1> QED
  BY <1>4, <1>6, <1>7, OwnerParts DEF Bounded

\* A step a caller dispatches.
LEMMA DispatchedOwner ==
  ASSUME OwnerInv, NEW step, NEW callers \in [Clients -> Caller], Dispatch(step, timers, callers),
         Advances(lifecycle, step.st, step.out, {}), NEW c \in Clients,
         \A d \in Clients \ {c} : callers[d] = client[d],
         Orderly(callers[c]),
         callers[c].at # "done" => client[c].at # "done" /\ callers[c].call = client[c].call,
         \A s \in Services : ~Removing(callers[c], s),
         \A s \in step.st.members : Storing(callers[c], s) =>
           /\ ~lifecycle.services[s].storageReserved
           /\ step.st.services[s].storageReserved
           /\ step.st.services[s].destroy # "reserved",
         \A d \in Clients \ {c}, s \in Services :
           Removing(client[d], s) \/ (s \in lifecycle.members /\ Storing(client[d], s)) =>
             KeepsStorage(lifecycle.services[s], step.st.services[s])
  PROVE  OwnerInv'
<1>1. /\ lifecycle \in SoundState /\ client \in [Clients -> Caller] /\ CallsInv
      /\ timers \in TimersType
  BY OwnerParts
<1>2. Bounded /\ lifecycle'.members \subseteq lifecycle.members
  BY DispatchedBounded
<1>3. Publish(step, commands, timers, callers)
  BY DEF Dispatch
<1>4. /\ lifecycle' = step.st /\ step.st \in SoundState
      /\ client' = [d \in Clients |-> Resolved(callers[d], d, step)]
  BY <1>2, <1>3 DEF Publish, Bounded
<1>5. step.out \subseteq LifecycleCommands
  BY DEF Advances
<1>6. timers' \in TimersType
  BY <1>1, <1>3, <1>5, PublishedTimers
<1>7. \A s \in lifecycle'.members : Storing(callers[c], s) => NewlyStored(s)
  BY <1>4 DEF NewlyStored
<1>8. \A d \in Clients \ {c}, s \in Services :
        Removing(client[d], s) \/ (s \in lifecycle.members /\ Storing(client[d], s)) =>
          KeptStorage(s)
  BY <1>4 DEF KeptStorage
<1>9. CallsInv' /\ client' \in [Clients -> Caller]
  BY <1>1, <1>2, <1>4, <1>7, <1>8, DispatchCalls
<1> QED
  BY <1>2, <1>6, <1>9, OwnerParts DEF Bounded

-----------------------------------------------------------------------------
(* Every step keeps the invariant.                                         *)

\* A reported outcome.
LEMMA DeliverOwner ==
  ASSUME OwnerInv, NEW f \in fibers, Deliver(f)
  PROVE  OwnerInv'
<1>1. /\ lifecycle \in SoundState /\ timers \in TimersType /\ BoundaryInv(LastGeneration)
  BY OwnerParts
<1>2. f \in Fiber /\ Reports(f)
  BY <1>1 DEF BoundaryInv, TypeOK, Deliver, Delivered
<1>3. PICK quiet \in MayBeQuiet(f) : Publish(settle(EventOf(f, quiet, lifecycle)), commands, timers, client)
  BY DEF Deliver
<1>4. PICK event : event = EventOf(f, quiet, lifecycle)
  OBVIOUS
<1>5. PICK over : /\ QuietStep(lifecycle, event, over)
                  /\ over = {} \/ /\ OutcomeOf(f) \in {"Exited", "LaunchFailed"}
                                  /\ over = OverAt(lifecycle, f.id, f.generation)
  BY <1>1, <1>2, <1>4, EventQuiet
<1>6. PICK step : step = settle(event)
  OBVIOUS
<1>7. Advances(lifecycle, step.st, step.out, over) /\ KeepsStorages(lifecycle, step.st, {})
  BY <1>1, <1>5, <1>6, QuietSettled
<1>8. Publish(step, commands, timers, client) /\ Delivered(f)
  BY <1>3, <1>4, <1>6 DEF Deliver
<1>9. Bounded /\ lifecycle'.members \subseteq lifecycle.members
  BY <1>5, <1>7, <1>8, DeliveredBounded
<1>10. step.out \subseteq LifecycleCommands /\ KeepsStorages(lifecycle, lifecycle', {})
  BY <1>7, <1>8 DEF Advances, Publish
<1> QED
  BY <1>1, <1>8, <1>9, <1>10, PassiveOwner

\* A timer that fires.
LEMMA TimerOwner ==
  ASSUME OwnerInv, NEW event, QuietStep(lifecycle, event, {}), NEW running \in TimersType,
         Dispatch(settle(event), running, client)
  PROVE  OwnerInv'
<1>1. lifecycle \in SoundState
  BY OwnerParts
<1>2. PICK step : step = settle(event)
  OBVIOUS
<1>3. Advances(lifecycle, step.st, step.out, {}) /\ KeepsStorages(lifecycle, step.st, {})
  BY <1>1, <1>2, QuietSettled
<1>4. Dispatch(step, running, client) /\ Publish(step, commands, running, client)
  BY <1>2 DEF Dispatch
<1>5. Bounded /\ lifecycle'.members \subseteq lifecycle.members
  BY <1>3, <1>4, DispatchedBounded
<1>6. step.out \subseteq LifecycleCommands /\ KeepsStorages(lifecycle, lifecycle', {})
  BY <1>3, <1>4 DEF Advances, Publish
<1> QED
  BY <1>4, <1>5, <1>6, PassiveOwner

\* An idle timer that fires, stale or not.
LEMMA IdleTimerOwner ==
  ASSUME OwnerInv, NEW s \in Services, IdleTimerFires(s)
  PROVE  OwnerInv'
<1>1. lifecycle \in SoundState /\ timers \in TimersType
  BY OwnerParts
<1>2. PICK event : event = IdleElapsed(lifecycle, s, timers.idle[s].generation, timers.idle[s].epoch)
  OBVIOUS
<1>3. QuietStep(lifecycle, event, {})
  BY <1>1, <1>2, IdleElapsedQuiet
<1>4. PICK running : running = [timers EXCEPT !.idle[s] = NoTimer]
  OBVIOUS
<1>5. running \in TimersType
  BY <1>1, <1>4 DEF TimersType, NoTimer, IdleTimer
<1>6. Dispatch(settle(event), running, client)
  BY <1>2, <1>4 DEF IdleTimerFires
<1> QED
  BY <1>3, <1>5, <1>6, TimerOwner

\* A cooldown that ends.
LEMMA CooldownTimerOwner ==
  ASSUME OwnerInv, NEW x \in timers.cooldown, CooldownTimerFires(x[1], x[2])
  PROVE  OwnerInv'
<1>1. lifecycle \in SoundState /\ timers \in TimersType
  BY OwnerParts
<1>2. PICK event : event = CooldownElapsed(lifecycle, x[1], x[2])
  OBVIOUS
<1>3. QuietStep(lifecycle, event, {})
  BY <1>1, <1>2, CooldownElapsedQuiet
<1>4. PICK running : running = [timers EXCEPT !.cooldown = @ \ {<<x[1], x[2]>>}]
  OBVIOUS
<1>5. running \in TimersType
  BY <1>1, <1>4 DEF TimersType
<1>6. Dispatch(settle(event), running, client)
  BY <1>2, <1>4 DEF CooldownTimerFires
<1> QED
  BY <1>3, <1>5, <1>6, TimerOwner

\* What a dispatching caller may leave of the others' storage: it destroys alone.
LEMMA GoesFields ==
  ASSUME client \in [Clients -> Caller], NEW c \in Clients, NEW at \in Stages
  PROVE  /\ Goes(c, at) \in [Clients -> Caller]
         /\ Goes(c, at)[c] = Arrive(client[c], at)
         /\ \A d \in Clients \ {c} : Goes(c, at)[d] = client[d]
<1>1. Arrive(client[c], at) \in Caller
  BY DoneCaller, ArriveFields
<1> QED
  BY <1>1 DEF Goes

\* A caller that dispatches and waits for nothing more of the services' storage.
LEMMA GoneOwner ==
  ASSUME OwnerInv, NEW step, NEW c \in Clients, NEW at \in {"close", "done"},
         Dispatch(step, timers, Goes(c, at)), Advances(lifecycle, step.st, step.out, {}),
         at = "close" => client[c].call.op \in {"connect", "inspect"} /\ client[c].at # "done",
         \A d \in Clients \ {c}, s \in Services :
           Removing(client[d], s) \/ (s \in lifecycle.members /\ Storing(client[d], s)) =>
             KeepsStorage(lifecycle.services[s], step.st.services[s])
  PROVE  OwnerInv'
<1>1. client \in [Clients -> Caller]
  BY OwnerParts
<1>2. PICK callers : callers = Goes(c, at)
  OBVIOUS
<1>3. /\ callers \in [Clients -> Caller] /\ callers[c] = Arrive(client[c], at)
      /\ \A d \in Clients \ {c} : callers[d] = client[d]
  BY <1>1, <1>2, GoesFields DEF Stages
<1>4. /\ Orderly(callers[c])
      /\ callers[c].at # "done" => client[c].at # "done" /\ callers[c].call = client[c].call
      /\ \A s \in Services : ~Removing(callers[c], s) /\ ~Storing(callers[c], s)
  <2>1. CASE at = "done"
    BY <1>3, <2>1, DoneCaller
  <2>2. CASE at = "close"
    <3>1. callers[c].at = "close" /\ callers[c].call = client[c].call
      BY <1>1, <1>3, <2>2, ArriveFields DEF Stages
    <3> QED
      BY <2>2, <3>1 DEF Orderly, Removing, Storing
  <2> QED
    BY <2>1, <2>2
<1>5. step.st.members \subseteq Services
  BY SoundMembers DEF Advances
<1>6. \A s \in step.st.members : ~Storing(callers[c], s)
  BY <1>4, <1>5
<1>7. Dispatch(step, timers, callers)
  BY <1>2
<1> QED
  BY <1>3, <1>4, <1>6, <1>7, DispatchedOwner

\* A call withdraws its waits.
LEMMA WithdrawOwner ==
  ASSUME OwnerInv, NEW c \in Clients, Withdraw(c)
  PROVE  OwnerInv'
<1>1. lifecycle \in SoundState
  BY OwnerParts
<1>2. PICK step : step = Withdrawn(c, client[c].call)
  OBVIOUS
<1>3. step \in Reductions(lifecycle)
  BY <1>1, <1>2, WithdrawnReduces
<1>4. PICK at \in {"close", "done"} : at = (IF OwesLease(c) THEN "close" ELSE "done")
  OBVIOUS
<1>5. Dispatch(step, timers, Goes(c, at)) /\ client[c].at = "withdraw"
  BY <1>2, <1>4 DEF Withdraw
<1>6. at = "close" => client[c].call.op \in {"connect", "inspect"}
  BY <1>4 DEF OwesLease, Traffic
<1>7. /\ Advances(lifecycle, step.st, step.out, {})
      /\ \A s \in Services : KeepsStorage(lifecycle.services[s], step.st.services[s])
  BY <1>3 DEF Reductions, KeepsStorages, Reduces
<1> QED
  BY <1>5, <1>6, <1>7, GoneOwner

\* A caller past its gate has an operation.
LEMMA CallOf ==
  ASSUME OwnerInv, NEW c \in Clients, client[c].at \notin {"new", "done"}
  PROVE  /\ client[c].call \in Operation
         /\ client[c].call.id \in Services
         /\ Orderly(client[c])
         /\ client[c] \in Caller
<1>1. client[c] \in Caller /\ Orderly(client[c])
  BY OwnerParts DEF CallsInv, CallsAreOrderly
<1>2. client[c].call \in Operation \union {NoOperation} /\ client[c].call.op # "none"
  BY <1>1 DEF Caller, Orderly
<1>3. client[c].call \in Operation
  BY <1>2 DEF NoOperation
<1> QED
  BY <1>1, <1>3 DEF Operation

\* A connection closes.
LEMMA CloseOwner ==
  ASSUME OwnerInv, NEW c \in Clients, Close(c)
  PROVE  OwnerInv'
<1>1. lifecycle \in SoundState
  BY OwnerParts
<1>2. client[c].call.id \in Services
  BY CallOf DEF Close
<1>3. PICK event : event = ConnectionClosed(lifecycle, client[c].call.id)
  OBVIOUS
<1>4. QuietStep(lifecycle, event, {})
  BY <1>1, <1>2, <1>3, ConnectionClosedQuiet
<1>5. PICK step : step = settle(event)
  OBVIOUS
<1>6. Advances(lifecycle, step.st, step.out, {}) /\ KeepsStorages(lifecycle, step.st, {})
  BY <1>1, <1>4, <1>5, QuietSettled
<1>7. Dispatch(step, timers, Goes(c, "done"))
  BY <1>3, <1>5 DEF Close
<1>8. \A s \in Services : KeepsStorage(lifecycle.services[s], step.st.services[s])
  BY <1>6 DEF KeepsStorages
<1> QED
  BY <1>6, <1>7, <1>8, GoneOwner

\* Only one caller destroys, and storage work has its service to itself.
LEMMA HoldersApart ==
  ASSUME OwnerInv, NEW c \in Clients, NEW d \in Clients \ {c}, NEW s \in Services
  PROVE  /\ Destroying(c) => ~Removing(client[d], s)
         /\ Removing(client[d], s) => lifecycle.services[s].destroy = "reserved"
         /\ s \in lifecycle.members /\ Storing(client[d], s) =>
              ~Storing(client[c], s) /\ lifecycle.services[s].destroy # "reserved"
<1>1. Destroying(c) => ~Removing(client[d], s)
  <2>1. Removing(client[d], s) => Destroying(d)
    BY DEF Removing, Destroying
  <2> QED
    BY <2>1, OwnerParts DEF CallsInv, CallsAreOrderly
<1> QED
  BY <1>1, OwnerParts DEF CallsInv, ReservationsAreHeld

\* A caller gives its reservation back; nobody else's goes with it.
LEMMA ReleaseOwner ==
  ASSUME OwnerInv, NEW c \in Clients, Release(c)
  PROVE  OwnerInv'
<1>1. lifecycle \in SoundState
  BY OwnerParts
<1>2. client[c].at = "release"
  BY DEF Release
<1>3. PICK s \in Services : s = client[c].call.id
  BY <1>2, CallOf
<1>4. client[c].call.op \in {"storage", "destroy"} /\ client[c].call \in Operation
  BY <1>2, CallOf DEF Orderly
<1>5. PICK event : event = IF client[c].call.op = "destroy" THEN DestroyReleased(lifecycle, s)
                                                            ELSE StorageReleased(lifecycle, s)
  OBVIOUS
<1>6. /\ StorageStep(lifecycle, event, {s})
      /\ client[c].call.op = "destroy" /\ lifecycle.services[s].destroy # "reserved" =>
           KeepsStorage(lifecycle.services[s], event.st.services[s])
      /\ client[c].call.op = "storage" /\ lifecycle.services[s].destroy = "reserved" =>
           KeepsStorage(lifecycle.services[s], event.st.services[s])
  <2>1. CASE client[c].call.op = "destroy"
    <3>1. event = DestroyReleased(lifecycle, s)
      BY <1>5, <2>1
    <3>2. /\ StorageStep(lifecycle, event, {s})
          /\ lifecycle.services[s].destroy # "reserved" =>
               KeepsStorage(lifecycle.services[s], event.st.services[s])
      BY <1>1, <3>1, DestroyReleasedStep
    <3> QED
      BY <2>1, <3>2
  <2>2. CASE client[c].call.op = "storage"
    <3>1. event = StorageReleased(lifecycle, s)
      BY <1>5, <2>2
    <3>2. /\ StorageStep(lifecycle, event, {s})
          /\ lifecycle.services[s].destroy = "reserved" =>
               KeepsStorage(lifecycle.services[s], event.st.services[s])
      BY <1>1, <3>1, StorageReleasedStep
    <3> QED
      BY <2>2, <3>2
  <2> QED
    BY <1>4, <2>1, <2>2
<1>7. PICK step : step = settle(event)
  OBVIOUS
<1>8. /\ Advances(lifecycle, step.st, step.out, {})
      /\ \A Ss : KeepsStorages(lifecycle, event.st, Ss) => KeepsStorages(lifecycle, step.st, Ss)
  BY <1>1, <1>6, <1>7, SettledAdvances DEF StorageStep
<1>9. Dispatch(step, timers, Goes(c, "done"))
  BY <1>3, <1>5, <1>7 DEF Release
<1>10. ASSUME NEW d \in Clients \ {c}, NEW t \in Services,
              Removing(client[d], t) \/ (t \in lifecycle.members /\ Storing(client[d], t))
       PROVE  KeepsStorage(lifecycle.services[t], step.st.services[t])
  <2>1. KeepsStorages(lifecycle, event.st, {s})
    BY <1>6 DEF StorageStep, KeepsStorages
  <2>2. CASE t # s
    BY <1>8, <2>1, <2>2 DEF KeepsStorages
  <2>3. CASE t = s
    <3>1. client[c].call.op = "destroy" => Destroying(c)
      BY <1>2 DEF Destroying
    <3>2. client[c].call.op = "storage" => Storing(client[c], s)
      BY <1>2, <1>3, <1>4 DEF Storing, Operation
    <3>3. KeepsStorage(lifecycle.services[s], event.st.services[s])
      BY <1>4, <1>6, <1>10, <2>3, <3>1, <3>2, HoldersApart
    <3>4. KeepsStorages(lifecycle, event.st, {})
      BY <2>1, <3>3 DEF KeepsStorages
    <3> QED
      BY <1>8, <3>4 DEF KeepsStorages
  <2> QED
    BY <2>2, <2>3
<1> QED
  BY <1>8, <1>9, <1>10, GoneOwner

\* A removed service leaves the graph, and nobody is working on its data.
LEMMA UnregisterOwner ==
  ASSUME OwnerInv, NEW c \in Clients, Unregister(c)
  PROVE  OwnerInv'
<1>1. lifecycle \in SoundState
  BY OwnerParts
<1>2. client[c].at = "unregister"
  BY DEF Unregister
<1>3. PICK s \in Services : s = client[c].call.id
  BY <1>2, CallOf
<1>4. client[c].call.op = "destroy" /\ client[c].call \in Operation
  BY <1>2, CallOf DEF Orderly
<1>5. Destroying(c) /\ Removing(client[c], s)
  BY <1>2, <1>3, <1>4 DEF Destroying, Removing, Operation
<1>6. lifecycle.services[s].destroy = "reserved"
  BY <1>5, OwnerParts DEF CallsInv, ReservationsAreHeld
<1>7. PICK event : event = GraphUpdated(lifecycle, s)
  OBVIOUS
<1>8. StorageStep(lifecycle, event, {s})
  BY <1>1, <1>7, GraphUpdatedStep
<1>9. PICK removed : removed = settle(event)
  OBVIOUS
<1>10. /\ Advances(lifecycle, removed.st, removed.out, {})
       /\ KeepsStorages(lifecycle, removed.st, {s})
  <2>1. KeepsStorages(lifecycle, event.st, {s})
    BY <1>8 DEF StorageStep, KeepsStorages
  <2> QED
    BY <1>1, <1>8, <1>9, <2>1, SettledAdvances DEF StorageStep
<1>11. removed.st \in SoundState
  BY <1>10 DEF Advances
<1>12. PICK release : release = DestroyReleased(removed.st, s)
  OBVIOUS
<1>13. StorageStep(removed.st, release, {s})
  BY <1>11, <1>12, DestroyReleasedStep
<1>14. PICK last : last = settle(release)
  OBVIOUS
<1>15. /\ Advances(removed.st, last.st, last.out, {})
       /\ KeepsStorages(removed.st, last.st, {s})
  <2>1. KeepsStorages(removed.st, release.st, {s})
    BY <1>13 DEF StorageStep, KeepsStorages
  <2> QED
    BY <1>11, <1>13, <1>14, <2>1, SettledAdvances DEF StorageStep
<1>16. PICK step : step = settle(Also(release, removed.out))
  OBVIOUS
<1>17. step.st = last.st /\ step.out = removed.out \union last.out
  <2>1. PICK both : both = Also(release, removed.out)
    OBVIOUS
  <2>2. both.st = release.st /\ both.out = release.out \union removed.out
    BY <2>1 DEF Also, Step
  <2>3. release.st \in SoundState
    BY <1>13 DEF StorageStep, Leads
  <2>4. /\ last.out = release.out \union Turns(release.st)
        /\ step.out = both.out \union Turns(both.st)
    BY <1>14, <1>16, <2>1, <2>2, <2>3, SettleAdvances
  <2>5. step.st = last.st
    BY <1>14, <1>16, <2>1, <2>2 DEF settle, Step
  <2> QED
    BY <2>2, <2>4, <2>5
<1>18. Advances(lifecycle, step.st, step.out, {})
  BY <1>1, <1>10, <1>15, <1>17, AdvancesOn
<1>19. KeepsStorages(lifecycle, step.st, {s})
  BY <1>10, <1>15, <1>17, KeepsStoragesOn
<1>20. Dispatch(step, timers, Goes(c, "done"))
  BY <1>3, <1>7, <1>9, <1>12, <1>16 DEF Unregister
<1>21. ASSUME NEW d \in Clients \ {c}, NEW t \in Services,
              Removing(client[d], t) \/ (t \in lifecycle.members /\ Storing(client[d], t))
       PROVE  KeepsStorage(lifecycle.services[t], step.st.services[t])
  <2>1. t # s
    BY <1>5, <1>6, <1>21, HoldersApart
  <2> QED
    BY <1>19, <2>1 DEF KeepsStorages
<1> QED
  BY <1>18, <1>20, <1>21, GoneOwner

\* Where a dispatched call may go.
LEMMA NextStages ==
  ASSUME NEW call \in Operation, NEW step, NEW stage, stage = NextStage(call, step)
  PROVE  /\ stage \in {"await", "release", "reserving", "work", "stopping", "done"}
         /\ stage \in {"release", "reserving"} => call.op = "destroy"
         /\ stage = "work" => call.op = "storage" /\ Rejected(call.id) \notin step.out
         /\ stage = "stopping" => call.op = "stop"
<1>1. CASE Waiting(call)
  BY <1>1 DEF NextStage
<1>2. CASE ~Waiting(call) /\ call.op = "destroy"
  BY <1>2 DEF NextStage
<1>3. CASE ~Waiting(call) /\ call.op = "storage"
  BY <1>3 DEF NextStage
<1>4. CASE ~Waiting(call) /\ call.op = "stop"
  BY <1>4 DEF NextStage
<1>5. CASE ~Waiting(call) /\ call.op \notin {"destroy", "storage", "stop"}
  BY <1>5 DEF NextStage
<1> QED
  BY <1>1, <1>2, <1>3, <1>4, <1>5

\* A call is dispatched; storage work begins only where nobody had the storage.
LEMMA EnterOwner ==
  ASSUME OwnerInv, NEW c \in Clients, Enter(c)
  PROVE  OwnerInv'
<1>1. lifecycle \in SoundState /\ client \in [Clients -> Caller]
  BY OwnerParts
<1>2. client[c].at = "gate"
  BY DEF Enter
<1>3. PICK call \in Operation : call = client[c].call /\ call.id \in Services
  BY <1>2, CallOf
<1>4. PICK step : step = Reduced(c, call)
  OBVIOUS
<1>5. step \in Reductions(lifecycle)
  BY <1>1, <1>3, <1>4, ReducedReduces
<1>6. /\ Advances(lifecycle, step.st, step.out, {})
      /\ step.st \in SoundState /\ step.st.members \subseteq lifecycle.members
      /\ \A s \in Services : KeepsStorage(lifecycle.services[s], step.st.services[s])
  BY <1>5 DEF Reductions, KeepsStorages, Reduces, Advances
<1>7. PICK stage : stage = NextStage(call, step)
  OBVIOUS
<1>8. /\ stage \in {"await", "release", "reserving", "work", "stopping", "done"}
      /\ stage \in {"release", "reserving"} => call.op = "destroy"
      /\ stage = "work" => call.op = "storage" /\ Rejected(call.id) \notin step.out
      /\ stage = "stopping" => call.op = "stop"
  BY <1>7, NextStages
<1>9. CASE stage = "done"
  <2>1. Dispatch(step, timers, Goes(c, "done"))
    BY <1>3, <1>4, <1>7, <1>9 DEF Enter
  <2> QED
    BY <1>6, <2>1, GoneOwner
<1>10. CASE stage # "done"
  <2>1. PICK A \in SUBSET Services : A = WaitIds(call)
    <3>1. WaitIds(call) \subseteq Services
      BY <1>3 DEF WaitIds, prerequisiteClosure
    <3> QED
      BY <3>1
  <2>2. PICK b \in BOOLEAN : b = (Rejected(call.id) \in step.out)
    <3>1. (Rejected(call.id) \in step.out) \in BOOLEAN
      OBVIOUS
    <3> QED
      BY <3>1, Zenon
  <2>3. PICK g \in Nat : g = IF stage = "stopping" THEN step.st.services[call.id].phase.generation ELSE 0
    BY <1>3, <1>6, SoundFields
  <2>4. PICK r : r = [client[c] EXCEPT !.at = stage, !.awaiting = A, !.failed = b, !.generation = g]
    OBVIOUS
  <2>5. r \in Caller /\ r.call = call /\ r.at = stage
    BY <1>1, <1>3, <1>8, <2>4 DEF Caller, Stages
  <2>6. PICK callers : callers = [client EXCEPT ![c] = r]
    OBVIOUS
  <2>7. /\ callers \in [Clients -> Caller] /\ callers[c] = r
        /\ \A d \in Clients \ {c} : callers[d] = client[d]
    BY <1>1, <2>5, <2>6
  <2>8. Dispatch(step, timers, callers)
    BY <1>3, <1>4, <1>7, <1>10, <2>1, <2>2, <2>3, <2>4, <2>6 DEF Enter
  <2>9. Orderly(callers[c])
    BY <1>3, <1>8, <1>10, <2>5, <2>7 DEF Orderly, Operation
  <2>10. callers[c].at # "done" => client[c].at # "done" /\ callers[c].call = client[c].call
    BY <1>2, <1>3, <2>5, <2>7
  <2>11. \A s \in Services : ~Removing(callers[c], s)
    BY <1>8, <2>5, <2>7 DEF Removing
  <2>12. ASSUME NEW s \in step.st.members, Storing(callers[c], s)
         PROVE  /\ ~lifecycle.services[s].storageReserved
                /\ step.st.services[s].storageReserved
                /\ step.st.services[s].destroy # "reserved"
    <3>1. call.op = "storage" /\ call.id = s /\ stage = "work"
      BY <1>8, <2>5, <2>7, <2>12 DEF Storing
    <3>2. Rejected(call.id) \notin Reduced(c, call).out /\ call.id \in lifecycle.members
      BY <1>4, <1>6, <1>8, <3>1
    <3> QED
      BY <1>1, <1>4, <3>1, <3>2, StorageEntered
  <2> QED
    BY <1>6, <2>7, <2>8, <2>9, <2>10, <2>11, <2>12, DispatchedOwner
<1> QED
  BY <1>9, <1>10

-----------------------------------------------------------------------------
\* A caller's step alone, or with its part in the execution lock.
LEMMA MovedOwner ==
  ASSUME OwnerInv, NEW c \in Clients, NEW r, GoesOn(client[c], r, lifecycle),
         client' = [client EXCEPT ![c] = r], UNCHANGED <<lifecycle, timers>>,
         OwnStep \/ UNCHANGED serviceVars
  PROVE  OwnerInv'
<1>1. /\ lifecycle \in SoundState /\ client \in [Clients -> Caller] /\ CallsInv
      /\ timers \in TimersType
  BY OwnerParts
<1>2. Bounded
  BY OwnBounded
<1>3. CallsInv' /\ client' \in [Clients -> Caller]
  BY <1>1, MovedCalls
<1> QED
  BY <1>1, <1>2, <1>3, OwnerParts DEF Bounded

\* Where a call may go on.
LEMMA ArrivesOn ==
  ASSUME NEW caller \in Caller, Orderly(caller), caller.at \notin {"new", "done"},
         NEW at \in Stages \ {"new", "done", "stopping", "work", "reserving", "remove"},
         at = "working" => caller.at = "work",
         at = "removing" => caller.at = "remove",
         at = "unregister" => caller.at = "removing",
         at = "release" => \/ caller.at \in {"work", "working", "release"}
                           \/ caller.call.op = "destroy",
         NEW st
  PROVE  GoesOn(caller, Arrive(caller, at), st)
<1>1. PICK r : r = Arrive(caller, at)
  OBVIOUS
<1>2. r \in Caller /\ r.at = at /\ r.call = caller.call
  BY <1>1, ArriveFields
<1>3. Orderly(r)
  BY <1>2 DEF Orderly, Stages
<1>4. \A s : Removing(r, s) => Removing(caller, s)
  BY <1>2 DEF Removing, Stages
<1>5. \A s : Storing(r, s) => Storing(caller, s)
  BY <1>2 DEF Storing, Stages
<1> QED
  BY <1>1, <1>2, <1>3, <1>4, <1>5 DEF GoesOn

\* A call may end.
LEMMA DoneGoesOn ==
  ASSUME NEW caller, NEW st
  PROVE  GoesOn(caller, Arrive(caller, "done"), st)
BY DoneCaller DEF GoesOn

\* A caller that only moves on to its next stage.
LEMMA GoesOwner ==
  ASSUME OwnerInv, NEW c \in Clients, NEW at, client' = Goes(c, at),
         UNCHANGED <<lifecycle, timers>>, OwnStep \/ UNCHANGED serviceVars,
         \/ at = "done"
         \/ /\ client[c].at \notin {"new", "done"}
            /\ \/ at \in {"open", "withdraw"}
               \/ at = "release" /\ (client[c].at \in {"work", "working"} \/ client[c].call.op = "destroy")
               \/ at = "working" /\ client[c].at = "work"
               \/ at = "removing" /\ client[c].at = "remove"
               \/ at = "unregister" /\ client[c].at = "removing"
  PROVE  OwnerInv'
<1>1. client[c] \in Caller /\ Orderly(client[c])
  BY OwnerParts DEF CallsInv, CallsAreOrderly
<1>2. GoesOn(client[c], Arrive(client[c], at), lifecycle)
  <2>1. CASE at = "done"
    BY <2>1, DoneGoesOn
  <2>2. CASE at # "done"
    <3>1. at \in Stages \ {"new", "done", "stopping", "work", "reserving", "remove"}
      BY <2>2 DEF Stages
    <3> QED
      BY <1>1, <2>2, <3>1, ArrivesOn
  <2> QED
    BY <2>1, <2>2
<1>3. PICK r : r = Arrive(client[c], at)
  OBVIOUS
<1>4. client' = [client EXCEPT ![c] = r]
  BY <1>3 DEF Goes
<1> QED
  BY <1>2, <1>3, <1>4, MovedOwner

\* An admission.
LEMMA AdmittedOwner ==
  ASSUME OwnerInv, NEW c \in Clients, Admitted(c)
  PROVE  OwnerInv'
<1>1. PICK at \in {"open", "done"} : at = IF Traffic(client[c].call) THEN "open" ELSE "done"
  OBVIOUS
<1>2. /\ client' = Goes(c, at) /\ client[c].at = "await"
      /\ UNCHANGED <<lifecycle, timers>> /\ UNCHANGED serviceVars
  BY <1>1 DEF Admitted, Moved
<1> QED
  BY <1>1, <1>2, GoesOwner

\* A budget that ends, and a wait that fails.
LEMMA ExpiresOwner ==
  ASSUME OwnerInv, NEW c \in Clients, Expires(c) \/ Fails(c)
  PROVE  OwnerInv'
<1>1. PICK at \in {"withdraw", "done"} : client' = Goes(c, at)
  BY DEF Expires, Fails, Moved
<1>2. /\ client[c].at \in {"gate", "await"}
      /\ UNCHANGED <<lifecycle, timers>> /\ UNCHANGED serviceVars
  BY DEF Expires, Fails, Moved
<1> QED
  BY <1>1, <1>2, GoesOwner

\* A caller that goes away.
LEMMA CancelOwner ==
  ASSUME OwnerInv, NEW c \in Clients, Cancel(c)
  PROVE  OwnerInv'
<1>1. UNCHANGED <<lifecycle, timers>> /\ UNCHANGED serviceVars
  BY DEF Cancel, Moved
<1>2. CASE client[c].at = "gate"
  <2>1. PICK at \in {"release", "done"} :
          client' = Goes(c, at) /\ (at = "release" => client[c].call.op = "destroy")
    BY <1>2 DEF Cancel, Moved
  <2> QED
    BY <1>1, <1>2, <2>1, GoesOwner
<1>3. CASE client[c].at = "await"
  <2>1. client' = Goes(c, "withdraw")
    BY <1>3 DEF Cancel, Moved
  <2> QED
    BY <1>1, <1>3, <2>1, GoesOwner
<1>4. CASE client[c].at = "stopping"
  <2>1. client' = Goes(c, "done")
    BY <1>4 DEF Cancel, Moved
  <2> QED
    BY <1>1, <2>1, GoesOwner
<1>5. CASE client[c].at \in {"work", "reserving", "remove"}
  <2>1. client' = Goes(c, "release")
    BY <1>5 DEF Cancel, Moved
  <2>2. Orderly(client[c])
    BY <1>5, CallOf
  <2>3. client[c].at = "work" \/ client[c].call.op = "destroy"
    BY <1>5, <2>2 DEF Orderly
  <2> QED
    BY <1>1, <1>5, <2>1, <2>3, GoesOwner
<1> QED
  BY <1>2, <1>3, <1>4, <1>5 DEF Cancel

\* A watcher that looks for the first time.
LEMMA ObserveOwner ==
  ASSUME OwnerInv, NEW c \in Clients, Observe(c)
  PROVE  OwnerInv'
<1>1. PICK r : r = Seen(client[c], lifecycle)
  OBVIOUS
<1>2. client[c] \in Caller /\ Orderly(client[c]) /\ lifecycle \in SoundState
  BY OwnerParts DEF CallsInv, CallsAreOrderly
<1>3. GoesOn(client[c], r, lifecycle)
  BY <1>1, <1>2, SeenGoesOn DEF Observe
<1>4. /\ client' = [client EXCEPT ![c] = r]
      /\ UNCHANGED <<lifecycle, timers>> /\ UNCHANGED serviceVars
  BY <1>1 DEF Observe, Moved
<1> QED
  BY <1>3, <1>4, MovedOwner

\* Data work begins and ends under the execution lock.
LEMMA DataWorkOwner ==
  ASSUME OwnerInv, NEW c \in Clients, DataWork(c) \/ DataWorkEnds(c)
  PROVE  OwnerInv'
<1>1. client[c].at \in {"work", "remove", "working", "removing"}
  BY DEF DataWork, DataWorkEnds
<1>2. PICK s \in Services : s = client[c].call.id
  BY <1>1, CallOf
<1>3. Orderly(client[c])
  BY <1>1, CallOf
<1>4. UNCHANGED <<lifecycle, timers>>
  BY DEF DataWork, DataWorkEnds
<1>5. OwnStep
  BY <1>2 DEF OwnStep, DataWork, DataWorkEnds
<1>6. CASE DataWork(c)
  <2>1. PICK at : at = IF client[c].at = "work" THEN "working" ELSE "removing"
    OBVIOUS
  <2>2. client' = Goes(c, at) /\ client[c].at \in {"work", "remove"}
    BY <1>6, <2>1 DEF DataWork
  <2> QED
    BY <1>4, <1>5, <2>1, <2>2, GoesOwner
<1>7. CASE DataWorkEnds(c)
  <2>1. client[c].at \in {"working", "removing"}
    BY <1>7 DEF DataWorkEnds
  <2>2. PICK at : /\ client' = Goes(c, at)
                  /\ \/ at = "release"
                     \/ at = "unregister" /\ client[c].at = "removing"
    BY <1>7 DEF DataWorkEnds
  <2>3. client[c].at = "removing" => client[c].call.op = "destroy"
    BY <1>3 DEF Orderly
  <2> QED
    BY <1>4, <1>5, <2>1, <2>2, <2>3, GoesOwner
<1> QED
  BY <1>6, <1>7

\* A call is made.
LEMMA CallOwner ==
  ASSUME OwnerInv, NEW c \in Clients, Call(c)
  PROVE  OwnerInv'
<1>1. PICK call \in Operations[c] :
        /\ call.op = "destroy" => \A other \in Clients : ~Destroying(other)
        /\ Moved(IF \/ call.id \notin lifecycle.members
                    \/ call.op = "destroy" /\ DependentsConfigured(call.id) # {}
                   THEN Goes(c, "done")
                   ELSE [client EXCEPT ![c] = [NewCaller EXCEPT !.call = call, !.at = "gate"]])
  BY DEF Call
<1>2. call \in Operation
  BY OrchestratorAssumption
<1>3. UNCHANGED <<lifecycle, timers>> /\ UNCHANGED serviceVars
  BY <1>1 DEF Moved
<1>4. CASE client' = Goes(c, "done")
  BY <1>3, <1>4, GoesOwner
<1>5. CASE client' = [client EXCEPT ![c] = [NewCaller EXCEPT !.call = call, !.at = "gate"]]
  <2>1. PICK r : r = [NewCaller EXCEPT !.call = call, !.at = "gate"]
    OBVIOUS
  <2>2. r \in Caller /\ r.call = call /\ r.at = "gate"
    BY <1>2, <2>1 DEF NewCaller, Caller, Stages
  <2>3. Orderly(r) /\ \A s : ~Removing(r, s) /\ ~Storing(r, s)
    BY <1>2, <2>2 DEF Orderly, Operation, Removing, Storing
  <2>4. /\ lifecycle \in SoundState /\ client \in [Clients -> Caller] /\ CallsInv
        /\ timers \in TimersType /\ lifecycle.members \subseteq Services
    BY OwnerParts, SoundMembers
  <2>5. client'[c] = r /\ \A d \in Clients \ {c} : client'[d] = client[d]
    BY <1>5, <2>1, <2>4
  <2>6. \A d \in Clients \ {c} : GoesOn(client[d], client'[d], lifecycle')
    <3>1. \A d \in Clients : Orderly(client[d])
      BY <2>4 DEF CallsInv, CallsAreOrderly
    <3> QED
      BY <2>4, <2>5, <3>1, SameGoesOn
  <2>7. Destroying(c)' => \A d \in Clients \ {c} : ~Destroying(d)
    BY <1>1, <2>2, <2>5 DEF Destroying
  <2>8. \A s \in Services : ~Removing(client'[c], s) /\ ~Storing(client'[c], s)
    BY <2>3, <2>5
  <2>9. \A s \in lifecycle'.members : ~Storing(client'[c], s)
    BY <1>3, <2>4, <2>8
  <2>10. \A s \in Services : KeptStorage(s)
    BY <1>3 DEF KeptStorage, KeepsStorage
  <2>11. Orderly(client'[c])
    BY <2>3, <2>5
  <2>12. lifecycle' \in SoundState /\ lifecycle'.members \subseteq lifecycle.members
    BY <1>3, <2>4
  <2>13. CallsInv'
    BY <2>4, <2>6, <2>7, <2>8, <2>9, <2>10, <2>11, <2>12, CallsStep
  <2>14. client' \in [Clients -> Caller]
    BY <1>5, <2>1, <2>2, <2>4
  <2>15. Bounded
    BY <1>3, OwnBounded
  <2> QED
    BY <1>3, <2>4, <2>13, <2>14, <2>15, OwnerParts DEF Bounded
<1> QED
  BY <1>1, <1>4, <1>5 DEF Moved

-----------------------------------------------------------------------------
(* The theorems.                                                           *)

\* The invariant holds initially.
LEMMA InitOwner == OrchestratorInit => OwnerInv
<1> SUFFICES ASSUME OrchestratorInit
             PROVE  OwnerInv
  OBVIOUS
<1>1. lifecycle \in SoundState /\ LastGeneration = [s \in Services |-> 0]
  <2>1. \A intent \in {"lazy", "stopped"} : initialService(intent) \in ServiceState
    BY DEF initialService, ServiceState, initialBreaker, Stopped, PhaseOf, Phase
  <2>2. \A intent : SoundService(initialService(intent), 1)
    BY FS_EmptySet DEF initialService, SoundService, Stopped, PhaseOf
  <2>3. PICK sv : sv = [s \in Services |-> initialService(IF s \in Armed THEN "lazy" ELSE "stopped")]
    OBVIOUS
  <2>4. sv \in [Services -> ServiceState] /\ \A s \in Services : SoundService(sv[s], 1)
    BY <2>1, <2>2, <2>3
  <2>5. lifecycle = [members |-> Services, services |-> sv, generationCounters |-> [s \in Services |-> 1]]
    BY <2>3 DEF OrchestratorInit
  <2> QED
    BY <2>4, <2>5 DEF SoundState, LifecycleState, Sound, LastGeneration
<1>2. timers \in TimersType /\ client \in [Clients -> Caller]
  BY DEF OrchestratorInit, TimersType, NoTimer, IdleTimer, NewCaller, Caller, Stages
<1>3. BoundaryInv(LastGeneration)
  <2>1. TypeOK
    BY Constructors DEF OrchestratorInit, Init, TypeOK, NoSession, Session
  <2> QED
    BY <1>1, <2>1 DEF OrchestratorInit, Init, NoSession, BoundaryInv, KnownGenerations, OneLaunch,
       AcquiredOnce, StopsFence, ReportsAreTrue, OverIsFinal, Held
<1>4. AccountedFor
  BY <1>1 DEF AccountedFor
<1>5. CallsInv
  <2>1. \A c \in Clients : client[c] = NewCaller
    BY DEF OrchestratorInit
  <2> QED
    BY <2>1 DEF NewCaller, NoOperation, CallsInv, CallsAreOrderly, ReservationsAreHeld, Orderly,
       Destroying, Removing, Storing
<1> QED
  BY <1>1, <1>2, <1>3, <1>4, <1>5, OwnerParts

\* Every step preserves it.
LEMMA NextOwner == OwnerInv /\ [Next]_vars => OwnerInv'
<1> SUFFICES ASSUME OwnerInv, [Next]_vars
             PROVE  OwnerInv'
  OBVIOUS
<1>1. ASSUME UNCHANGED lifecycleVars, OwnStep \/ UNCHANGED serviceVars
      PROVE  OwnerInv'
  <2>1. Bounded
    BY <1>1, OwnBounded DEF lifecycleVars
  <2>2. CallsInv'
    BY <1>1, OwnerParts DEF lifecycleVars, CallsInv, CallsAreOrderly, ReservationsAreHeld, Destroying
  <2> QED
    BY <1>1, <2>1, <2>2, OwnerParts DEF Bounded, lifecycleVars
<1>2. CASE \E c \in commands : Begin(c) /\ UNCHANGED lifecycleVars
  BY <1>1, <1>2 DEF OwnStep
<1>3. CASE \E f \in fibers : Run(f) /\ UNCHANGED lifecycleVars
  BY <1>1, <1>3 DEF OwnStep
<1>4. CASE \E f \in fibers : Deliver(f)
  BY <1>4, DeliverOwner
<1>5. CASE \E s \in Services : RuntimeExits(s) /\ UNCHANGED lifecycleVars
  BY <1>1, <1>5 DEF OwnStep
<1>6. CASE \E s \in Services : IdleTimerFires(s)
  BY <1>6, IdleTimerOwner
<1>7. CASE \E x \in timers.cooldown : CooldownTimerFires(x[1], x[2])
  BY <1>7, CooldownTimerOwner
<1>8. ASSUME NEW c \in Clients, ClientStep(c)
      PROVE  OwnerInv'
  <2>1. CASE CallerStep(c)
    BY <2>1, EnterOwner, ObserveOwner, AdmittedOwner, ExpiresOwner, WithdrawOwner, DataWorkOwner,
       UnregisterOwner, ReleaseOwner DEF CallerStep
  <2> QED
    BY <1>8, <2>1, CallOwner, ExpiresOwner, CancelOwner, CloseOwner DEF ClientStep
<1>9. CASE UNCHANGED vars
  BY <1>1, <1>9 DEF vars
<1> QED
  BY <1>2, <1>3, <1>4, <1>5, <1>6, <1>7, <1>8, <1>9 DEF Next

\* The inductive invariant of the composition: the reducer's state, the executions
\* and the callers agree, for every graph, every set of clients and all they call
\* (Orchestrator.ts:548-612).
THEOREM OwnerInvariant == Spec => []OwnerInv
BY InitOwner, NextOwner, PTL DEF Spec

\* The owner's state is what Lifecycle.ts:24-113 and Orchestrator.ts:176-224 declare.
THEOREM OwnerTypeCorrect == Spec => []OrchestratorTypeOK
<1>1. OwnerInv => OrchestratorTypeOK
  BY DEF OwnerInv
<1> QED
  BY <1>1, OwnerInvariant, PTL

\* Resources held are those of a launched generation, so the phase says so.
LEMMA HeldIsAccountedFor ==
  ASSUME OwnerInv, NEW s \in Services, Held(s)
  PROVE  /\ isUpOrWindingDown(PhaseAt(s))
         /\ PhaseAt(s).generation = session[s].generation
<1>1. lifecycle \in SoundState /\ BoundaryInv(LastGeneration) /\ AccountedFor
  BY OwnerParts
<1>2. PICK g \in Nat : g = session[s].generation /\ g # 0 /\ g <= LastGeneration[s]
  BY <1>1 DEF BoundaryInv, TypeOK, Session, KnownGenerations, Held
<1>3. LastGeneration[s] \in Nat
  BY <1>1, LastGenerations
<1>4. g \in 1..LastGeneration[s] /\ MayHold(s, g)
  BY <1>2, <1>3 DEF MayHold
<1> QED
  BY <1>1, <1>2, <1>4 DEF AccountedFor, GenerationOf

\* Whatever launches, fails, stops, restarts and is removed meanwhile, runtime
\* resources exist only for the generation whose phase says so, so a replacement
\* is never launched, and a stop or a removal never reported, over the remains of
\* another (Lifecycle.ts:763-828, Service.ts:246-351).
THEOREM ResourcesAlwaysAccountedFor == Spec => []ResourcesAreAccountedFor
<1>1. OwnerInv => ResourcesAreAccountedFor
  BY HeldIsAccountedFor DEF ResourcesAreAccountedFor
<1> QED
  BY <1>1, OwnerInvariant, PTL

\* Storage work and data removal own their service, for any number of callers of
\* either and whatever else they call: the storage is reserved, nothing of a
\* runtime is left, and no other such work is under way (Lifecycle.ts:1021-1059).
THEOREM DataWorkAlwaysExclusive == Spec => []DataWorkIsExclusive
<1>1. ASSUME OwnerInv, NEW s \in lifecycle.members, NEW c \in Clients, AtData(c, s)
      PROVE  /\ lifecycle.services[s].storageReserved
             /\ ~Held(s)
             /\ \A other \in Clients : AtData(other, s) => other = c
  <2>1. /\ lifecycle \in SoundState /\ CallsInv /\ s \in Services
    BY <1>1, OwnerParts, SoundMembers
  <2>2. SoundService(lifecycle.services[s], lifecycle.generationCounters[s])
    BY <2>1, SoundFields
  <2>3. ASSUME NEW d \in Clients, AtData(d, s)
        PROVE  Removing(client[d], s) \/ Storing(client[d], s)
    <3>1. client[d].call \in Operation /\ Orderly(client[d])
      BY <1>1, <2>3, CallOf DEF AtData
    <3>2. client[d].call.id = s
      BY <2>3 DEF AtData
    <3>3. CASE client[d].at \in {"work", "working"}
      <4>1. client[d].call.op = "storage"
        BY <3>1, <3>3 DEF Orderly
      <4> QED
        BY <3>1, <3>2, <3>3, <4>1 DEF Storing, Operation
    <3>4. CASE client[d].at \in {"remove", "removing"}
      <4>1. client[d].call.op = "destroy"
        BY <3>1, <3>4 DEF Orderly
      <4> QED
        BY <3>1, <3>2, <3>4, <4>1 DEF Removing, Operation
    <3> QED
      BY <2>3, <3>3, <3>4 DEF AtData
  <2>4. ASSUME NEW d \in Clients, Removing(client[d], s)
        PROVE  /\ lifecycle.services[s].destroy = "reserved"
               /\ lifecycle.services[s].storageReserved
               /\ Destroying(d)
    BY <2>1, <2>2, <2>4 DEF CallsInv, ReservationsAreHeld, SoundService, Removing, Destroying
  <2>5. ASSUME NEW d \in Clients, Storing(client[d], s)
        PROVE  /\ lifecycle.services[s].destroy # "reserved"
               /\ lifecycle.services[s].storageReserved
               /\ \A e \in Clients : Storing(client[e], s) => e = d
    BY <1>1, <2>1, <2>5 DEF CallsInv, ReservationsAreHeld
  <2>6. lifecycle.services[s].storageReserved
    BY <1>1, <2>3, <2>4, <2>5
  <2>7. ~Held(s)
    <3>1. lifecycle.services[s].phase.tag = "Stopped"
      BY <2>2, <2>6 DEF SoundService
    <3> QED
      BY <1>1, <2>1, <3>1, HeldIsAccountedFor DEF isUpOrWindingDown, PhaseAt
  <2>8. ASSUME NEW d \in Clients, AtData(d, s)
        PROVE  d = c
    <3>1. Removing(client[c], s) \/ Storing(client[c], s)
      BY <1>1, <2>3
    <3>2. Removing(client[d], s) \/ Storing(client[d], s)
      BY <2>3, <2>8
    <3>3. CASE Removing(client[c], s) /\ Removing(client[d], s)
      BY <2>1, <2>4, <3>3 DEF CallsInv, CallsAreOrderly
    <3>4. CASE Storing(client[c], s) /\ Storing(client[d], s)
      BY <2>5, <3>4
    <3> QED
      BY <2>4, <2>5, <3>1, <3>2, <3>3, <3>4
  <2> QED
    BY <2>6, <2>7, <2>8
<1>2. OwnerInv => DataWorkIsExclusive
  BY <1>1 DEF DataWorkIsExclusive
<1> QED
  BY <1>2, OwnerInvariant, PTL

\* What is neither a service's own nor a report touches no execution.
LEMMA OthersStutter ==
  ASSUME OwnerInv, NEW c \in Clients, ClientStep(c)
  PROVE  OwnStep \/ UNCHANGED <<session, ended, fibers>>
<1>1. CASE DataWork(c) \/ DataWorkEnds(c)
  <2>1. client[c].call.id \in Services
    BY <1>1, CallOf DEF DataWork, DataWorkEnds
  <2> QED
    BY <1>1, <2>1 DEF OwnStep, DataWork, DataWorkEnds
<1> QED
  BY <1>1 DEF ClientStep, CallerStep, Call, Enter, Observe, Admitted, Fails, Expires,
     Withdraw, Close, Cancel, Unregister, Release, Moved, Dispatch, serviceVars

\* Under the reducer too, a readiness check runs only in the health scope of the
\* session it checks (Service.ts:215-231).
THEOREM ChecksAlwaysCurrent == Spec => []ChecksBelongToLiveSession
<1>1. Spec => ChecksBelongToLiveSession
  BY DEF Spec, OrchestratorInit, Init, ChecksBelongToLiveSession
<1>2. OwnerInv /\ ChecksBelongToLiveSession /\ [Next]_vars => ChecksBelongToLiveSession'
  <2> SUFFICES ASSUME OwnerInv, ChecksBelongToLiveSession, [Next]_vars
               PROVE  ChecksBelongToLiveSession'
    OBVIOUS
  <2>0. PICK b \in [Services -> Nat] : BoundaryInv(b)
    BY OwnerParts, LastGenerations
  <2>1. ASSUME UNCHANGED <<fibers, session>>
        PROVE  ChecksBelongToLiveSession'
    BY <2>1 DEF ChecksBelongToLiveSession
  <2>2. ASSUME OwnStep
        PROVE  ChecksBelongToLiveSession'
    BY <2>0, <2>2, ChecksStep
  <2>3. ASSUME NEW f \in fibers, Deliver(f)
        PROVE  ChecksBelongToLiveSession'
    BY <2>0, <2>3, ChecksStep DEF Deliver
  <2>4. ASSUME NEW c \in Clients, ClientStep(c)
        PROVE  OwnStep \/ UNCHANGED <<fibers, session>>
    BY <2>4, OthersStutter
  <2>5. ASSUME NEW s, IdleTimerFires(s)
        PROVE  UNCHANGED <<fibers, session>>
    BY <2>5 DEF IdleTimerFires, Dispatch
  <2>6. ASSUME NEW s, NEW t, CooldownTimerFires(s, t)
        PROVE  UNCHANGED <<fibers, session>>
    BY <2>6 DEF CooldownTimerFires, Dispatch
  <2>7. CASE UNCHANGED vars
    BY <2>1, <2>7 DEF vars, serviceVars
  <2>8. CASE \/ \E c \in commands : Begin(c) /\ UNCHANGED lifecycleVars
             \/ \E f \in fibers : Run(f) /\ UNCHANGED lifecycleVars
             \/ \E s \in Services : RuntimeExits(s) /\ UNCHANGED lifecycleVars
    BY <2>2, <2>8 DEF OwnStep
  <2> QED
    BY <2>1, <2>2, <2>3, <2>4, <2>5, <2>6, <2>7, <2>8 DEF Next
<1>3. Spec => [][Next]_vars
  BY DEF Spec
<1> QED
  BY <1>1, <1>2, <1>3, OwnerInvariant, PTL

-----------------------------------------------------------------------------
(* The whole composition keeps what the boundary promises the reducer.     *)

Promise == INSTANCE Execution WITH
  Generations <- Generation,
  holder      <- Holder,
  over        <- [s \in Services |-> {g \in Generation : <<s, g>> \in ended}]

\* A fiber is of a service and a generation.
LEMMA FiberKnown ==
  ASSUME OwnerInv, NEW f \in fibers
  PROVE  f.id \in Services /\ f.generation \in Generation
BY OwnerParts DEF BoundaryInv, TypeOK, Fiber

\* What a service does by itself acquires, releases, or stutters.
LEMMA OwnStepRefines ==
  ASSUME OwnerInv, OwnStep
  PROVE  [Promise!Next]_Promise!vars
<1>0. PICK b \in [Services -> Nat] : BoundaryInv(b)
  BY OwnerParts, LastGenerations
<1>1. /\ ended' = ended
      /\ \/ Holder' = Holder
         \/ \E f \in fibers : Takes(f)
         \/ \E s \in Services : Frees(s)
  BY <1>0, OwnStepHolders
<1>2. CASE Holder' = Holder
  BY <1>1, <1>2 DEF Promise!vars
<1>3. ASSUME NEW f \in fibers, Takes(f)
      PROVE  Promise!Next
  <2>1. Promise!Acquire(f.id, f.generation)
    BY <1>1, <1>3, FiberKnown DEF Takes, Promise!Acquire
  <2> QED
    BY <1>3, <2>1, FiberKnown DEF Promise!Next
<1>4. ASSUME NEW s \in Services, Frees(s)
      PROVE  Promise!Next
  BY <1>1, <1>4 DEF Frees, Promise!Release, Promise!Next
<1> QED
  BY <1>1, <1>2, <1>3, <1>4

\* Delivering the end of a generation is Execution's ReportOver.
LEMMA DeliverRefines ==
  ASSUME OwnerInv, NEW f \in fibers, Deliver(f)
  PROVE  [Promise!Next]_Promise!vars
<1>1. f.id \in Services /\ f.generation \in Generation /\ UNCHANGED session
  BY FiberKnown DEF Deliver, Delivered
<1>2. Holder' = Holder
  BY <1>1 DEF Holder
<1>3. CASE UNCHANGED ended
  BY <1>2, <1>3 DEF Promise!vars
<1>4. CASE /\ OutcomeOf(f) \in {"Exited", "LaunchFailed"}
           /\ ended' = ended \union {<<f.id, f.generation>>}
  <2>1. session[f.id].generation # f.generation
    BY <1>4, OwnerParts DEF Deliver, Delivered, BoundaryInv, ReportsAreTrue
  <2>2. Holder[f.id] # f.generation
    BY <1>1, <2>1 DEF Holder
  <2>3. \A s \in Services : {g \in Generation : <<s, g>> \in ended'}
          = IF s = f.id THEN {g \in Generation : <<s, g>> \in ended} \union {f.generation}
                        ELSE {g \in Generation : <<s, g>> \in ended}
    BY <1>1, <1>4
  <2>4. [s \in Services |-> {g \in Generation : <<s, g>> \in ended'}]
          = [[s \in Services |-> {g \in Generation : <<s, g>> \in ended}]
               EXCEPT ![f.id] = @ \union {f.generation}]
    BY <1>1, <2>3
  <2>5. Promise!ReportOver(f.id, f.generation)
    BY <1>2, <2>2, <2>4 DEF Promise!ReportOver
  <2> QED
    BY <1>1, <2>5 DEF Promise!Next
<1> QED
  BY <1>3, <1>4 DEF Deliver, Delivered

\* Under the reducer itself, whatever it is asked, a generation reported over holds
\* no resources and never acquires any again, and one session is cleaned before
\* another is acquired: the composition implements Execution without a bound on
\* the generations (Service.ts:159, 178; Orchestrator.ts:548-612).
THEOREM OwnerKeepsPromise == Spec => Promise!Spec
<1>1. OrchestratorInit => Promise!Init
  BY DEF OrchestratorInit, Init, Promise!Init, NoSession, Holder
<1>2. OwnerInv /\ [Next]_vars => [Promise!Next]_Promise!vars
  <2> SUFFICES ASSUME OwnerInv, [Next]_vars
               PROVE  [Promise!Next]_Promise!vars
    OBVIOUS
  <2>1. ASSUME UNCHANGED <<session, ended>>
        PROVE  [Promise!Next]_Promise!vars
    BY <2>1 DEF Promise!vars, Holder
  <2>2. ASSUME OwnStep
        PROVE  [Promise!Next]_Promise!vars
    BY <2>2, OwnStepRefines
  <2>3. CASE \E f \in fibers : Deliver(f)
    BY <2>3, DeliverRefines
  <2>4. CASE \E c \in Clients : ClientStep(c)
    BY <2>1, <2>2, <2>4, OthersStutter
  <2>5. CASE \/ \E s \in Services : IdleTimerFires(s)
             \/ \E x \in timers.cooldown : CooldownTimerFires(x[1], x[2])
    <3>1. UNCHANGED <<session, ended>> 
      <4>1. CASE \E s \in Services : IdleTimerFires(s)
        BY <4>1 DEF IdleTimerFires, Dispatch
      <4>2. CASE \E x \in timers.cooldown : CooldownTimerFires(x[1], x[2])
        BY <4>2 DEF CooldownTimerFires, Dispatch
      <4> QED
        BY <2>5, <4>1, <4>2
    <3> QED
      BY <2>1, <3>1
  <2>6. CASE UNCHANGED vars
    BY <2>1, <2>6 DEF vars, serviceVars
  <2>7. CASE \/ \E c \in commands : Begin(c) /\ UNCHANGED lifecycleVars
             \/ \E f \in fibers : Run(f) /\ UNCHANGED lifecycleVars
             \/ \E s \in Services : RuntimeExits(s) /\ UNCHANGED lifecycleVars
    BY <2>2, <2>7 DEF OwnStep
  <2> QED
    BY <2>3, <2>4, <2>5, <2>6, <2>7 DEF Next
<1> QED
  BY <1>1, <1>2, OwnerInvariant, PTL DEF Spec, Promise!Spec
-----------------------------------------------------------------------------
(* What the reducer commands, as the executions it forks.                  *)

\* A forked execution is one that was commanded.
LEMMA ForkedIs ==
  ASSUME NEW out, NEW c \in Forked(out)
  PROVE  /\ c.op \in {"Launch", "Stop", "Reprobe"}
         /\ \E x \in out : x.tag = c.op /\ x.id = c.id /\ x.generation = c.generation
BY DEF Forked, Tagged

\* A command is forked.
LEMMA ForkedHas ==
  ASSUME NEW out, NEW s, NEW g
  PROVE  /\ LifecycleCommand("Launch", s, g) \in out => LaunchCommand(s, g) \in Forked(out)
         /\ LifecycleCommand("Reprobe", s, g) \in out => ReprobeCommand(s, g) \in Forked(out)
         /\ Stop(s, g) \in out => StopCommand(s, g) \in Forked(out)
<1>1. ASSUME NEW tag \in {"Launch", "Stop", "Reprobe"}, LifecycleCommand(tag, s, g) \in out
      PROVE  [op |-> tag, id |-> s, generation |-> g] \in Forked(out)
  <2>1. PICK x \in out : x = LifecycleCommand(tag, s, g)
    BY <1>1
  <2>2. x.tag = tag /\ x.id = s /\ x.generation = g
    BY <2>1 DEF LifecycleCommand
  <2>3. x \in Tagged(out, "Launch") \union Tagged(out, "Stop") \union Tagged(out, "Reprobe")
    BY <2>2 DEF Tagged
  <2> QED
    BY <2>2, <2>3 DEF Forked
<1> QED
  BY <1>1 DEF LaunchCommand, ReprobeCommand, StopCommand, Stop

\* The executions a reduction forks.
LEMMA ReducedForked ==
  ASSUME NEW st \in SoundState, NEW new, NEW out, Reduces(st, new, out), NEW c \in Forked(out)
  PROVE  /\ c.id \in Services /\ c.generation \in Nat
         /\ c.generation < new.generationCounters[c.id]
         /\ c.op = "Launch" => c.generation = st.generationCounters[c.id]
         /\ c.op = "Stop" => ~UpAt(new.services[c.id], c.generation)
         /\ c.op = "Reprobe" =>
              /\ UpAt(st.services[c.id], c.generation)
              /\ st.services[c.id].readinessFailure
              /\ ~st.services[c.id].reprobing
              /\ UpAt(new.services[c.id], c.generation) => new.services[c.id].reprobing
<1>1. PICK x \in out : x.tag = c.op /\ x.id = c.id /\ x.generation = c.generation
  BY ForkedIs
<1>2. c.op \in {"Launch", "Stop", "Reprobe"} /\ Advances(st, new, out, {})
  BY ForkedIs DEF Reduces
<1>3. x.id \in Services /\ x.generation \in Nat
  BY <1>1, <1>2 DEF Advances, LifecycleCommands
<1>4. /\ st.generationCounters[x.id] \in Nat /\ new.generationCounters[x.id] \in Nat
  BY <1>2, <1>3, CountersGrow
<1>5. x.tag = "Launch" => /\ x.generation = st.generationCounters[x.id]
                          /\ new.generationCounters[x.id] = st.generationCounters[x.id] + 1
  BY <1>2, <1>3 DEF Advances, ServiceAdvances
<1>6. x.tag \in {"Stop", "Reprobe"} => x.generation \in 1..(new.generationCounters[x.id] - 1)
  BY <1>2 DEF Advances
<1>7. x.generation < new.generationCounters[x.id]
  BY <1>1, <1>2, <1>3, <1>4, <1>5, <1>6
<1>8. /\ x.tag = "Stop" => ~UpAt(new.services[x.id], x.generation)
      /\ x.tag = "Reprobe" =>
           /\ UpAt(st.services[x.id], x.generation)
           /\ st.services[x.id].readinessFailure /\ ~st.services[x.id].reprobing
           /\ UpAt(new.services[x.id], x.generation) => new.services[x.id].reprobing
  BY DEF Reduces, ReducedOut
<1> QED
  BY <1>1, <1>3, <1>5, <1>7, <1>8

\* A generation that was launched before is up only as it was.
LEMMA ReducedOld ==
  ASSUME NEW st \in SoundState, NEW new, NEW out, Reduces(st, new, out), NEW s \in Services, NEW g,
         g < st.generationCounters[s], UpAt(new.services[s], g)
  PROVE  /\ UpAt(st.services[s], g)
         /\ Kept(s, st.services[s], new.services[s], out)
<1>1. Kept(s, st.services[s], new.services[s], out) \/ Fresh(s, new.services[s], out)
  BY DEF Reduces, ReducedService, UpAt
<1>2. ASSUME Fresh(s, new.services[s], out)
      PROVE  FALSE
  <2>1. PICK h : h = new.services[s].phase.generation
    OBVIOUS
  <2>2. LifecycleCommand("Launch", s, h) \in out /\ Advances(st, new, out, {})
    BY <1>2, <2>1 DEF Fresh, Reduces
  <2>3. h = st.generationCounters[s] /\ h \in Nat
    BY <2>2, FreshIsNew, CountersGrow
  <2> QED
    BY <2>1, <2>3 DEF UpAt
<1> QED
  BY <1>1, <1>2 DEF UpAt, Kept, Stoppable

\* Commands and fibers of the boundary.
Executions(cs, fs) == cs \subseteq Command /\ fs \subseteq Fiber

\* An execution is of a service and of a generation.
LEMMA ExecutionFields ==
  ASSUME NEW cs, NEW fs, Executions(cs, fs)
  PROVE  /\ \A c \in cs : c.id \in Services /\ c.generation \in Nat \ {0}
         /\ \A f \in fs : f.id \in Services /\ f.generation \in Nat \ {0}
BY DEF Executions, Command, Fiber, Generation

-----------------------------------------------------------------------------
(* A reduction keeps the executions and the phases together.               *)

\* Its commands are of launched generations.
LEMMA ReducedLaunched ==
  ASSUME NEW st \in SoundState, NEW new, NEW out, Reduces(st, new, out), NEW cs, NEW fs,
         Executions(cs, fs), Launched(st, cs, fs), stoppedThrough \in [Services -> Nat]
  PROVE  Launched(new, cs \union Forked(out), fs)
<1>1. Advances(st, new, out, {})
  BY DEF Reduces
<1>2. \A s \in Services : /\ st.generationCounters[s] \in Nat /\ new.generationCounters[s] \in Nat
                          /\ st.generationCounters[s] <= new.generationCounters[s]
  BY <1>1, CountersGrow
<1>3. ASSUME NEW x \in cs \union fs
      PROVE  x.generation < new.generationCounters[x.id]
  <2>1. x.id \in Services /\ x.generation \in Nat
    BY ExecutionFields
  <2>2. x.generation < st.generationCounters[x.id]
    BY DEF Launched
  <2> QED
    BY <1>2, <2>1, <2>2
<1>4. ASSUME NEW x \in Forked(out)
      PROVE  x.generation < new.generationCounters[x.id]
  BY ReducedForked
<1>5. ASSUME NEW s \in Services
      PROVE  stoppedThrough[s] < new.generationCounters[s]
  <2>1. stoppedThrough[s] < st.generationCounters[s] /\ stoppedThrough[s] \in Nat
    BY DEF Launched
  <2> QED
    BY <1>2, <2>1
<1> QED
  BY <1>3, <1>4, <1>5 DEF Launched

\* It stops nothing that stays up.
LEMMA ReducedStops ==
  ASSUME NEW st \in SoundState, NEW new, NEW out, Reduces(st, new, out), NEW cs, NEW fs,
         Executions(cs, fs), Launched(st, cs, fs), StopsAreDue(st, cs, fs)
  PROVE  StopsAreDue(new, cs \union Forked(out), fs)
<1>1. ASSUME NEW c \in cs \union Forked(out), c.op = "Stop"
      PROVE  ~UpAt(new.services[c.id], c.generation)
  <2>1. CASE c \in Forked(out)
    BY <1>1, <2>1, ReducedForked
  <2>2. CASE c \in cs
    <3>1. c.id \in Services /\ c.generation < st.generationCounters[c.id]
      BY <2>2, ExecutionFields DEF Launched
    <3>2. ~UpAt(st.services[c.id], c.generation)
      BY <1>1, <2>2 DEF StopsAreDue
    <3> QED
      BY <3>1, <3>2, ReducedOld
  <2> QED
    BY <2>1, <2>2
<1>2. ASSUME NEW f \in fs, f.kind = "stop" \/ (f.kind = "exit" /\ f.at # "lost")
      PROVE  ~UpAt(new.services[f.id], f.generation)
  <2>1. f.id \in Services /\ f.generation < st.generationCounters[f.id]
    BY ExecutionFields DEF Launched
  <2>2. ~UpAt(st.services[f.id], f.generation)
    BY <1>2 DEF StopsAreDue
  <2> QED
    BY <2>1, <2>2, ReducedOld
<1>3. ASSUME NEW s \in Services, Stoppable(new.services[s])
      PROVE  stoppedThrough[s] < new.services[s].phase.generation
  <2>1. CASE Kept(s, st.services[s], new.services[s], out)
    BY <1>3, <2>1 DEF Kept, Stoppable, StopsAreDue
  <2>2. CASE Fresh(s, new.services[s], out)
    <3>1. PICK h : h = new.services[s].phase.generation
      OBVIOUS
    <3>2. LifecycleCommand("Launch", s, h) \in out /\ Advances(st, new, out, {})
      BY <2>2, <3>1 DEF Fresh, Reduces
    <3>3. h = st.generationCounters[s]
      BY <3>2, FreshIsNew
    <3> QED
      BY <3>1, <3>3 DEF Launched
  <2> QED
    BY <1>3, <2>1, <2>2 DEF Reduces, ReducedService
<1> QED
  BY <1>1, <1>2, <1>3 DEF StopsAreDue

\* A launch it commands finds its generation starting, and one under way still does.
LEMMA ReducedLaunches ==
  ASSUME NEW st \in SoundState, NEW new, NEW out, Reduces(st, new, out), NEW cs, NEW fs,
         Executions(cs, fs), Launched(st, cs, fs), LaunchesAreFirst(st, cs, fs)
  PROVE  LaunchesAreFirst(new, cs \union Forked(out), fs)
<1>1. ASSUME NEW s \in Services, Kept(s, st.services[s], new.services[s], out), Unchecked(st.services[s])
      PROVE  Unchecked(new.services[s]) /\ new.services[s].phase = st.services[s].phase
  BY <1>1 DEF Kept, Unchecked
<1>2. ASSUME NEW c \in cs \union Forked(out), c.op = "Launch", UpAt(new.services[c.id], c.generation)
      PROVE  new.services[c.id].phase.tag = "Starting" /\ Unchecked(new.services[c.id])
  <2>1. CASE c \in Forked(out)
    <3>1. c.id \in Services /\ c.generation = st.generationCounters[c.id]
      BY <1>2, <2>1, ReducedForked
    <3>2. ASSUME Kept(c.id, st.services[c.id], new.services[c.id], out)
          PROVE  FALSE
      <4>1. UpAt(st.services[c.id], c.generation) /\ Advances(st, new, out, {})
        BY <1>2, <3>2 DEF Kept, UpAt, Stoppable, Reduces
      <4>2. st.services[c.id].phase.generation < st.generationCounters[c.id]
            /\ st.generationCounters[c.id] \in Nat
        BY <3>1, <4>1, CountersGrow DEF UpAt
      <4> QED
        BY <3>1, <4>1, <4>2 DEF UpAt
    <3>3. Fresh(c.id, new.services[c.id], out)
      BY <1>2, <3>1, <3>2 DEF Reduces, ReducedService, UpAt
    <3> QED
      BY <3>3 DEF Fresh
  <2>2. CASE c \in cs
    <3>1. c.id \in Services /\ c.generation < st.generationCounters[c.id]
      BY <2>2, ExecutionFields DEF Launched
    <3>2. UpAt(st.services[c.id], c.generation) /\ Kept(c.id, st.services[c.id], new.services[c.id], out)
      BY <1>2, <3>1, ReducedOld
    <3>3. st.services[c.id].phase.tag = "Starting" /\ Unchecked(st.services[c.id])
      BY <1>2, <2>2, <3>2 DEF LaunchesAreFirst
    <3> QED
      BY <1>1, <3>1, <3>2, <3>3
  <2> QED
    BY <2>1, <2>2
<1>3. ASSUME NEW f \in fs, f.kind = "launch", UpAt(new.services[f.id], f.generation)
      PROVE  /\ f.at \in Unreported => new.services[f.id].phase.tag = "Starting"
             /\ Unchecked(new.services[f.id])
  <2>1. f.id \in Services /\ f.generation < st.generationCounters[f.id]
    BY ExecutionFields DEF Launched
  <2>2. UpAt(st.services[f.id], f.generation) /\ Kept(f.id, st.services[f.id], new.services[f.id], out)
    BY <1>3, <2>1, ReducedOld
  <2>3. /\ f.at \in Unreported => st.services[f.id].phase.tag = "Starting"
        /\ Unchecked(st.services[f.id])
    BY <1>3, <2>2 DEF LaunchesAreFirst
  <2> QED
    BY <1>1, <2>1, <2>2, <2>3
<1> QED
  BY <1>2, <1>3 DEF LaunchesAreFirst

\* A check it commands is awaited, and one under way still is.
LEMMA ReducedChecks ==
  ASSUME NEW st \in SoundState, NEW new, NEW out, Reduces(st, new, out), NEW cs, NEW fs,
         Executions(cs, fs), Launched(st, cs, fs), ChecksAreAwaited(st, cs, fs)
  PROVE  ChecksAreAwaited(new, cs \union Forked(out), fs)
<1>1. ASSUME NEW c \in cs \union Forked(out), c.op = "Reprobe", UpAt(new.services[c.id], c.generation)
      PROVE  new.services[c.id].reprobing
  <2>1. CASE c \in Forked(out)
    BY <1>1, <2>1, ReducedForked
  <2>2. CASE c \in cs
    <3>1. c.id \in Services /\ c.generation < st.generationCounters[c.id]
      BY <2>2, ExecutionFields DEF Launched
    <3>2. UpAt(st.services[c.id], c.generation) /\ Kept(c.id, st.services[c.id], new.services[c.id], out)
      BY <1>1, <3>1, ReducedOld
    <3> QED
      BY <1>1, <2>2, <3>2 DEF ChecksAreAwaited, Kept
  <2> QED
    BY <2>1, <2>2
<1>2. ASSUME NEW f \in fs, f.kind = "reprobe", UpAt(new.services[f.id], f.generation)
      PROVE  new.services[f.id].reprobing
  <2>1. f.id \in Services /\ f.generation < st.generationCounters[f.id]
    BY ExecutionFields DEF Launched
  <2>2. UpAt(st.services[f.id], f.generation) /\ Kept(f.id, st.services[f.id], new.services[f.id], out)
    BY <1>2, <2>1, ReducedOld
  <2> QED
    BY <1>2, <2>2 DEF ChecksAreAwaited, Kept
<1> QED
  BY <1>1, <1>2 DEF ChecksAreAwaited

\* It commands no check of a generation that is launched or checked, and no launch
\* of one that is.
LEMMA ReducedOneCheck ==
  ASSUME NEW st \in SoundState, NEW new, NEW out, Reduces(st, new, out), NEW cs, NEW fs,
         Executions(cs, fs), Launched(st, cs, fs), LaunchesAreFirst(st, cs, fs),
         ChecksAreAwaited(st, cs, fs), OneCheck(cs, fs)
  PROVE  OneCheck(cs \union Forked(out), fs)
<1>0. \A s \in Services : st.generationCounters[s] \in Nat
  BY CountersGrow DEF Reduces
<1>1. ASSUME NEW s \in Services, NEW g \in Nat, g < st.generationCounters[s]
      PROVE  LaunchCommand(s, g) \notin Forked(out)
  <2>1. LaunchCommand(s, g).op = "Launch" /\ LaunchCommand(s, g).id = s
        /\ LaunchCommand(s, g).generation = g
    BY DEF LaunchCommand
  <2>2. g # st.generationCounters[s]
    BY <1>0, <1>1
  <2> QED
    BY <2>1, <2>2, ReducedForked
<1>2. ASSUME NEW s, NEW g, ReprobeCommand(s, g) \in Forked(out)
      PROVE  /\ UpAt(st.services[s], g)
             /\ st.services[s].readinessFailure /\ ~st.services[s].reprobing
  <2>1. ReprobeCommand(s, g).op = "Reprobe" /\ ReprobeCommand(s, g).id = s
        /\ ReprobeCommand(s, g).generation = g
    BY DEF ReprobeCommand
  <2> QED
    BY <1>2, <2>1, ReducedForked
<1>3. ASSUME NEW f \in fs, f.kind = "reprobe"
      PROVE  /\ ReprobeCommand(f.id, f.generation) \notin cs \union Forked(out)
             /\ LaunchCommand(f.id, f.generation) \notin cs \union Forked(out)
             /\ \A h \in fs : h.kind \in {"launch", "reprobe"} /\ Same(f, h) => h = f
  <2>1. f.id \in Services /\ f.generation \in Nat /\ f.generation < st.generationCounters[f.id]
    BY ExecutionFields DEF Launched
  <2>2. ReprobeCommand(f.id, f.generation) \notin Forked(out)
    BY <1>2, <1>3 DEF ChecksAreAwaited
  <2> QED
    BY <1>1, <1>3, <2>1, <2>2 DEF OneCheck
<1>4. ASSUME NEW c \in cs \union Forked(out), c.op = "Reprobe"
      PROVE  /\ LaunchCommand(c.id, c.generation) \notin cs \union Forked(out)
             /\ \A h \in fs : h.kind = "launch" => ~Same(c, h)
  <2>1. CASE c \in cs
    <3>1. c.id \in Services /\ c.generation \in Nat /\ c.generation < st.generationCounters[c.id]
      BY <2>1, ExecutionFields DEF Launched
    <3> QED
      BY <1>1, <1>4, <2>1, <3>1 DEF OneCheck
  <2>2. CASE c \in Forked(out)
    <3>1. /\ c.id \in Services /\ c.generation \in Nat
          /\ UpAt(st.services[c.id], c.generation) /\ st.services[c.id].readinessFailure
      BY <1>4, <2>2, ReducedForked
    <3>2. c.generation < st.generationCounters[c.id]
      BY <3>1, CountersGrow DEF Reduces, UpAt
    <3>3. LaunchCommand(c.id, c.generation) \notin cs
      <4>1. LaunchCommand(c.id, c.generation).op = "Launch"
            /\ LaunchCommand(c.id, c.generation).id = c.id
            /\ LaunchCommand(c.id, c.generation).generation = c.generation
        BY DEF LaunchCommand
      <4> QED
        BY <3>1, <4>1 DEF LaunchesAreFirst, Unchecked
    <3>4. \A h \in fs : h.kind = "launch" => ~Same(c, h)
      BY <3>1 DEF LaunchesAreFirst, Unchecked, Same
    <3> QED
      BY <1>1, <3>1, <3>2, <3>3, <3>4
  <2> QED
    BY <2>1, <2>2
<1> QED
  BY <1>3, <1>4 DEF OneCheck

\* What runs after it ran before.
LEMMA ReducedSessions ==
  ASSUME NEW st \in SoundState, NEW new, NEW out, Reduces(st, new, out), NEW cs, NEW fs,
         Executions(cs, fs), Launched(st, cs, fs), SessionsRun(st, fs)
  PROVE  SessionsRun(new, fs)
<1>1. ASSUME NEW s \in Services, new.services[s].phase.tag = "Running"
      PROVE  HasSession(s, new.services[s].phase.generation)
  <2>1. new.services[s].phase = st.services[s].phase
    BY <1>1 DEF Reduces, ReducedService, Stoppable, Kept, Fresh
  <2> QED
    BY <1>1, <2>1 DEF SessionsRun
<1>2. ASSUME NEW f \in fs, UpAt(new.services[f.id], f.generation)
      PROVE  UpAt(st.services[f.id], f.generation)
  <2>1. f.id \in Services /\ f.generation < st.generationCounters[f.id]
    BY ExecutionFields DEF Launched
  <2> QED
    BY <1>2, <2>1, ReducedOld
<1> QED
  BY <1>1, <1>2 DEF SessionsRun

\* What it leaves waiting has its execution, old or newly commanded.
LEMMA ReducedDriven ==
  ASSUME NEW st \in SoundState, NEW new, NEW out, Reduces(st, new, out), NEW cs, NEW fs,
         Driven(st, cs, fs)
  PROVE  Driven(new, cs \union Forked(out), fs)
<1>1. SUFFICES ASSUME NEW s \in new.members
               PROVE  Awaits(new.services[s], s, cs \union Forked(out), fs)
  BY DEF Driven
<1>2. s \in st.members /\ s \in Services
  BY SoundMembers DEF Reduces, Advances
<1>3. PICK p : p = st.services[s]
  OBVIOUS
<1>4. PICK q : q = new.services[s]
  OBVIOUS
<1>5. Awaits(p, s, cs, fs) /\ ReducedService(s, p, q, out)
  BY <1>2, <1>3, <1>4 DEF Driven, Reduces
<1>6. PICK g : g = q.phase.generation
  OBVIOUS
<1>7. ASSUME q.phase.tag = "Starting"
      PROVE  LaunchUnderWay(s, g, cs \union Forked(out), fs)
  <2>1. CASE Kept(s, p, q, out)
    BY <1>5, <1>6, <1>7, <2>1 DEF Kept, Awaits, LaunchUnderWay
  <2>2. CASE Fresh(s, q, out)
    BY <1>6, <2>2, ForkedHas DEF Fresh, LaunchUnderWay
  <2> QED
    BY <1>5, <1>7, <2>1, <2>2 DEF ReducedService, Stoppable
<1>8. ASSUME q.phase.tag = "Stopping", ~q.cleanupFailure
      PROVE  StopUnderWay(s, g, cs \union Forked(out), fs)
  <2>1. CASE WindsDown(p) /\ q.phase.generation = p.phase.generation
    BY <1>5, <1>6, <2>1 DEF WindsDown, Awaits, StopUnderWay
  <2>2. CASE Stop(s, g) \in out
    BY <2>2, ForkedHas DEF StopUnderWay
  <2> QED
    BY <1>5, <1>6, <1>8, <2>1, <2>2 DEF ReducedService, WindsDown
<1>9. ASSUME q.phase.tag = "Running", q.reprobing
      PROVE  CheckUnderWay(s, g, cs \union Forked(out), fs)
  <2>1. Kept(s, p, q, out)
    BY <1>5, <1>9 DEF ReducedService, Stoppable, Fresh
  <2>2. CASE q.reprobing = p.reprobing
    BY <1>5, <1>6, <1>9, <2>1, <2>2 DEF Kept, Awaits, CheckUnderWay
  <2>3. CASE LifecycleCommand("Reprobe", s, g) \in out
    BY <2>3, ForkedHas DEF CheckUnderWay
  <2> QED
    BY <1>6, <2>1, <2>2, <2>3 DEF Kept
<1> QED
  BY <1>4, <1>6, <1>7, <1>8, <1>9 DEF Awaits

\* Together: a reduction keeps the executions and the phases in step.
LEMMA ReducedCoheres ==
  ASSUME NEW st \in SoundState, NEW new, NEW out, Reduces(st, new, out), NEW cs, NEW fs,
         Executions(cs, fs), stoppedThrough \in [Services -> Nat], Coherent(st, cs, fs)
  PROVE  Coherent(new, cs \union Forked(out), fs)
<1>1. Rooted(new) /\ Newest(new)
  BY DEF Coherent, Reduces
<1>2. Launched(new, cs \union Forked(out), fs)
  BY ReducedLaunched DEF Coherent
<1>3. StopsAreDue(new, cs \union Forked(out), fs)
  BY ReducedStops DEF Coherent
<1>4. LaunchesAreFirst(new, cs \union Forked(out), fs)
  BY ReducedLaunches DEF Coherent
<1>5. ChecksAreAwaited(new, cs \union Forked(out), fs)
  BY ReducedChecks DEF Coherent
<1>6. OneCheck(cs \union Forked(out), fs)
  BY ReducedOneCheck DEF Coherent
<1>7. SessionsRun(new, fs)
  BY ReducedSessions DEF Coherent
<1>8. Driven(new, cs \union Forked(out), fs)
  BY ReducedDriven DEF Coherent
<1> QED
  BY <1>1, <1>2, <1>3, <1>4, <1>5, <1>6, <1>7, <1>8 DEF Coherent
-----------------------------------------------------------------------------
(* A service's own step leaves the phases to the executions behind them.   *)

\* What both invariants say of a fiber and of a phase.
LEMMA FollowFacts ==
  ASSUME OwnerInv, ExecutionsFollow
  PROVE  /\ lifecycle \in SoundState /\ Executions(commands, fibers)
         /\ stoppedThrough \in [Services -> Nat] /\ session \in [Services -> Session]
         /\ \A x \in commands \union fibers :
              /\ x.id \in Services /\ x.generation \in Nat \ {0}
              /\ x.generation < lifecycle.generationCounters[x.id]
              /\ PhaseAt(x.id).tag # "Stopped" => x.generation <= GenerationOf(x.id)
         /\ \A s \in Services :
              /\ lifecycle.generationCounters[s] \in Nat /\ GenerationOf(s) \in Nat
              /\ stoppedThrough[s] < lifecycle.generationCounters[s]
              /\ PhaseAt(s).tag # "Stopped" => /\ GenerationOf(s) # 0
                                               /\ stoppedThrough[s] <= GenerationOf(s)
<1>1. /\ lifecycle \in SoundState /\ Executions(commands, fibers)
      /\ stoppedThrough \in [Services -> Nat] /\ session \in [Services -> Session]
  BY OwnerParts DEF BoundaryInv, TypeOK, Executions
<1>2. Newest(lifecycle) /\ Launched(lifecycle, commands, fibers)
  BY DEF ExecutionsFollow, Coherent
<1>3. ASSUME NEW s \in Services
      PROVE  /\ lifecycle.generationCounters[s] \in Nat /\ GenerationOf(s) \in Nat
             /\ stoppedThrough[s] < lifecycle.generationCounters[s]
             /\ PhaseAt(s).tag # "Stopped" => /\ GenerationOf(s) # 0
                                              /\ GenerationOf(s) = lifecycle.generationCounters[s] - 1
  <2>1. /\ lifecycle.generationCounters[s] \in Nat /\ lifecycle.services[s].phase.generation \in Nat
        /\ SoundService(lifecycle.services[s], lifecycle.generationCounters[s])
    BY <1>1, SoundFields
  <2> QED
    BY <1>2, <2>1 DEF Newest, Launched, SoundService, PhaseAt, GenerationOf
<1>4. \A x \in commands \union fibers :
        /\ x.id \in Services /\ x.generation \in Nat \ {0}
        /\ x.generation < lifecycle.generationCounters[x.id]
  BY <1>1, <1>2, ExecutionFields DEF Launched
<1>5. \A x \in commands \union fibers :
        PhaseAt(x.id).tag # "Stopped" => x.generation <= GenerationOf(x.id)
  BY <1>3, <1>4
<1>6. \A s \in Services : PhaseAt(s).tag # "Stopped" => stoppedThrough[s] <= GenerationOf(s)
  <2>1. \A s \in Services : stoppedThrough[s] \in Nat
    BY <1>1
  <2> QED
    BY <1>3, <2>1
<1> QED
  BY <1>1, <1>3, <1>4, <1>5, <1>6

\* The phases wait for what they waited for.
LEMMA DrivenStep ==
  ASSUME Driven(lifecycle, commands, fibers), UNCHANGED lifecycle,
         ASSUME NEW s \in lifecycle.members, NEW g, g = GenerationOf(s)
         PROVE  /\ PhaseAt(s).tag = "Starting" /\ LaunchUnderWay(s, g, commands, fibers) =>
                     LaunchUnderWay(s, g, commands', fibers')
                /\ PhaseAt(s).tag = "Stopping" /\ StopUnderWay(s, g, commands, fibers) =>
                     StopUnderWay(s, g, commands, fibers)'
                /\ PhaseAt(s).tag = "Running" /\ CheckUnderWay(s, g, commands, fibers) =>
                     CheckUnderWay(s, g, commands', fibers')
  PROVE  Driven(lifecycle, commands, fibers)'
<1>1. ASSUME NEW s \in lifecycle.members
      PROVE  Awaits(lifecycle.services[s], s, commands, fibers)'
  <2>1. PICK g : g = GenerationOf(s)
    OBVIOUS
  <2>2. PICK service : service = lifecycle.services[s]
    OBVIOUS
  <2>3. service.phase = PhaseAt(s) /\ service.phase.generation = g
    BY <2>1, <2>2 DEF PhaseAt, GenerationOf
  <2>4. Awaits(service, s, commands, fibers)
    BY <2>2 DEF Driven
  <2>5. /\ PhaseAt(s).tag = "Starting" => LaunchUnderWay(s, g, commands', fibers')
        /\ PhaseAt(s).tag = "Stopping" /\ ~service.cleanupFailure =>
             StopUnderWay(s, g, commands, fibers)'
        /\ PhaseAt(s).tag = "Running" /\ service.reprobing => CheckUnderWay(s, g, commands', fibers')
    BY <2>1, <2>3, <2>4 DEF Awaits
  <2> QED
    BY <2>2, <2>3, <2>5 DEF Awaits, LaunchUnderWay, CheckUnderWay, StopUnderWay, UnderWay
<1> QED
  BY <1>1 DEF Driven

\* A fiber gone, or at its next step.
Onward(f) ==
  \A x \in fibers' :
    \/ x \in fibers
    \/ /\ f \notin fibers'
       /\ x.kind = f.kind /\ x.id = f.id /\ x.generation = f.generation
       /\ x.at \in Unreported => f.at \in Unreported
       /\ f.at # "lost"
       /\ \A y \in fibers' : y \notin fibers => y = x

\* Of the executions themselves, nothing else is new.
LEMMA OnwardFollows ==
  ASSUME OwnerInv, ExecutionsFollow, NEW f \in fibers, Onward(f), UNCHANGED <<lifecycle, commands>>
  PROVE  /\ Rooted(lifecycle)' /\ Newest(lifecycle)'
         /\ \A x \in fibers' : /\ x.generation < lifecycle.generationCounters[x.id]
                               /\ x.kind = "stop" \/ (x.kind = "exit" /\ x.at # "lost") =>
                                    ~UpAt(lifecycle.services[x.id], x.generation)
         /\ LaunchesAreFirst(lifecycle, commands, fibers)'
         /\ ChecksAreAwaited(lifecycle, commands, fibers)'
         /\ OneCheck(commands, fibers)'
<1>1. /\ Rooted(lifecycle) /\ Newest(lifecycle) /\ Launched(lifecycle, commands, fibers)
      /\ StopsAreDue(lifecycle, commands, fibers)
      /\ LaunchesAreFirst(lifecycle, commands, fibers)
      /\ ChecksAreAwaited(lifecycle, commands, fibers) /\ OneCheck(commands, fibers)
  BY DEF ExecutionsFollow, Coherent
<1>2. Rooted(lifecycle)' /\ Newest(lifecycle)'
  BY <1>1 DEF Rooted, Newest
<1>3. ASSUME NEW x \in fibers'
      PROVE  \E w \in fibers : /\ w.kind = x.kind /\ w.id = x.id /\ w.generation = x.generation
                               /\ x.at \in Unreported => w.at \in Unreported
                               /\ x.at # "lost" => w.at # "lost"
  BY <1>3 DEF Onward
<1>4. ASSUME NEW x \in fibers'
      PROVE  /\ x.generation < lifecycle.generationCounters[x.id]
             /\ x.kind = "stop" \/ (x.kind = "exit" /\ x.at # "lost") =>
                  ~UpAt(lifecycle.services[x.id], x.generation)
  BY <1>1, <1>3 DEF Launched, StopsAreDue
<1>5. LaunchesAreFirst(lifecycle, commands, fibers)'
  <2>1. ASSUME NEW x \in fibers', x.kind = "launch", UpAt(lifecycle.services[x.id], x.generation)
        PROVE  /\ x.at \in Unreported => lifecycle.services[x.id].phase.tag = "Starting"
               /\ Unchecked(lifecycle.services[x.id])
    BY <1>1, <1>3, <2>1 DEF LaunchesAreFirst
  <2> QED
    BY <1>1, <2>1 DEF LaunchesAreFirst
<1>6. ChecksAreAwaited(lifecycle, commands, fibers)'
  <2>1. ASSUME NEW x \in fibers', x.kind = "reprobe", UpAt(lifecycle.services[x.id], x.generation)
        PROVE  lifecycle.services[x.id].reprobing
    BY <1>1, <1>3, <2>1 DEF ChecksAreAwaited
  <2> QED
    BY <1>1, <2>1 DEF ChecksAreAwaited
<1>7. OneCheck(commands, fibers)'
  <2>1. ASSUME NEW x \in fibers', x.kind = "reprobe", NEW y \in fibers',
               y.kind \in {"launch", "reprobe"}, Same(x, y)
        PROVE  y = x
    <3>1. CASE x \in fibers /\ y \in fibers
      BY <1>1, <2>1, <3>1 DEF OneCheck
    <3>2. CASE x \notin fibers /\ y \notin fibers
      BY <2>1, <3>2 DEF Onward
    <3>3. CASE x \notin fibers /\ y \in fibers
      <4>1. f.kind = "reprobe" /\ Same(f, y) /\ f \notin fibers'
        BY <2>1, <3>3 DEF Onward, Same
      <4>2. y = f
        BY <1>1, <2>1, <3>3, <4>1 DEF OneCheck
      <4> QED
        BY <4>1, <4>2
    <3>4. CASE x \in fibers /\ y \notin fibers
      <4>1. f.kind = y.kind /\ Same(x, f) /\ f \notin fibers'
        BY <2>1, <3>4 DEF Onward, Same
      <4>2. f = x
        BY <1>1, <2>1, <3>4, <4>1 DEF OneCheck
      <4> QED
        BY <4>1, <4>2
    <3> QED
      BY <3>1, <3>2, <3>3, <3>4
  <2>2. ASSUME NEW x \in fibers', x.kind = "reprobe"
        PROVE  /\ ReprobeCommand(x.id, x.generation) \notin commands
               /\ LaunchCommand(x.id, x.generation) \notin commands
    BY <1>1, <1>3, <2>2 DEF OneCheck
  <2>3. ASSUME NEW c \in commands, c.op = "Reprobe"
        PROVE  /\ LaunchCommand(c.id, c.generation) \notin commands
               /\ \A x \in fibers' : x.kind = "launch" => ~Same(c, x)
    <3>1. \A w \in fibers : w.kind = "launch" => ~Same(c, w)
      BY <1>1, <2>3 DEF OneCheck
    <3>2. \A x \in fibers' : x.kind = "launch" => ~Same(c, x)
      BY <1>3, <3>1 DEF Same
    <3> QED
      BY <1>1, <2>3, <3>2 DEF OneCheck
  <2> QED
    BY <2>1, <2>2, <2>3 DEF OneCheck
<1> QED
  BY <1>2, <1>4, <1>5, <1>6, <1>7

\* So that is left to see to: the fences, the sessions, and what the phases wait for.
LEMMA OnwardCoheres ==
  ASSUME OwnerInv, ExecutionsFollow, NEW f \in fibers, Onward(f), UNCHANGED <<lifecycle, commands>>,
         \A s \in Services :
           /\ stoppedThrough'[s] < lifecycle.generationCounters[s]
           /\ Stoppable(lifecycle.services[s]) =>
                stoppedThrough'[s] < lifecycle.services[s].phase.generation,
         SessionsRun(lifecycle, fibers)', Driven(lifecycle, commands, fibers)'
  PROVE  ExecutionsFollow'
<1>1. /\ Rooted(lifecycle)' /\ Newest(lifecycle)'
      /\ LaunchesAreFirst(lifecycle, commands, fibers)'
      /\ ChecksAreAwaited(lifecycle, commands, fibers)'
      /\ OneCheck(commands, fibers)'
  BY OnwardFollows
<1>2. \A x \in fibers' : /\ x.generation < lifecycle.generationCounters[x.id]
                         /\ x.kind = "stop" \/ (x.kind = "exit" /\ x.at # "lost") =>
                              ~UpAt(lifecycle.services[x.id], x.generation)
  BY OnwardFollows
<1>3. Launched(lifecycle, commands, fibers)'
  BY <1>2 DEF ExecutionsFollow, Coherent, Launched
<1>4. StopsAreDue(lifecycle, commands, fibers)'
  BY <1>2 DEF ExecutionsFollow, Coherent, StopsAreDue
<1> QED
  BY <1>1, <1>3, <1>4 DEF ExecutionsFollow, Coherent

\* A step that leaves the fences.
LEMMA FencesKept ==
  ASSUME ExecutionsFollow, UNCHANGED stoppedThrough
  PROVE  \A s \in Services :
           /\ stoppedThrough'[s] < lifecycle.generationCounters[s]
           /\ Stoppable(lifecycle.services[s]) =>
                stoppedThrough'[s] < lifecycle.services[s].phase.generation
BY DEF ExecutionsFollow, Coherent, Launched, StopsAreDue

\* A step that leaves the sessions, and finds none.
Found == {"available", "check", "succeeded", "unready"}

\* Sessions that are kept keep what runs.
LEMMA SessionsKept ==
  ASSUME ExecutionsFollow, NEW f \in fibers, Onward(f), UNCHANGED <<lifecycle, session>>,
         \A x \in fibers' : x \notin fibers /\ x.kind = "launch" /\ x.at \in Found => f.at \in Found
  PROVE  SessionsRun(lifecycle, fibers)'
<1>1. SessionsRun(lifecycle, fibers)
  BY DEF ExecutionsFollow, Coherent
<1>2. ASSUME NEW x \in fibers', UpAt(lifecycle.services[x.id], x.generation)
      PROVE  /\ x.kind = "launch" /\ x.at \in Found => HasSession(x.id, x.generation)
             /\ x.kind = "exit" => session[x.id].generation = x.generation
  <2>1. CASE x \in fibers
    BY <1>1, <1>2, <2>1 DEF SessionsRun, Found
  <2>2. CASE x \notin fibers
    BY <1>1, <1>2, <2>2 DEF SessionsRun, Onward, Found
  <2> QED
    BY <2>1, <2>2
<1> QED
  BY <1>1, <1>2 DEF SessionsRun, HasSession, Found

\* A fiber that moves is onward.
LEMMA MovesOnward ==
  ASSUME NEW f \in Fiber, NEW at \in Working[f.kind] \union Reporting[f.kind], Moves(f, at),
         at # f.at, f.at # "lost", at \in Unreported => f.at \in Unreported
  PROVE  Onward(f)
BY AtFields DEF Moves, Onward

\* A fiber that ends lets the others go on.
LEMMA EndsOnward ==
  ASSUME NEW f, Ends(f)
  PROVE  Onward(f)
BY DEF Ends, Onward

\* What is under way still is, if the moving fiber stays at such a step.
LEMMA UnderWayMoves ==
  ASSUME NEW f \in Fiber, NEW at \in Working[f.kind] \union Reporting[f.kind], Moves(f, at),
         NEW kind, NEW s, NEW g, NEW steps, UnderWay(kind, s, g, steps, fibers),
         f.kind = kind /\ f.id = s /\ f.generation = g /\ f.at \in steps => at \in steps
  PROVE  UnderWay(kind, s, g, steps, fibers')
<1>1. PICK w \in fibers : w.kind = kind /\ w.id = s /\ w.generation = g /\ w.at \in steps
  BY DEF UnderWay
<1>2. CASE w = f
  <2>1. At(f, at) \in fibers'
    BY DEF Moves
  <2> QED
    BY <1>1, <1>2, <2>1, AtFields DEF UnderWay
<1>3. CASE w # f
  BY <1>1, <1>3 DEF UnderWay, Moves
<1> QED
  BY <1>2, <1>3

\* Or if none of those gone is it.
LEMMA UnderWayLeft ==
  ASSUME NEW gone, fibers \ gone \subseteq fibers',
         NEW kind, NEW s, NEW g, NEW steps, UnderWay(kind, s, g, steps, fibers),
         \A w \in gone : ~(w.kind = kind /\ w.id = s /\ w.generation = g /\ w.at \in steps)
  PROVE  UnderWay(kind, s, g, steps, fibers')
BY DEF UnderWay

\* The sessions that a winding down generation waits to see cleaned.
SessionsWait ==
  \A s \in Services : PhaseAt(s).tag = "Stopping" /\ session[s].generation = GenerationOf(s) =>
    session'[s].generation = GenerationOf(s)

\* A launch that its phase waits for stays unreported while it moves.
LEMMA MovesDriven ==
  ASSUME Driven(lifecycle, commands, fibers), UNCHANGED <<lifecycle, commands>>,
         lifecycle.members \subseteq Services, NEW f \in Fiber,
         NEW at \in Working[f.kind] \union Reporting[f.kind], Moves(f, at), SessionsWait,
         f.kind = "launch" /\ f.at \in Unreported => at \in Unreported,
         f.kind # "exit"
  PROVE  Driven(lifecycle, commands, fibers)'
<1>0. at \in Steps
  BY DEF Steps, Fiber
<1>1. ASSUME NEW s \in lifecycle.members, NEW g, g = GenerationOf(s)
      PROVE  /\ PhaseAt(s).tag = "Starting" /\ LaunchUnderWay(s, g, commands, fibers) =>
                  LaunchUnderWay(s, g, commands', fibers')
             /\ PhaseAt(s).tag = "Stopping" /\ StopUnderWay(s, g, commands, fibers) =>
                  StopUnderWay(s, g, commands, fibers)'
             /\ PhaseAt(s).tag = "Running" /\ CheckUnderWay(s, g, commands, fibers) =>
                  CheckUnderWay(s, g, commands', fibers')
  <2>1. UnderWay("launch", s, g, Unreported, fibers) => UnderWay("launch", s, g, Unreported, fibers')
    BY UnderWayMoves
  <2>2. UnderWay("stop", s, g, Steps, fibers) => UnderWay("stop", s, g, Steps, fibers')
    BY <1>0, UnderWayMoves
  <2>3. UnderWay("reprobe", s, g, Steps, fibers) => UnderWay("reprobe", s, g, Steps, fibers')
    BY <1>0, UnderWayMoves
  <2>4. \A steps : UnderWay("exit", s, g, steps, fibers) => UnderWay("exit", s, g, steps, fibers')
    BY UnderWayMoves
  <2>5. PhaseAt(s).tag = "Stopping" /\ session[s].generation = g => session'[s].generation = g
    BY <1>1 DEF SessionsWait
  <2>6. LaunchUnderWay(s, g, commands, fibers) => LaunchUnderWay(s, g, commands', fibers')
    BY <2>1 DEF LaunchUnderWay
  <2>7. CheckUnderWay(s, g, commands, fibers) => CheckUnderWay(s, g, commands', fibers')
    BY <2>3 DEF CheckUnderWay
  <2>8. PhaseAt(s).tag = "Stopping" /\ StopUnderWay(s, g, commands, fibers) =>
                  StopUnderWay(s, g, commands, fibers)'
    <3>1. SUFFICES ASSUME PhaseAt(s).tag = "Stopping", StopUnderWay(s, g, commands, fibers)
                   PROVE  \/ StopCommand(s, g) \in commands'
                          \/ UnderWay("stop", s, g, Steps, fibers')
                          \/ UnderWay("exit", s, g, {"exited", "stopFailed"}, fibers')
                          \/ UnderWay("exit", s, g, {"lost", "clean"}, fibers') /\ session'[s].generation = g
      BY DEF StopUnderWay, UnderWay
    <3> QED
      BY <2>2, <2>4, <2>5, <3>1 DEF StopUnderWay
  <2> QED
    BY <2>6, <2>7, <2>8
<1> QED
  BY <1>1, DrivenStep

\* A launch that a stop has passed ends: its phase waits for it no more.
LEMMA FencedDriven ==
  ASSUME OwnerInv, ExecutionsFollow, UNCHANGED <<lifecycle, commands, session>>, NEW f \in fibers,
         f.kind = "launch", Fenced(f), Ends(f)
  PROVE  Driven(lifecycle, commands, fibers)'
<1>0. /\ Driven(lifecycle, commands, fibers) /\ StopsAreDue(lifecycle, commands, fibers)
      /\ lifecycle.members \subseteq Services
  BY FollowFacts, SoundMembers DEF ExecutionsFollow, Coherent
<1>1. ASSUME NEW s \in lifecycle.members, NEW g, g = GenerationOf(s)
      PROVE  /\ PhaseAt(s).tag = "Starting" /\ LaunchUnderWay(s, g, commands, fibers) =>
                  LaunchUnderWay(s, g, commands', fibers')
             /\ PhaseAt(s).tag = "Stopping" /\ StopUnderWay(s, g, commands, fibers) =>
                  StopUnderWay(s, g, commands, fibers)'
             /\ PhaseAt(s).tag = "Running" /\ CheckUnderWay(s, g, commands, fibers) =>
                  CheckUnderWay(s, g, commands', fibers')
  <2>0. PICK gone : gone = {f} /\ fibers \ gone \subseteq fibers'
    BY DEF Ends
  <2>1. PhaseAt(s).tag = "Starting" /\ UnderWay("launch", s, g, Unreported, fibers) =>
          UnderWay("launch", s, g, Unreported, fibers')
    <3>1. ASSUME PhaseAt(s).tag = "Starting", f.id = s, f.generation = g
          PROVE  FALSE
      <4>1. stoppedThrough[s] < g /\ g <= stoppedThrough[s]
        BY <1>0, <1>1, <3>1 DEF StopsAreDue, Fenced, PhaseAt, GenerationOf, Stoppable
      <4>2. stoppedThrough[s] \in Nat /\ g \in Nat
        BY <1>0, <1>1, FollowFacts
      <4> QED
        BY <4>1, <4>2
    <3>2. SUFFICES ASSUME PhaseAt(s).tag = "Starting", UnderWay("launch", s, g, Unreported, fibers)
                   PROVE  UnderWay("launch", s, g, Unreported, fibers')
      OBVIOUS
    <3>3. \A w \in gone : ~(w.kind = "launch" /\ w.id = s /\ w.generation = g /\ w.at \in Unreported)
      BY <2>0, <3>1, <3>2
    <3> QED
      BY <2>0, <3>2, <3>3, UnderWayLeft
  <2>2. ASSUME NEW kind \in {"stop", "exit", "reprobe"}, NEW steps, UnderWay(kind, s, g, steps, fibers)
        PROVE  UnderWay(kind, s, g, steps, fibers')
    <3>1. \A w \in gone : ~(w.kind = kind /\ w.id = s /\ w.generation = g /\ w.at \in steps)
      BY <2>0
    <3> QED
      BY <2>0, <2>2, <3>1, UnderWayLeft
  <2>3. PhaseAt(s).tag = "Starting" /\ LaunchUnderWay(s, g, commands, fibers) =>
          LaunchUnderWay(s, g, commands', fibers')
    BY <2>1 DEF LaunchUnderWay
  <2>4. CheckUnderWay(s, g, commands, fibers) => CheckUnderWay(s, g, commands', fibers')
    BY <2>2 DEF CheckUnderWay
  <2>5. StopUnderWay(s, g, commands, fibers) => StopUnderWay(s, g, commands, fibers)'
    <3>1. SUFFICES ASSUME StopUnderWay(s, g, commands, fibers)
                   PROVE  \/ StopCommand(s, g) \in commands'
                          \/ UnderWay("stop", s, g, Steps, fibers')
                          \/ UnderWay("exit", s, g, {"exited", "stopFailed"}, fibers')
                          \/ UnderWay("exit", s, g, {"lost", "clean"}, fibers') /\ session'[s].generation = g
      BY DEF StopUnderWay, UnderWay
    <3> QED
      BY <2>2, <3>1 DEF StopUnderWay
  <2> QED
    BY <2>3, <2>4, <2>5
<1> QED
  BY <1>0, <1>1, DrivenStep

\* A launch is prepared, or not.
LEMMA PrepareFollows ==
  ASSUME OwnerInv, ExecutionsFollow, NEW f \in fibers, Prepare(f), UNCHANGED lifecycle
  PROVE  ExecutionsFollow'
<1>0. /\ f \in Fiber /\ f.kind = "launch" /\ f.at = "prepare"
      /\ Driven(lifecycle, commands, fibers) /\ lifecycle.members \subseteq Services
      /\ UNCHANGED <<commands, session, stoppedThrough>>
  BY FollowFacts, SoundMembers DEF Executions, Prepare, ExecutionsFollow, Coherent
<1>1. ASSUME NEW at \in {"acquire", "failed"}, Moves(f, at)
      PROVE  ExecutionsFollow'
  <2>1. at \in Working[f.kind] \union Reporting[f.kind]
    BY <1>0 DEF Working, Reporting
  <2>2. Onward(f)
    BY <1>0, <1>1, <2>1, MovesOnward DEF Unreported
  <2>3. \A x \in fibers' : x \notin fibers => x.at = at
    BY <1>0, <1>1, <2>1, AtFields DEF Moves
  <2>4. SessionsRun(lifecycle, fibers)'
    BY <1>0, <2>2, <2>3, SessionsKept DEF Found
  <2>5. SessionsWait
    BY <1>0 DEF SessionsWait
  <2>6. Driven(lifecycle, commands, fibers)'
    BY <1>0, <1>1, <2>1, <2>5, MovesDriven DEF Unreported
  <2> QED
    BY <1>0, <2>2, <2>4, <2>6, FencesKept, OnwardCoheres
<1>2. ASSUME Fenced(f), Ends(f)
      PROVE  ExecutionsFollow'
  <2>1. Onward(f) /\ \A x \in fibers' : x \in fibers
    BY <1>2, EndsOnward DEF Ends
  <2>2. SessionsRun(lifecycle, fibers)'
    BY <1>0, <2>1, SessionsKept
  <2>3. Driven(lifecycle, commands, fibers)'
    BY <1>0, <1>2, FencedDriven
  <2> QED
    BY <1>0, <2>1, <2>2, <2>3, FencesKept, OnwardCoheres
<1> QED
  BY <1>1, <1>2 DEF Prepare

\* A check ends.
LEMMA CheckFollows ==
  ASSUME OwnerInv, ExecutionsFollow, NEW f \in fibers, Check(f), UNCHANGED lifecycle
  PROVE  ExecutionsFollow'
<1>0. /\ f \in Fiber /\ f.kind \in {"launch", "reprobe"} /\ f.at = "check"
      /\ Driven(lifecycle, commands, fibers) /\ lifecycle.members \subseteq Services
      /\ UNCHANGED <<commands, session, stoppedThrough>>
  <2>1. f \in Fiber /\ f.at = "check" /\ lifecycle.members \subseteq Services
    BY FollowFacts, SoundMembers DEF Executions, Check
  <2>2. f.kind \in {"launch", "reprobe"}
    BY <2>1 DEF Fiber, Kinds, Working, Reporting
  <2> QED
    BY <2>1, <2>2 DEF Check, ExecutionsFollow, Coherent
<1>1. PICK at : /\ Moves(f, at)
                /\ at \in IF f.kind = "launch" THEN {"succeeded", "unready"} ELSE {"recovered", "unready"}
  BY DEF Check
<1>2. at \in Working[f.kind] \union Reporting[f.kind] /\ at \in {"succeeded", "recovered", "unready"}
  BY <1>0, <1>1 DEF Working, Reporting
<1>3. Onward(f)
  BY <1>0, <1>1, <1>2, MovesOnward DEF Unreported
<1>4. SessionsRun(lifecycle, fibers)'
  BY <1>0, <1>3, SessionsKept DEF Found
<1>5. SessionsWait
  BY <1>0 DEF SessionsWait
<1>6. Driven(lifecycle, commands, fibers)'
  BY <1>0, <1>1, <1>2, <1>5, MovesDriven DEF Unreported
<1> QED
  BY <1>0, <1>3, <1>4, <1>6, FencesKept, OnwardCoheres

\* A fence passes no generation that is up.
LEMMA FenceFollows ==
  ASSUME OwnerInv, ExecutionsFollow, NEW f \in fibers, Fence(f), UNCHANGED lifecycle
  PROVE  ExecutionsFollow'
<1>0. /\ f \in Fiber /\ f.kind = "stop" /\ f.at = "fence"
      /\ Driven(lifecycle, commands, fibers) /\ lifecycle.members \subseteq Services
      /\ UNCHANGED <<commands, session>> /\ Moves(f, "interrupt")
  BY FollowFacts, SoundMembers DEF Executions, Fence, ExecutionsFollow, Coherent
<1>1. "interrupt" \in Working[f.kind] \union Reporting[f.kind]
  BY <1>0 DEF Working, Reporting
<1>2. Onward(f)
  BY <1>0, <1>1, MovesOnward DEF Unreported
<1>3. SessionsRun(lifecycle, fibers)'
  BY <1>0, <1>2, SessionsKept DEF Onward
<1>4. SessionsWait
  BY <1>0 DEF SessionsWait
<1>5. Driven(lifecycle, commands, fibers)'
  BY <1>0, <1>1, <1>4, MovesDriven
<1>6. ASSUME NEW s \in Services
      PROVE  /\ stoppedThrough'[s] < lifecycle.generationCounters[s]
             /\ Stoppable(lifecycle.services[s]) =>
                  stoppedThrough'[s] < lifecycle.services[s].phase.generation
  <2>1. /\ stoppedThrough[s] < lifecycle.generationCounters[s]
        /\ Stoppable(lifecycle.services[s]) =>
             stoppedThrough[s] < lifecycle.services[s].phase.generation
        /\ ~UpAt(lifecycle.services[f.id], f.generation)
    BY <1>0 DEF ExecutionsFollow, Coherent, Launched, StopsAreDue
  <2>2. /\ f.generation \in Nat /\ f.generation < lifecycle.generationCounters[f.id]
        /\ PhaseAt(f.id).tag # "Stopped" => f.generation <= GenerationOf(f.id)
        /\ GenerationOf(s) \in Nat
    BY FollowFacts
  <2>3. stoppedThrough \in [Services -> Nat]
    BY FollowFacts
  <2>4. stoppedThrough'[s] = stoppedThrough[s] \/ (s = f.id /\ stoppedThrough'[s] = f.generation)
    BY <2>3 DEF Fence
  <2>5. ASSUME s = f.id, Stoppable(lifecycle.services[s])
        PROVE  f.generation < lifecycle.services[s].phase.generation
    <3>1. f.generation <= GenerationOf(s) /\ f.generation # GenerationOf(s)
      BY <2>1, <2>2, <2>5 DEF UpAt, Stoppable, PhaseAt, GenerationOf
    <3> QED
      BY <2>2, <3>1 DEF PhaseAt, GenerationOf
  <2> QED
    BY <2>1, <2>2, <2>4, <2>5
<1> QED
  BY <1>0, <1>2, <1>3, <1>5, <1>6, OnwardCoheres

\* What a generation may take, it takes for itself.
LEMMA AcquiredSessions ==
  ASSUME OwnerInv, ExecutionsFollow, UNCHANGED lifecycle, NEW f \in fibers, NEW r, NEW at,
         f.kind = "launch", Moves(f, at), at \in {"available", "retained"}, ~Held(f.id),
         session' = [session EXCEPT ![f.id] = r],
         at = "available" => r = LiveSession(f.generation)
  PROVE  SessionsRun(lifecycle, fibers)' /\ SessionsWait
<1>0. /\ f \in Fiber /\ f.id \in Services /\ session \in [Services -> Session]
      /\ \A s \in Services : PhaseAt(s).tag # "Stopped" => GenerationOf(s) # 0
      /\ \A x \in fibers : x.generation # 0
      /\ SessionsRun(lifecycle, fibers)
  BY FollowFacts DEF Executions, ExecutionsFollow, Coherent
<1>1. /\ session[f.id].generation = 0
      /\ session'[f.id] = r
      /\ \A s \in Services \ {f.id} : session'[s] = session[s]
  BY <1>0 DEF Held
<1>2. ASSUME NEW s \in Services, PhaseAt(s).tag = "Running"
      PROVE  s # f.id
  BY <1>0, <1>1, <1>2 DEF SessionsRun, HasSession, PhaseAt, GenerationOf
<1>3. ASSUME NEW x \in fibers', UpAt(lifecycle.services[x.id], x.generation)
      PROVE  /\ x.kind = "launch" /\ x.at \in Found => HasSession(x.id, x.generation)'
             /\ x.kind = "exit" => session'[x.id].generation = x.generation
  <2>1. at \in Working[f.kind] \union Reporting[f.kind]
    BY DEF Working, Reporting
  <2>2. CASE x \in fibers
    <3>1. /\ x.kind = "launch" /\ x.at \in Found => HasSession(x.id, x.generation)
          /\ x.kind = "exit" => session[x.id].generation = x.generation
      BY <1>0, <1>3, <2>2 DEF SessionsRun, Found
    <3>2. x.id \in Services
      BY <2>2, FollowFacts
    <3>3. CASE x.id = f.id
      BY <1>0, <1>1, <2>2, <3>1, <3>3 DEF HasSession
    <3>4. CASE x.id # f.id
      BY <1>1, <3>1, <3>2, <3>4 DEF HasSession
    <3> QED
      BY <3>3, <3>4
  <2>3. CASE x \notin fibers
    <3>1. x = At(f, at)
      BY <2>3 DEF Moves
    <3>2. x.id = f.id /\ x.generation = f.generation /\ x.at = at /\ x.kind = "launch"
      BY <1>0, <2>1, <3>1, AtFields
    <3> QED
      BY <1>1, <3>2 DEF HasSession, LiveSession, Found
  <2> QED
    BY <2>2, <2>3
<1>4. SessionsRun(lifecycle, fibers)'
  <2>1. \A s \in Services : PhaseAt(s).tag = "Running" => HasSession(s, GenerationOf(s))'
    BY <1>0, <1>1, <1>2 DEF SessionsRun, HasSession, PhaseAt, GenerationOf
  <2> QED
    BY <1>3, <2>1 DEF SessionsRun, HasSession, Found, PhaseAt, GenerationOf
<1>5. SessionsWait
  BY <1>0, <1>1 DEF SessionsWait
<1> QED
  BY <1>4, <1>5

\* A launch acquires, or fails to.
LEMMA AcquireFollows ==
  ASSUME OwnerInv, ExecutionsFollow, NEW f \in fibers, Acquire(f), UNCHANGED lifecycle
  PROVE  ExecutionsFollow'
<1>0. /\ f \in Fiber /\ f.kind = "launch" /\ f.at = "acquire"
      /\ Driven(lifecycle, commands, fibers) /\ lifecycle.members \subseteq Services
      /\ UNCHANGED <<commands, stoppedThrough>>
  BY FollowFacts, SoundMembers DEF Executions, Acquire, ExecutionsFollow, Coherent
<1>1. ASSUME NEW at \in {"available", "failed", "retained"}, Moves(f, at),
             at \in {"available", "retained"} => SessionsRun(lifecycle, fibers)' /\ SessionsWait,
             at = "failed" => UNCHANGED session
      PROVE  ExecutionsFollow'
  <2>1. at \in Working[f.kind] \union Reporting[f.kind]
    BY <1>0 DEF Working, Reporting
  <2>2. Onward(f)
    BY <1>0, <1>1, <2>1, MovesOnward DEF Unreported
  <2>3. \A x \in fibers' : x \notin fibers => x.at = at
    BY <1>0, <1>1, <2>1, AtFields DEF Moves
  <2>4. at = "failed" => SessionsRun(lifecycle, fibers)'
    BY <1>0, <1>1, <2>2, <2>3, SessionsKept DEF Found
  <2>5. at = "failed" => SessionsWait
    BY <1>1 DEF SessionsWait
  <2>6. SessionsRun(lifecycle, fibers)' /\ SessionsWait
    BY <1>1, <2>4, <2>5
  <2>7. Driven(lifecycle, commands, fibers)'
    BY <1>0, <1>1, <2>1, <2>6, MovesDriven DEF Unreported
  <2> QED
    BY <1>0, <2>2, <2>6, <2>7, FencesKept, OnwardCoheres
<1>2. ASSUME Fenced(f), Ends(f), UNCHANGED session
      PROVE  ExecutionsFollow'
  <2>1. Onward(f) /\ \A x \in fibers' : x \in fibers
    BY <1>2, EndsOnward DEF Ends
  <2>2. SessionsRun(lifecycle, fibers)'
    BY <1>0, <1>2, <2>1, SessionsKept
  <2>3. Driven(lifecycle, commands, fibers)'
    BY <1>0, <1>2, FencedDriven
  <2> QED
    BY <1>0, <2>1, <2>2, <2>3, FencesKept, OnwardCoheres
<1>3. CASE Fenced(f) /\ Ends(f) /\ UNCHANGED session
  BY <1>2, <1>3
<1>4. CASE Moves(f, "failed") /\ UNCHANGED session
  BY <1>1, <1>4
<1>5. CASE /\ ~Held(f.id) /\ Moves(f, "available")
           /\ session' = [session EXCEPT ![f.id] = LiveSession(f.generation)]
  <2>1. SessionsRun(lifecycle, fibers)' /\ SessionsWait
    BY <1>0, <1>5, AcquiredSessions
  <2> QED
    BY <1>1, <1>5, <2>1
<1>6. CASE /\ ~Held(f.id) /\ Moves(f, "retained")
           /\ session' = [session EXCEPT ![f.id] = RetainedSession(f.generation)]
  <2>1. SessionsRun(lifecycle, fibers)' /\ SessionsWait
    BY <1>0, <1>6, AcquiredSessions
  <2> QED
    BY <1>1, <1>6, <2>1
<1> QED
  BY <1>3, <1>4, <1>5, <1>6 DEF Acquire

\* What is under way still is, if a fiber that moves makes up for those gone.
LEMMA UnderWayTurns ==
  ASSUME NEW f \in Fiber, NEW at \in Working[f.kind] \union Reporting[f.kind], NEW gone,
         fibers' = (fibers \ gone) \union {At(f, at)},
         NEW kind, NEW s, NEW g, NEW steps, UnderWay(kind, s, g, steps, fibers),
         \A w \in gone : w.kind = kind /\ w.id = s /\ w.generation = g /\ w.at \in steps =>
           f.kind = kind /\ f.id = s /\ f.generation = g /\ at \in steps
  PROVE  UnderWay(kind, s, g, steps, fibers')
<1>1. PICK w \in fibers : w.kind = kind /\ w.id = s /\ w.generation = g /\ w.at \in steps
  BY DEF UnderWay
<1>2. CASE w \in gone
  <2>1. At(f, at) \in fibers'
    OBVIOUS
  <2> QED
    BY <1>1, <1>2, <2>1, AtFields DEF UnderWay
<1>3. CASE w \notin gone
  BY <1>1, <1>3 DEF UnderWay
<1> QED
  BY <1>2, <1>3

\* An interrupted launch is of a generation that no phase waits for.
LEMMA InterruptFollows ==
  ASSUME OwnerInv, ExecutionsFollow, NEW f \in fibers, InterruptAttempt(f), UNCHANGED lifecycle
  PROVE  ExecutionsFollow'
<1>0. /\ f \in Fiber /\ f.kind = "stop" /\ f.at = "interrupt"
      /\ Driven(lifecycle, commands, fibers) /\ lifecycle.members \subseteq Services
      /\ UNCHANGED <<commands, session, stoppedThrough>>
      /\ StopsAreDue(lifecycle, commands, fibers)
  BY FollowFacts, SoundMembers DEF Executions, InterruptAttempt, ExecutionsFollow, Coherent
<1>1. PICK at : at = "clean" /\ at \in Working[f.kind] \union Reporting[f.kind] /\ at \in Steps
  BY <1>0 DEF Working, Reporting, Steps, Kinds
<1>2. PICK gone : gone = {f} \union Interrupted(f)
  OBVIOUS
<1>3. fibers' = (fibers \ gone) \union {At(f, at)}
  BY <1>1, <1>2 DEF InterruptAttempt
<1>4. \A x \in fibers' : x \notin fibers => x = At(f, at)
  BY <1>3
<1>5. Onward(f)
  <2>1. f # At(f, at)
    BY <1>0, <1>1, AtFields
  <2>2. f \notin fibers'
    BY <1>2, <1>3, <2>1
  <2> QED
    BY <1>0, <1>1, <1>4, <2>2, AtFields DEF Onward, Unreported
<1>6. SessionsRun(lifecycle, fibers)'
  BY <1>0, <1>5, SessionsKept DEF Onward
<1>7. /\ f \in Fiber /\ at \in Working[f.kind] \union Reporting[f.kind]
      /\ fibers' = (fibers \ gone) \union {At(f, at)}
  BY <1>0, <1>1, <1>3
<1>8. ASSUME NEW s \in lifecycle.members, NEW g, g = GenerationOf(s)
      PROVE  /\ PhaseAt(s).tag = "Starting" /\ LaunchUnderWay(s, g, commands, fibers) =>
                  LaunchUnderWay(s, g, commands', fibers')
             /\ PhaseAt(s).tag = "Stopping" /\ StopUnderWay(s, g, commands, fibers) =>
                  StopUnderWay(s, g, commands, fibers)'
             /\ PhaseAt(s).tag = "Running" /\ CheckUnderWay(s, g, commands, fibers) =>
                  CheckUnderWay(s, g, commands', fibers')
  <2>1. ASSUME PhaseAt(s).tag = "Starting", UnderWay("launch", s, g, Unreported, fibers)
        PROVE  UnderWay("launch", s, g, Unreported, fibers')
    <3>1. ASSUME NEW w \in gone, w.kind = "launch", w.id = s, w.generation = g
          PROVE  FALSE
      <4>1. f.id = s /\ g <= f.generation
        BY <1>0, <1>2, <3>1 DEF Interrupted
      <4>2. f.generation <= g /\ f.generation \in Nat /\ g \in Nat
        BY <1>0, <1>8, <2>1, <4>1, FollowFacts
      <4>3. f.generation = g
        BY <4>1, <4>2
      <4> QED
        BY <1>0, <1>8, <2>1, <4>1, <4>3 DEF StopsAreDue, UpAt, Stoppable, PhaseAt, GenerationOf
    <3>2. PICK kind, steps : kind = "launch" /\ steps = Unreported
      OBVIOUS
    <3>3. \A w \in gone : ~(w.kind = kind /\ w.id = s /\ w.generation = g /\ w.at \in steps)
      BY <3>1, <3>2
    <3>4. UnderWay(kind, s, g, steps, fibers)
      BY <2>1, <3>2
    <3>5. \A w \in gone : w.kind = kind /\ w.id = s /\ w.generation = g /\ w.at \in steps =>
            f.kind = kind /\ f.id = s /\ f.generation = g /\ at \in steps
      BY <3>3
    <3>6. UnderWay(kind, s, g, steps, fibers')
      BY <1>7, <3>4, <3>5, UnderWayTurns
    <3> QED
      BY <3>2, <3>6
  <2>2. ASSUME NEW kind \in {"stop", "exit", "reprobe"}, NEW steps, UnderWay(kind, s, g, steps, fibers),
               kind = "stop" => steps = Steps
        PROVE  UnderWay(kind, s, g, steps, fibers')
    <3>1. \A w \in gone : w.kind = kind /\ w.id = s /\ w.generation = g /\ w.at \in steps =>
            f.kind = kind /\ f.id = s /\ f.generation = g /\ at \in steps
      BY <1>0, <1>1, <1>2, <2>2 DEF Interrupted
    <3> QED
      BY <1>7, <2>2, <3>1, UnderWayTurns
  <2>3. PhaseAt(s).tag = "Starting" /\ LaunchUnderWay(s, g, commands, fibers) =>
          LaunchUnderWay(s, g, commands', fibers')
    BY <1>0, <2>1 DEF LaunchUnderWay
  <2>4. CheckUnderWay(s, g, commands, fibers) => CheckUnderWay(s, g, commands', fibers')
    BY <1>0, <2>2 DEF CheckUnderWay
  <2>5. StopUnderWay(s, g, commands, fibers) => StopUnderWay(s, g, commands, fibers)'
    <3>1. SUFFICES ASSUME StopUnderWay(s, g, commands, fibers)
                   PROVE  \/ StopCommand(s, g) \in commands'
                          \/ UnderWay("stop", s, g, Steps, fibers')
                          \/ UnderWay("exit", s, g, {"exited", "stopFailed"}, fibers')
                          \/ UnderWay("exit", s, g, {"lost", "clean"}, fibers') /\ session'[s].generation = g
      BY DEF StopUnderWay, UnderWay
    <3> QED
      BY <1>0, <2>2, <3>1 DEF StopUnderWay
  <2> QED
    BY <2>3, <2>4, <2>5
<1>9. Driven(lifecycle, commands, fibers)'
  BY <1>0, <1>8, DrivenStep
<1> QED
  BY <1>0, <1>5, <1>6, <1>9, FencesKept, OnwardCoheres

\* A session is cleaned for a generation that is not up: whoever is up has another,
\* and what winds down waits for the cleaner's report.
LEMMA CleanUpFollows ==
  ASSUME OwnerInv, ExecutionsFollow, NEW f \in fibers, f.kind \in {"stop", "exit"}, f.at = "clean",
         CleanUp(f), session[f.id].generation <= f.generation, Held(f.id),
         UNCHANGED <<lifecycle, commands, stoppedThrough>>
  PROVE  ExecutionsFollow'
<1>0. /\ f \in Fiber /\ f.id \in Services /\ f.generation \in Nat
      /\ session \in [Services -> Session]
      /\ Driven(lifecycle, commands, fibers) /\ lifecycle.members \subseteq Services
      /\ StopsAreDue(lifecycle, commands, fibers) /\ SessionsRun(lifecycle, fibers)
      /\ \A s \in Services : GenerationOf(s) \in Nat
      /\ PhaseAt(f.id).tag # "Stopped" => f.generation <= GenerationOf(f.id)
  BY FollowFacts, SoundMembers DEF Executions, ExecutionsFollow, Coherent
<1>1. session[f.id].generation \in Nat
  BY <1>0 DEF Session
<1>2. ASSUME PhaseAt(f.id).tag # "Stopped", session[f.id].generation = GenerationOf(f.id)
      PROVE  f.generation = GenerationOf(f.id) /\ ~Stoppable(lifecycle.services[f.id])
  <2>1. f.generation = GenerationOf(f.id)
    BY <1>0, <1>1, <1>2
  <2>2. ~UpAt(lifecycle.services[f.id], f.generation)
    BY <1>0 DEF StopsAreDue
  <2> QED
    BY <2>1, <2>2 DEF UpAt, GenerationOf, PhaseAt
<1>3. PICK at \in {"exited", "stopFailed"} :
        fibers' = (fibers \ ({f} \union Checks(f.id))) \union {At(f, at)}
  BY DEF CleanUp
<1>4. at \in Working[f.kind] \union Reporting[f.kind] /\ at \in Steps
  BY <1>3 DEF Working, Reporting, Steps, Kinds
<1>5. PICK gone : gone = {f} \union Checks(f.id)
  OBVIOUS
<1>6. fibers' = (fibers \ gone) \union {At(f, at)} /\ \A x \in fibers' : x \notin fibers => x = At(f, at)
  BY <1>3, <1>5
<1>7. \A s \in Services \ {f.id} : session'[s] = session[s]
  BY <1>0 DEF CleanUp
<1>8. Onward(f)
  <2>1. f # At(f, at)
    BY <1>0, <1>3, <1>4, AtFields
  <2>2. f \notin fibers'
    BY <1>5, <1>6, <2>1
  <2> QED
    BY <1>0, <1>3, <1>4, <1>6, <2>2, AtFields DEF Onward, Unreported
<1>9. SessionsRun(lifecycle, fibers)'
  <2>1. ASSUME NEW s \in Services, PhaseAt(s).tag = "Running"
        PROVE  HasSession(s, GenerationOf(s))'
    <3>1. HasSession(s, GenerationOf(s))
      BY <1>0, <2>1 DEF SessionsRun, PhaseAt, GenerationOf
    <3>2. s # f.id
      BY <1>2, <2>1, <3>1 DEF HasSession, Stoppable, PhaseAt
    <3> QED
      BY <1>7, <3>1, <3>2 DEF HasSession, PhaseAt, GenerationOf
  <2>2. ASSUME NEW x \in fibers', UpAt(lifecycle.services[x.id], x.generation)
        PROVE  /\ x.kind = "launch" /\ x.at \in Found => HasSession(x.id, x.generation)'
               /\ x.kind = "exit" => session'[x.id].generation = x.generation
    <3>0. Stoppable(lifecycle.services[x.id]) /\ x.generation = GenerationOf(x.id)
          /\ PhaseAt(x.id).tag # "Stopped"
      BY <2>2 DEF UpAt, GenerationOf, PhaseAt, Stoppable
    <3>1. CASE x \in fibers
      <4>1. /\ x.kind = "launch" /\ x.at \in Found => HasSession(x.id, x.generation)
            /\ x.kind = "exit" => session[x.id].generation = x.generation
        BY <1>0, <2>2, <3>1 DEF SessionsRun, Found
      <4>2. x.id \in Services
        BY <3>1, FollowFacts
      <4>3. CASE x.id = f.id
        BY <1>2, <3>0, <4>1, <4>3 DEF HasSession
      <4>4. CASE x.id # f.id
        BY <1>7, <4>1, <4>2, <4>4 DEF HasSession
      <4> QED
        BY <4>3, <4>4
    <3>2. CASE x \notin fibers
      <4>1. x.id = f.id /\ x.generation = f.generation /\ x.kind = f.kind
        BY <1>0, <1>4, <1>6, <3>2, AtFields
      <4>2. ~UpAt(lifecycle.services[f.id], f.generation)
        BY <1>0 DEF StopsAreDue
      <4> QED
        BY <2>2, <4>1, <4>2
    <3> QED
      BY <3>1, <3>2
  <2> QED
    BY <2>1, <2>2 DEF SessionsRun, HasSession, Found, PhaseAt, GenerationOf
<1>10. ASSUME NEW s \in lifecycle.members, NEW g, g = GenerationOf(s)
       PROVE  /\ PhaseAt(s).tag = "Starting" /\ LaunchUnderWay(s, g, commands, fibers) =>
                   LaunchUnderWay(s, g, commands', fibers')
              /\ PhaseAt(s).tag = "Stopping" /\ StopUnderWay(s, g, commands, fibers) =>
                   StopUnderWay(s, g, commands, fibers)'
              /\ PhaseAt(s).tag = "Running" /\ CheckUnderWay(s, g, commands, fibers) =>
                   CheckUnderWay(s, g, commands', fibers')
  <2>0. \A w \in gone : w = f \/ (w.id = f.id /\ w.at = "check" /\ w.generation = session[f.id].generation)
    BY <1>5 DEF Checks
  <2>1. ASSUME NEW kind, NEW steps, UnderWay(kind, s, g, steps, fibers), "check" \notin steps,
               f.kind = kind /\ f.id = s /\ f.generation = g /\ f.at \in steps => at \in steps
        PROVE  UnderWay(kind, s, g, steps, fibers')
    <3>1. \A w \in gone : w.kind = kind /\ w.id = s /\ w.generation = g /\ w.at \in steps =>
            f.kind = kind /\ f.id = s /\ f.generation = g /\ at \in steps
      BY <2>0, <2>1
    <3> QED
      BY <1>0, <1>4, <1>6, <2>1, <3>1, UnderWayTurns
  <2>2. UnderWay("launch", s, g, Unreported, fibers) => UnderWay("launch", s, g, Unreported, fibers')
    BY <2>1 DEF Unreported
  <2>3. UnderWay("exit", s, g, {"exited", "stopFailed"}, fibers) =>
          UnderWay("exit", s, g, {"exited", "stopFailed"}, fibers')
    BY <1>3, <2>1
  <2>4. ASSUME UnderWay("stop", s, g, Steps, fibers)
        PROVE  UnderWay("stop", s, g, Steps, fibers')
    <3>1. PICK kind, steps : kind = "stop" /\ steps = Steps
      OBVIOUS
    <3>2. \A w \in gone : w = f \/ w.kind # "stop" \/ w \notin Fiber
      BY <2>0 DEF Fiber, Working, Reporting
    <3>3. gone \subseteq Fiber
      BY <1>0, <1>5, FollowFacts DEF Checks, Executions
    <3>4. \A w \in gone : w.kind = kind /\ w.id = s /\ w.generation = g /\ w.at \in steps =>
            f.kind = kind /\ f.id = s /\ f.generation = g /\ at \in steps
      BY <1>4, <3>1, <3>2, <3>3
    <3>5. UnderWay(kind, s, g, steps, fibers)
      BY <2>4, <3>1
    <3>6. UnderWay(kind, s, g, steps, fibers')
      BY <1>0, <1>4, <1>6, <3>4, <3>5, UnderWayTurns
    <3> QED
      BY <3>1, <3>6
  <2>5. ASSUME PhaseAt(s).tag = "Running", UnderWay("reprobe", s, g, Steps, fibers)
        PROVE  UnderWay("reprobe", s, g, Steps, fibers')
    <3>1. PICK kind, steps : kind = "reprobe" /\ steps = Steps
      OBVIOUS
    <3>2. session[f.id].generation = GenerationOf(f.id) => s # f.id
      BY <1>2, <2>5 DEF Stoppable, PhaseAt
    <3>3. \A w \in gone : w.kind = kind /\ w.id = s /\ w.generation = g /\ w.at \in steps =>
            f.kind = kind /\ f.id = s /\ f.generation = g /\ at \in steps
      BY <1>4, <1>10, <2>0, <3>1, <3>2
    <3>4. UnderWay(kind, s, g, steps, fibers)
      BY <2>5, <3>1
    <3>5. UnderWay(kind, s, g, steps, fibers')
      BY <1>0, <1>4, <1>6, <3>3, <3>4, UnderWayTurns
    <3> QED
      BY <3>1, <3>5
  <2>6. ASSUME PhaseAt(s).tag = "Stopping", session[s].generation = g,
               UnderWay("exit", s, g, {"lost", "clean"}, fibers)
        PROVE  \/ UnderWay("stop", s, g, Steps, fibers')
               \/ UnderWay("exit", s, g, {"exited", "stopFailed"}, fibers')
               \/ UnderWay("exit", s, g, {"lost", "clean"}, fibers') /\ session'[s].generation = g
    <3>1. CASE s = f.id
      <4>1. f.generation = g
        BY <1>2, <1>10, <2>6, <3>1
      <4>2. At(f, at) \in fibers' /\ At(f, at).kind = f.kind /\ At(f, at).id = s
            /\ At(f, at).generation = g /\ At(f, at).at = at
        BY <1>0, <1>4, <1>6, <3>1, <4>1, AtFields
      <4> QED
        BY <1>3, <1>4, <4>2 DEF UnderWay
    <3>2. CASE s # f.id
      <4>1. UnderWay("exit", s, g, {"lost", "clean"}, fibers')
        BY <2>1, <2>6, <3>2
      <4>2. session'[s] = session[s]
        BY <1>0, <1>7, <3>2
      <4> QED
        BY <2>6, <4>1, <4>2
    <3> QED
      BY <3>1, <3>2
  <2>7. LaunchUnderWay(s, g, commands, fibers) => LaunchUnderWay(s, g, commands', fibers')
    BY <2>2 DEF LaunchUnderWay
  <2>8. PhaseAt(s).tag = "Running" /\ CheckUnderWay(s, g, commands, fibers) =>
          CheckUnderWay(s, g, commands', fibers')
    BY <2>5 DEF CheckUnderWay
  <2>9. PhaseAt(s).tag = "Stopping" /\ StopUnderWay(s, g, commands, fibers) =>
          StopUnderWay(s, g, commands, fibers)'
    <3>1. SUFFICES ASSUME PhaseAt(s).tag = "Stopping", StopUnderWay(s, g, commands, fibers)
                   PROVE  \/ StopCommand(s, g) \in commands'
                          \/ UnderWay("stop", s, g, Steps, fibers')
                          \/ UnderWay("exit", s, g, {"exited", "stopFailed"}, fibers')
                          \/ UnderWay("exit", s, g, {"lost", "clean"}, fibers') /\ session'[s].generation = g
      BY DEF StopUnderWay, UnderWay
    <3> QED
      BY <2>3, <2>4, <2>6, <3>1 DEF StopUnderWay
  <2> QED
    BY <2>7, <2>8, <2>9
<1>11. Driven(lifecycle, commands, fibers)'
  BY <1>0, <1>10, DrivenStep
<1> QED
  BY <1>8, <1>9, <1>11, FencesKept, OnwardCoheres

\* A stop finds its session, or none of its own or an older generation.
LEMMA StopSessionFollows ==
  ASSUME OwnerInv, ExecutionsFollow, NEW f \in fibers, StopSession(f), UNCHANGED lifecycle
  PROVE  ExecutionsFollow'
<1>0. /\ f \in Fiber /\ f.kind = "stop" /\ f.at = "clean"
      /\ Driven(lifecycle, commands, fibers) /\ lifecycle.members \subseteq Services
      /\ UNCHANGED <<commands, stoppedThrough>>
  BY FollowFacts, SoundMembers DEF Executions, StopSession, ExecutionsFollow, Coherent
<1>1. CASE Held(f.id) /\ session[f.id].generation <= f.generation /\ CleanUp(f)
  BY <1>0, <1>1, CleanUpFollows
<1>2. CASE Moves(f, "exited") /\ UNCHANGED session
  <2>1. PICK at : at = "exited" /\ at \in Working[f.kind] \union Reporting[f.kind]
    BY <1>0 DEF Working, Reporting
  <2>2. Moves(f, at)
    BY <1>2, <2>1
  <2>3. Onward(f)
    BY <1>0, <2>1, <2>2, MovesOnward DEF Unreported
  <2>4. SessionsRun(lifecycle, fibers)'
    BY <1>0, <1>2, <2>3, SessionsKept DEF Onward
  <2>5. SessionsWait
    BY <1>0, <1>2 DEF SessionsWait
  <2>6. Driven(lifecycle, commands, fibers)'
    BY <1>0, <2>1, <2>2, <2>5, MovesDriven
  <2> QED
    BY <1>0, <2>3, <2>4, <2>6, FencesKept, OnwardCoheres
<1> QED
  BY <1>1, <1>2 DEF StopSession

\* An exit whose session someone else cleaned is awaited by no phase.
LEMMA CleanExitedFollows ==
  ASSUME OwnerInv, ExecutionsFollow, NEW f \in fibers, CleanExited(f), UNCHANGED lifecycle
  PROVE  ExecutionsFollow'
<1>0. /\ f \in Fiber /\ f.kind = "exit" /\ f.at = "clean" /\ f.generation \in Nat \ {0}
      /\ Driven(lifecycle, commands, fibers) /\ lifecycle.members \subseteq Services
      /\ UNCHANGED <<commands, stoppedThrough>>
  BY FollowFacts, SoundMembers DEF Executions, CleanExited, ExecutionsFollow, Coherent
<1>1. CASE session[f.id].generation = f.generation /\ CleanUp(f)
  <2>1. Held(f.id) /\ session[f.id].generation <= f.generation
    BY <1>0, <1>1 DEF Held
  <2> QED
    BY <1>0, <1>1, <2>1, CleanUpFollows
<1>2. CASE session[f.id].generation # f.generation /\ Ends(f) /\ UNCHANGED session
  <2>1. Onward(f) /\ \A x \in fibers' : x \in fibers
    BY <1>2, EndsOnward DEF Ends
  <2>2. SessionsRun(lifecycle, fibers)'
    BY <1>0, <1>2, <2>1, SessionsKept
  <2>3. ASSUME NEW s \in lifecycle.members, NEW g, g = GenerationOf(s)
        PROVE  /\ PhaseAt(s).tag = "Starting" /\ LaunchUnderWay(s, g, commands, fibers) =>
                    LaunchUnderWay(s, g, commands', fibers')
               /\ PhaseAt(s).tag = "Stopping" /\ StopUnderWay(s, g, commands, fibers) =>
                    StopUnderWay(s, g, commands, fibers)'
               /\ PhaseAt(s).tag = "Running" /\ CheckUnderWay(s, g, commands, fibers) =>
                    CheckUnderWay(s, g, commands', fibers')
    <3>0. PICK gone : gone = {f} /\ fibers \ gone \subseteq fibers'
      BY <1>2 DEF Ends
    <3>1. ASSUME NEW kind, NEW steps, UnderWay(kind, s, g, steps, fibers),
                 ~(kind = "exit" /\ f.id = s /\ f.generation = g /\ "clean" \in steps)
          PROVE  UnderWay(kind, s, g, steps, fibers')
      <4>1. \A w \in gone : ~(w.kind = kind /\ w.id = s /\ w.generation = g /\ w.at \in steps)
        BY <1>0, <3>0, <3>1
      <4> QED
        BY <3>0, <3>1, <4>1, UnderWayLeft
    <3>2. LaunchUnderWay(s, g, commands, fibers) => LaunchUnderWay(s, g, commands', fibers')
      BY <1>0, <3>1 DEF LaunchUnderWay
    <3>3. CheckUnderWay(s, g, commands, fibers) => CheckUnderWay(s, g, commands', fibers')
      BY <1>0, <3>1 DEF CheckUnderWay
    <3>4. StopUnderWay(s, g, commands, fibers) => StopUnderWay(s, g, commands, fibers)'
      <4>1. SUFFICES ASSUME StopUnderWay(s, g, commands, fibers)
                     PROVE  \/ StopCommand(s, g) \in commands'
                            \/ UnderWay("stop", s, g, Steps, fibers')
                            \/ UnderWay("exit", s, g, {"exited", "stopFailed"}, fibers')
                            \/ UnderWay("exit", s, g, {"lost", "clean"}, fibers') /\ session'[s].generation = g
        BY DEF StopUnderWay, UnderWay
      <4>2. UnderWay("stop", s, g, Steps, fibers) => UnderWay("stop", s, g, Steps, fibers')
        BY <3>1
      <4>3. UnderWay("exit", s, g, {"exited", "stopFailed"}, fibers) =>
              UnderWay("exit", s, g, {"exited", "stopFailed"}, fibers')
        BY <3>1
      <4>4. session[s].generation = g /\ UnderWay("exit", s, g, {"lost", "clean"}, fibers) =>
              UnderWay("exit", s, g, {"lost", "clean"}, fibers')
        <5>1. session[s].generation = g => ~(f.id = s /\ f.generation = g)
          BY <1>2
        <5> QED
          BY <3>1, <5>1
      <4> QED
        BY <1>0, <1>2, <4>1, <4>2, <4>3, <4>4 DEF StopUnderWay
    <3> QED
      BY <3>2, <3>3, <3>4
  <2>4. Driven(lifecycle, commands, fibers)'
    BY <1>0, <2>3, DrivenStep
  <2> QED
    BY <1>0, <2>1, <2>2, <2>4, FencesKept, OnwardCoheres
<1> QED
  BY <1>1, <1>2 DEF CleanExited

-----------------------------------------------------------------------------
(* An execution begins, or a runtime exits.                                *)

\* A fiber joins those that follow the phases.
LEMMA NewcomerCoheres ==
  ASSUME OwnerInv, ExecutionsFollow, UNCHANGED <<lifecycle, stoppedThrough>>, NEW x,
         commands' \subseteq commands, fibers' \subseteq fibers \union {x},
         x.generation < lifecycle.generationCounters[x.id],
         UpAt(lifecycle.services[x.id], x.generation) =>
           /\ x.kind # "stop" /\ (x.kind = "exit" => x.at = "lost")
           /\ x.kind = "launch" => /\ lifecycle.services[x.id].phase.tag = "Starting"
                                   /\ Unchecked(lifecycle.services[x.id])
           /\ x.kind = "reprobe" => lifecycle.services[x.id].reprobing,
         OneCheck(commands, fibers)', SessionsRun(lifecycle, fibers)', Driven(lifecycle, commands, fibers)'
  PROVE  ExecutionsFollow'
<1>1. /\ Rooted(lifecycle) /\ Newest(lifecycle) /\ Launched(lifecycle, commands, fibers)
      /\ StopsAreDue(lifecycle, commands, fibers)
      /\ LaunchesAreFirst(lifecycle, commands, fibers)
      /\ ChecksAreAwaited(lifecycle, commands, fibers)
  BY DEF ExecutionsFollow, Coherent
<1>2. Rooted(lifecycle)' /\ Newest(lifecycle)'
  BY <1>1 DEF Rooted, Newest
<1>3. Launched(lifecycle, commands, fibers)'
  BY <1>1 DEF Launched
<1>4. StopsAreDue(lifecycle, commands, fibers)'
  BY <1>1 DEF StopsAreDue
<1>5. LaunchesAreFirst(lifecycle, commands, fibers)'
  BY <1>1 DEF LaunchesAreFirst
<1>6. ChecksAreAwaited(lifecycle, commands, fibers)'
  BY <1>1 DEF ChecksAreAwaited
<1> QED
  BY <1>2, <1>3, <1>4, <1>5, <1>6 DEF ExecutionsFollow, Coherent

\* The sessions go on, and it has one if it must.
LEMMA NewcomerSessions ==
  ASSUME OwnerInv, ExecutionsFollow, UNCHANGED lifecycle, NEW x, fibers' \subseteq fibers \union {x},
         \A s \in Services : /\ session'[s].generation = session[s].generation
                             /\ session'[s].healthy = session[s].healthy,
         x.kind = "launch" => x.at \notin Found,
         x.kind = "exit" => session'[x.id].generation = x.generation
  PROVE  SessionsRun(lifecycle, fibers)'
<1>1. SessionsRun(lifecycle, fibers)
  BY DEF ExecutionsFollow, Coherent
<1>2. ASSUME NEW y \in fibers', UpAt(lifecycle.services[y.id], y.generation)
      PROVE  /\ y.kind = "launch" /\ y.at \in Found => HasSession(y.id, y.generation)'
             /\ y.kind = "exit" => session'[y.id].generation = y.generation
  <2>1. CASE y \in fibers
    <3>1. /\ y.kind = "launch" /\ y.at \in Found => HasSession(y.id, y.generation)
          /\ y.kind = "exit" => session[y.id].generation = y.generation
      BY <1>1, <1>2, <2>1 DEF SessionsRun, Found
    <3>2. y.id \in Services
      BY <2>1, FollowFacts
    <3> QED
      BY <3>1, <3>2 DEF HasSession
  <2>2. CASE y = x
    BY <1>2, <2>2
  <2> QED
    BY <2>1, <2>2
<1>3. \A s \in Services : PhaseAt(s).tag = "Running" => HasSession(s, GenerationOf(s))'
  BY <1>1 DEF SessionsRun, HasSession, PhaseAt, GenerationOf
<1> QED
  BY <1>2, <1>3 DEF SessionsRun, HasSession, Found, PhaseAt, GenerationOf

\* It takes the place of the command it answers.
LEMMA NewcomerDriven ==
  ASSUME OwnerInv, ExecutionsFollow, UNCHANGED lifecycle, NEW gone, commands \ gone \subseteq commands',
         fibers \subseteq fibers',
         \A s \in Services : session'[s].generation = session[s].generation,
         \A s \in lifecycle.members :
           /\ PhaseAt(s).tag = "Starting" /\ LaunchCommand(s, GenerationOf(s)) \in gone =>
                UnderWay("launch", s, GenerationOf(s), Unreported, fibers')
           /\ PhaseAt(s).tag = "Stopping" /\ StopCommand(s, GenerationOf(s)) \in gone =>
                UnderWay("stop", s, GenerationOf(s), Steps, fibers')
           /\ PhaseAt(s).tag = "Running" /\ ReprobeCommand(s, GenerationOf(s)) \in gone =>
                UnderWay("reprobe", s, GenerationOf(s), Steps, fibers')
  PROVE  Driven(lifecycle, commands, fibers)'
<1>0. Driven(lifecycle, commands, fibers) /\ lifecycle.members \subseteq Services
  BY FollowFacts, SoundMembers DEF ExecutionsFollow, Coherent
<1>1. ASSUME NEW s \in lifecycle.members, NEW g, g = GenerationOf(s)
      PROVE  /\ PhaseAt(s).tag = "Starting" /\ LaunchUnderWay(s, g, commands, fibers) =>
                  LaunchUnderWay(s, g, commands', fibers')
             /\ PhaseAt(s).tag = "Stopping" /\ StopUnderWay(s, g, commands, fibers) =>
                  StopUnderWay(s, g, commands, fibers)'
             /\ PhaseAt(s).tag = "Running" /\ CheckUnderWay(s, g, commands, fibers) =>
                  CheckUnderWay(s, g, commands', fibers')
  <2>1. \A kind, steps : UnderWay(kind, s, g, steps, fibers) => UnderWay(kind, s, g, steps, fibers')
    BY DEF UnderWay
  <2>2. PhaseAt(s).tag = "Starting" /\ LaunchUnderWay(s, g, commands, fibers) =>
          LaunchUnderWay(s, g, commands', fibers')
    BY <1>1, <2>1 DEF LaunchUnderWay
  <2>3. PhaseAt(s).tag = "Running" /\ CheckUnderWay(s, g, commands, fibers) =>
          CheckUnderWay(s, g, commands', fibers')
    BY <1>1, <2>1 DEF CheckUnderWay
  <2>4. PhaseAt(s).tag = "Stopping" /\ StopUnderWay(s, g, commands, fibers) =>
          StopUnderWay(s, g, commands, fibers)'
    <3>1. SUFFICES ASSUME PhaseAt(s).tag = "Stopping", StopUnderWay(s, g, commands, fibers)
                   PROVE  \/ StopCommand(s, g) \in commands'
                          \/ UnderWay("stop", s, g, Steps, fibers')
                          \/ UnderWay("exit", s, g, {"exited", "stopFailed"}, fibers')
                          \/ UnderWay("exit", s, g, {"lost", "clean"}, fibers') /\ session'[s].generation = g
      BY DEF StopUnderWay, UnderWay
    <3>2. session'[s].generation = session[s].generation
      BY <1>0
    <3> QED
      BY <1>1, <2>1, <3>1, <3>2 DEF StopUnderWay
  <2> QED
    BY <2>2, <2>3, <2>4
<1> QED
  BY <1>0, <1>1, DrivenStep

\* A command is known by what it carries.
LEMMA CommandFields ==
  ASSUME NEW s, NEW g
  PROVE  /\ LaunchCommand(s, g).op = "Launch" /\ LaunchCommand(s, g).id = s
         /\ LaunchCommand(s, g).generation = g
         /\ StopCommand(s, g).op = "Stop" /\ StopCommand(s, g).id = s
         /\ StopCommand(s, g).generation = g
         /\ ReprobeCommand(s, g).op = "Reprobe" /\ ReprobeCommand(s, g).id = s
         /\ ReprobeCommand(s, g).generation = g
BY DEF LaunchCommand, StopCommand, ReprobeCommand

\* A command is what its operation makes of its fields.
LEMMA CommandIs ==
  ASSUME NEW c \in Command
  PROVE  /\ c.op = "Launch" => c = LaunchCommand(c.id, c.generation)
         /\ c.op = "Stop" => c = StopCommand(c.id, c.generation)
         /\ c.op = "Reprobe" => c = ReprobeCommand(c.id, c.generation)
BY DEF LaunchCommand, StopCommand, ReprobeCommand, Command

\* What a new fiber is of, and which command its generation is known by.
LEMMA BegunFacts ==
  ASSUME OwnerInv, ExecutionsFollow, NEW c \in commands
  PROVE  /\ c \in Command /\ c.id \in Services /\ c.generation \in Generation
         /\ c.generation < lifecycle.generationCounters[c.id]
         /\ \A s, g : c = LaunchCommand(s, g) \/ c = StopCommand(s, g) \/ c = ReprobeCommand(s, g) =>
              c.id = s /\ c.generation = g
BY FollowFacts, CommandFields DEF Executions, Generation

\* A launch begins.
LEMMA BeginLaunchFollows ==
  ASSUME OwnerInv, ExecutionsFollow, NEW c \in commands, BeginLaunch(c), UNCHANGED lifecycle
  PROVE  ExecutionsFollow'
<1>0. /\ c \in Command /\ c.id \in Services /\ c.generation \in Generation /\ c.op = "Launch"
      /\ c = LaunchCommand(c.id, c.generation)
      /\ c.generation < lifecycle.generationCounters[c.id]
      /\ commands' = commands \ {c} /\ UNCHANGED <<stoppedThrough, session>>
      /\ OneCheck(commands, fibers) /\ LaunchesAreFirst(lifecycle, commands, fibers)
      /\ lifecycle.members \subseteq Services
  BY BegunFacts, CommandIs, FollowFacts, SoundMembers DEF BeginLaunch, ExecutionsFollow, Coherent
<1>1. PICK at \in {"prepare", "failed"} :
        fibers' = fibers \union {NewFiber("launch", c.id, c.generation, at)}
  BY DEF BeginLaunch
<1>2. PICK x : x = NewFiber("launch", c.id, c.generation, at)
  OBVIOUS
<1>3. x.kind = "launch" /\ x.id = c.id /\ x.generation = c.generation /\ x.at = at
  BY <1>2 DEF NewFiber
<1>4. fibers' = fibers \union {x}
  BY <1>1, <1>2
<1>5. OneCheck(commands, fibers)'
  <2>1. ASSUME NEW f \in fibers', f.kind = "reprobe"
        PROVE  /\ ReprobeCommand(f.id, f.generation) \notin commands'
               /\ LaunchCommand(f.id, f.generation) \notin commands'
               /\ \A h \in fibers' : h.kind \in {"launch", "reprobe"} /\ Same(f, h) => h = f
    <3>1. f \in fibers
      BY <1>3, <1>4, <2>1
    <3>2. ~Same(f, x)
      BY <1>0, <1>3, <2>1, <3>1 DEF OneCheck, Same
    <3> QED
      BY <1>0, <1>4, <2>1, <3>1, <3>2 DEF OneCheck
  <2>2. ASSUME NEW d \in commands', d.op = "Reprobe"
        PROVE  /\ LaunchCommand(d.id, d.generation) \notin commands'
               /\ \A h \in fibers' : h.kind = "launch" => ~Same(d, h)
    <3>1. ~Same(d, x)
      BY <1>0, <1>3, <2>2 DEF OneCheck, Same
    <3> QED
      BY <1>0, <1>4, <2>2, <3>1 DEF OneCheck
  <2> QED
    BY <2>1, <2>2 DEF OneCheck
<1>6. SessionsRun(lifecycle, fibers)'
  BY <1>0, <1>3, <1>4, NewcomerSessions DEF Found
<1>7. Driven(lifecycle, commands, fibers)'
  <2>1. PICK gone : gone = {c}
    OBVIOUS
  <2>2. ASSUME NEW s \in lifecycle.members
        PROVE  /\ LaunchCommand(s, GenerationOf(s)) \in gone =>
                    UnderWay("launch", s, GenerationOf(s), Unreported, fibers')
               /\ StopCommand(s, GenerationOf(s)) \notin gone
               /\ ReprobeCommand(s, GenerationOf(s)) \notin gone
    <3>1. PICK g : g = GenerationOf(s)
      OBVIOUS
    <3>2. ASSUME c = LaunchCommand(s, g)
          PROVE  UnderWay("launch", s, g, Unreported, fibers')
      BY <1>1, <1>3, <1>4, <3>2, BegunFacts DEF UnderWay, Unreported
    <3>3. c # StopCommand(s, g) /\ c # ReprobeCommand(s, g)
      BY <1>0, CommandFields
    <3> QED
      BY <2>1, <3>1, <3>2, <3>3
  <2> QED
    BY <1>0, <1>4, <2>1, <2>2, NewcomerDriven
<1>8. UpAt(lifecycle.services[x.id], x.generation) =>
        /\ lifecycle.services[x.id].phase.tag = "Starting"
        /\ Unchecked(lifecycle.services[x.id])
  BY <1>0, <1>3 DEF LaunchesAreFirst
<1> QED
  BY <1>0, <1>3, <1>4, <1>5, <1>6, <1>7, <1>8, NewcomerCoheres

\* A stop begins.
LEMMA BeginStopFollows ==
  ASSUME OwnerInv, ExecutionsFollow, NEW c \in commands, BeginStop(c), UNCHANGED lifecycle
  PROVE  ExecutionsFollow'
<1>0. /\ c \in Command /\ c.id \in Services /\ c.generation \in Generation /\ c.op = "Stop"
      /\ c.generation < lifecycle.generationCounters[c.id]
      /\ commands' = commands \ {c} /\ UNCHANGED <<stoppedThrough, session>>
      /\ OneCheck(commands, fibers) /\ StopsAreDue(lifecycle, commands, fibers)
      /\ lifecycle.members \subseteq Services
  BY BegunFacts, FollowFacts, SoundMembers DEF BeginStop, ExecutionsFollow, Coherent
<1>2. PICK x : x = NewFiber("stop", c.id, c.generation, "fence")
  OBVIOUS
<1>3. x.kind = "stop" /\ x.id = c.id /\ x.generation = c.generation /\ x.at = "fence"
  BY <1>2 DEF NewFiber
<1>4. fibers' = fibers \union {x}
  BY <1>2 DEF BeginStop
<1>5. OneCheck(commands, fibers)'
  BY <1>0, <1>3, <1>4 DEF OneCheck
<1>6. SessionsRun(lifecycle, fibers)'
  BY <1>0, <1>3, <1>4, NewcomerSessions
<1>7. Driven(lifecycle, commands, fibers)'
  <2>1. PICK gone : gone = {c}
    OBVIOUS
  <2>0. "fence" \in Steps
    BY DEF Steps, Kinds, Working
  <2>2. ASSUME NEW s \in lifecycle.members
        PROVE  /\ StopCommand(s, GenerationOf(s)) \in gone =>
                    UnderWay("stop", s, GenerationOf(s), Steps, fibers')
               /\ LaunchCommand(s, GenerationOf(s)) \notin gone
               /\ ReprobeCommand(s, GenerationOf(s)) \notin gone
    <3>1. PICK g : g = GenerationOf(s)
      OBVIOUS
    <3>2. ASSUME c = StopCommand(s, g)
          PROVE  UnderWay("stop", s, g, Steps, fibers')
      BY <1>3, <1>4, <2>0, <3>2, BegunFacts DEF UnderWay
    <3>3. c # LaunchCommand(s, g) /\ c # ReprobeCommand(s, g)
      BY <1>0, CommandFields
    <3> QED
      BY <2>1, <3>1, <3>2, <3>3
  <2> QED
    BY <1>0, <1>4, <2>1, <2>2, NewcomerDriven
<1>8. ~UpAt(lifecycle.services[x.id], x.generation)
  BY <1>0, <1>3 DEF StopsAreDue
<1> QED
  BY <1>0, <1>3, <1>4, <1>5, <1>6, <1>7, <1>8, NewcomerCoheres

\* A check begins, if there is a session to check: there is one if it is awaited.
LEMMA BeginReprobeFollows ==
  ASSUME OwnerInv, ExecutionsFollow, NEW c \in commands, BeginReprobe(c), UNCHANGED lifecycle
  PROVE  ExecutionsFollow'
<1>0. /\ c \in Command /\ c.id \in Services /\ c.generation \in Generation /\ c.op = "Reprobe"
      /\ c = ReprobeCommand(c.id, c.generation)
      /\ c.generation < lifecycle.generationCounters[c.id]
      /\ commands' = commands \ {c} /\ UNCHANGED <<stoppedThrough, session>>
      /\ OneCheck(commands, fibers) /\ ChecksAreAwaited(lifecycle, commands, fibers)
      /\ SessionsRun(lifecycle, fibers) /\ lifecycle.members \subseteq Services
  BY BegunFacts, CommandIs, FollowFacts, SoundMembers DEF BeginReprobe, ExecutionsFollow, Coherent
<1>2. PICK x : x = NewFiber("reprobe", c.id, c.generation, "check")
  OBVIOUS
<1>3. x.kind = "reprobe" /\ x.id = c.id /\ x.generation = c.generation /\ x.at = "check"
  BY <1>2 DEF NewFiber
<1>4. /\ HasSession(c.id, c.generation) => fibers' = fibers \union {x}
      /\ ~HasSession(c.id, c.generation) => fibers' = fibers
  BY <1>2 DEF BeginReprobe, HasSession
<1>5. OneCheck(commands, fibers)'
  <2>1. ASSUME NEW f \in fibers', f.kind = "reprobe"
        PROVE  /\ ReprobeCommand(f.id, f.generation) \notin commands'
               /\ LaunchCommand(f.id, f.generation) \notin commands'
               /\ \A h \in fibers' : h.kind \in {"launch", "reprobe"} /\ Same(f, h) => h = f
    <3>1. CASE f \in fibers
      <4>1. ~Same(f, x)
        BY <1>0, <1>3, <2>1, <3>1 DEF OneCheck, Same
      <4> QED
        BY <1>0, <1>4, <2>1, <3>1, <4>1 DEF OneCheck
    <3>2. CASE f \notin fibers
      <4>1. f = x
        BY <1>4, <3>2
      <4>2. \A h \in fibers : h.kind \in {"launch", "reprobe"} => ~Same(f, h)
        <5>1. ASSUME NEW h \in fibers, h.kind = "reprobe", Same(f, h)
              PROVE  FALSE
          BY <1>0, <1>3, <4>1, <5>1 DEF OneCheck, Same
        <5>2. ASSUME NEW h \in fibers, h.kind = "launch", Same(f, h)
              PROVE  FALSE
          BY <1>0, <1>3, <4>1, <5>2 DEF OneCheck, Same
        <5> QED
          BY <5>1, <5>2
      <4>3. LaunchCommand(f.id, f.generation) \notin commands
        BY <1>0, <1>3, <4>1 DEF OneCheck
      <4> QED
        BY <1>0, <1>3, <1>4, <4>1, <4>2, <4>3
    <3> QED
      BY <3>1, <3>2
  <2>2. ASSUME NEW d \in commands', d.op = "Reprobe"
        PROVE  /\ LaunchCommand(d.id, d.generation) \notin commands'
               /\ \A h \in fibers' : h.kind = "launch" => ~Same(d, h)
    BY <1>0, <1>3, <1>4, <2>2 DEF OneCheck
  <2> QED
    BY <2>1, <2>2 DEF OneCheck
<1>6. SessionsRun(lifecycle, fibers)'
  <2>1. fibers' \subseteq fibers \union {x}
    BY <1>4
  <2> QED
    BY <1>0, <1>3, <2>1, NewcomerSessions
<1>7. Driven(lifecycle, commands, fibers)'
  <2>1. PICK gone : gone = {c}
    OBVIOUS
  <2>0. "check" \in Steps
    BY DEF Steps, Kinds, Working
  <2>2. ASSUME NEW s \in lifecycle.members
        PROVE  /\ PhaseAt(s).tag = "Running" /\ ReprobeCommand(s, GenerationOf(s)) \in gone =>
                    UnderWay("reprobe", s, GenerationOf(s), Steps, fibers')
               /\ LaunchCommand(s, GenerationOf(s)) \notin gone
               /\ StopCommand(s, GenerationOf(s)) \notin gone
    <3>1. PICK g : g = GenerationOf(s)
      OBVIOUS
    <3>2. ASSUME PhaseAt(s).tag = "Running", c = ReprobeCommand(s, g)
          PROVE  UnderWay("reprobe", s, g, Steps, fibers')
      <4>1. c.id = s /\ c.generation = g
        BY <3>2, BegunFacts
      <4>2. HasSession(s, g)
        BY <1>0, <3>1, <3>2, <4>1 DEF SessionsRun, PhaseAt, GenerationOf
      <4> QED
        BY <1>3, <1>4, <2>0, <4>1, <4>2 DEF UnderWay
    <3>3. c # LaunchCommand(s, g) /\ c # StopCommand(s, g)
      BY <1>0, CommandFields
    <3> QED
      BY <2>1, <3>1, <3>2, <3>3
  <2> QED
    BY <1>0, <1>4, <2>1, <2>2, NewcomerDriven
<1>8. UpAt(lifecycle.services[x.id], x.generation) => lifecycle.services[x.id].reprobing
  BY <1>0, <1>3 DEF ChecksAreAwaited
<1>9. fibers' \subseteq fibers \union {x} /\ commands' \subseteq commands
  BY <1>0, <1>4
<1> QED
  BY <1>0, <1>3, <1>5, <1>6, <1>7, <1>8, <1>9, NewcomerCoheres

\* A runtime exits.
LEMMA RuntimeExitsFollows ==
  ASSUME OwnerInv, ExecutionsFollow, NEW s \in Services, RuntimeExits(s), UNCHANGED lifecycle
  PROVE  ExecutionsFollow'
<1>0. /\ session \in [Services -> Session] /\ UNCHANGED <<commands, stoppedThrough>>
      /\ OneCheck(commands, fibers)
      /\ session' = [session EXCEPT ![s].watched = FALSE]
      /\ lifecycle.generationCounters[s] \in Nat
  BY FollowFacts DEF RuntimeExits, ExecutionsFollow, Coherent
<1>1. \A t \in Services : /\ session'[t].generation = session[t].generation
                          /\ session'[t].healthy = session[t].healthy
  BY <1>0 DEF Session
<1>2. PICK x : x = NewFiber("exit", s, session[s].generation, "lost")
  OBVIOUS
<1>3. x.kind = "exit" /\ x.id = s /\ x.generation = session[s].generation /\ x.at = "lost"
  BY <1>2 DEF NewFiber
<1>4. fibers' = fibers \union {x}
  BY <1>2 DEF RuntimeExits
<1>5. OneCheck(commands, fibers)'
  BY <1>0, <1>3, <1>4 DEF OneCheck
<1>6. SessionsRun(lifecycle, fibers)'
  BY <1>0, <1>1, <1>3, <1>4, NewcomerSessions
<1>7. Driven(lifecycle, commands, fibers)'
  <2>1. PICK gone : gone = {}
    OBVIOUS
  <2>2. commands \ gone \subseteq commands' /\ fibers \subseteq fibers'
    BY <1>0, <1>4
  <2> QED
    BY <1>1, <2>1, <2>2, NewcomerDriven
<1>8. x.generation < lifecycle.generationCounters[x.id]
  <2>1. session[s].generation <= LastGeneration[s] /\ session[s].generation \in Nat
    BY <1>0, OwnerParts DEF BoundaryInv, KnownGenerations, Session
  <2> QED
    BY <1>0, <1>3, <2>1 DEF LastGeneration
<1> QED
  BY <1>0, <1>3, <1>4, <1>5, <1>6, <1>7, <1>8, NewcomerCoheres

\* Nothing of it moves.
LEMMA StillFollows ==
  ASSUME ExecutionsFollow, UNCHANGED <<lifecycle, commands, fibers, session, stoppedThrough>>
  PROVE  ExecutionsFollow'
<1>1. Rooted(lifecycle)' /\ Newest(lifecycle)' /\ Launched(lifecycle, commands, fibers)'
      /\ StopsAreDue(lifecycle, commands, fibers)'
  BY DEF ExecutionsFollow, Coherent, Rooted, Newest, Launched, StopsAreDue
<1>2. LaunchesAreFirst(lifecycle, commands, fibers)' /\ ChecksAreAwaited(lifecycle, commands, fibers)'
      /\ OneCheck(commands, fibers)'
  BY DEF ExecutionsFollow, Coherent, LaunchesAreFirst, ChecksAreAwaited, OneCheck
<1>3. SessionsRun(lifecycle, fibers)'
  BY DEF ExecutionsFollow, Coherent, SessionsRun, HasSession
<1>4. Driven(lifecycle, commands, fibers)'
  BY DEF ExecutionsFollow, Coherent, Driven, Awaits, LaunchUnderWay, StopUnderWay, CheckUnderWay, UnderWay
<1> QED
  BY <1>1, <1>2, <1>3, <1>4 DEF ExecutionsFollow, Coherent

\* Whatever a service does by itself.
LEMMA OwnStepFollows ==
  ASSUME OwnerInv, ExecutionsFollow, OwnStep, UNCHANGED lifecycle
  PROVE  ExecutionsFollow'
<1>1. ASSUME NEW c \in commands, Begin(c)
      PROVE  ExecutionsFollow'
  BY <1>1, BeginLaunchFollows, BeginReprobeFollows, BeginStopFollows DEF Begin
<1>2. ASSUME NEW f \in fibers, Run(f)
      PROVE  ExecutionsFollow'
  BY <1>2, PrepareFollows, AcquireFollows, CheckFollows, FenceFollows, InterruptFollows,
     StopSessionFollows, CleanExitedFollows DEF Run
<1>3. ASSUME NEW s \in Services, BeginWork(s) \/ EndWork(s)
      PROVE  ExecutionsFollow'
  <2>1. UNCHANGED <<lifecycle, commands, fibers, session, stoppedThrough>>
    BY <1>3 DEF BeginWork, EndWork
  <2> QED
    BY <2>1, StillFollows
<1> QED
  BY <1>1, <1>2, <1>3, RuntimeExitsFollows DEF OwnStep
-----------------------------------------------------------------------------
(* A reported outcome moves the phase it is about, or finds none.          *)

\* No phase waits for the execution that reports.
Unawaited(st, f) ==
  LET p == st.services[f.id]
  IN f.id \in st.members /\ p.phase.generation = f.generation =>
       /\ f.at = "lost" => ~Stoppable(p)
       /\ f.kind = "launch" /\ f.at \in Unreported => p.phase.tag # "Starting"
       /\ f.kind \in {"stop", "exit"} /\ f.at # "lost" => p.phase.tag # "Stopping"
       /\ f.kind = "reprobe" => p.phase.tag # "Running"

\* One that goes on: a launch, or a check.
GoesOnAs(st, new, out, f) ==
  /\ Checked(st, new, out, f.id, f.generation)
  /\ f.kind \in {"launch", "reprobe"}
  /\ f.at = "available" => Unchecked(new.services[f.id])
  /\ \/ st.services[f.id].phase.tag = "Running"
     \/ f.kind = "launch" /\ f.at \in {"available", "succeeded"}

\* One that ends its generation, or begins to.
GoesDownAs(st, new, out, f) ==
  /\ Downed(st, new, out, f.id, f.generation)
  /\ f.at # "available"
  /\ f.at # "lost" => ~WindsDown(new.services[f.id])
  /\ f.at = "lost" => f.kind = "exit" /\ Stoppable(st.services[f.id])
  /\ Rooted(new)

Told(st, new, out, f) ==
  \/ new = st /\ out = {} /\ Unawaited(st, f)
  \/ GoesOnAs(st, new, out, f)
  \/ GoesDownAs(st, new, out, f)

\* Every outcome is told as one of the three.
LEMMA EventTold ==
  ASSUME OwnerInv, ExecutionsFollow, NEW f \in fibers, Reports(f), NEW quiet, NEW step,
         step = EventOf(f, quiet, lifecycle)
  PROVE  Told(lifecycle, step.st, step.out, f)
<1>0. /\ lifecycle \in SoundState /\ f \in Fiber /\ f.generation \in Nat \ {0} /\ f.id \in Services
      /\ Rooted(lifecycle) /\ StopsAreDue(lifecycle, commands, fibers)
      /\ LaunchesAreFirst(lifecycle, commands, fibers)
  BY FollowFacts DEF Executions, ExecutionsFollow, Coherent
<1>1. PICK s : s = f.id
  OBVIOUS
<1>2. PICK g \in Nat \ {0} : g = f.generation
  BY <1>0
<1>3. f.at \in Reporting[f.kind] /\ f.kind \in Kinds
  BY <1>0 DEF Reports, Fiber
<1>4. step = Ignored(lifecycle) => step.st = lifecycle /\ step.out = {}
  BY StepFields DEF Ignored
<1>5. CASE f.at = "available"
  <2>0. f.kind = "launch"
    BY <1>3, <1>5 DEF Reporting, Kinds
  <2>1. step = SessionAvailable(lifecycle, s, g)
    BY <1>1, <1>2, <1>5 DEF EventOf, OutcomeOf
  <2>2. \/ ~AtPhase(lifecycle, s, g, {"Starting"}) /\ step = Ignored(lifecycle)
        \/ Checked(lifecycle, step.st, step.out, s, g) /\ Unchecked(step.st.services[s])
    BY <1>0, <2>1, SessionAvailableTells
  <2> QED
    BY <1>1, <1>2, <1>4, <1>5, <2>0, <2>2 DEF Told, Unawaited, GoesOnAs, AtPhase
<1>6. CASE f.at = "succeeded"
  <2>0. f.kind = "launch"
    BY <1>3, <1>6 DEF Reporting, Kinds
  <2>1. step = LaunchSucceeded(lifecycle, s, g)
    BY <1>1, <1>2, <1>6 DEF EventOf, OutcomeOf
  <2>2. step = Ignored(lifecycle) \/ Checked(lifecycle, step.st, step.out, s, g)
    BY <1>0, <2>1, LaunchSucceededTells
  <2> QED
    BY <1>1, <1>2, <1>4, <1>6, <2>0, <2>2 DEF Told, Unawaited, GoesOnAs, Unreported
<1>7. CASE f.at = "recovered"
  <2>0. f.kind = "reprobe"
    BY <1>3, <1>7 DEF Reporting, Kinds
  <2>1. step = ReadinessRecovered(lifecycle, s, g)
    BY <1>1, <1>2, <1>7 DEF EventOf, OutcomeOf
  <2>2. \/ ~AtPhase(lifecycle, s, g, {"Running"}) /\ step = Ignored(lifecycle)
        \/ Checked(lifecycle, step.st, step.out, s, g) /\ lifecycle.services[s].phase.tag = "Running"
    BY <1>0, <2>1, ReadinessRecoveredTells
  <2> QED
    BY <1>1, <1>2, <1>4, <1>7, <2>0, <2>2 DEF Told, Unawaited, GoesOnAs, AtPhase
<1>8. CASE f.at = "unready"
  <2>0. f.kind \in {"launch", "reprobe"}
    BY <1>3, <1>8 DEF Reporting, Kinds
  <2>1. step = ReadinessLost(lifecycle, s, g)
    BY <1>1, <1>2, <1>8 DEF EventOf, OutcomeOf
  <2>2. \/ ~AtPhase(lifecycle, s, g, {"Running"}) /\ step = Ignored(lifecycle)
        \/ Checked(lifecycle, step.st, step.out, s, g) /\ lifecycle.services[s].phase.tag = "Running"
    BY <1>0, <2>1, ReadinessLostTells
  <2> QED
    BY <1>1, <1>2, <1>4, <1>8, <2>0, <2>2 DEF Told, Unawaited, GoesOnAs, AtPhase, Unreported
<1>9. CASE f.at = "failed"
  <2>0. f.kind = "launch"
    BY <1>3, <1>9 DEF Reporting, Kinds
  <2>1. step = LaunchFailed(lifecycle, s, g, quiet)
    BY <1>1, <1>2, <1>9 DEF EventOf, OutcomeOf
  <2>2. \/ ~AtPhase(lifecycle, s, g, {"Starting"}) /\ step = Ignored(lifecycle)
        \/ /\ Downed(lifecycle, step.st, step.out, s, g) /\ ~WindsDown(step.st.services[s])
           /\ lifecycle.services[s].phase.tag = "Starting"
    BY <1>0, <2>1, LaunchFailedTells
  <2>3. Downed(lifecycle, step.st, step.out, s, g) /\ lifecycle.services[s].phase.tag = "Starting" =>
          Rooted(step.st)
    BY <1>0 DEF Downed
  <2> QED
    BY <1>1, <1>2, <1>4, <1>9, <2>0, <2>2, <2>3 DEF Told, Unawaited, GoesDownAs, AtPhase
<1>10. CASE f.at = "lost"
  <2>0. f.kind = "exit"
    BY <1>3, <1>10 DEF Reporting, Kinds
  <2>1. step = SessionLost(lifecycle, s, g, quiet)
    BY <1>1, <1>2, <1>10 DEF EventOf, OutcomeOf
  <2>2. \/ ~AtPhase(lifecycle, s, g, {"Starting", "Running"}) /\ step = Ignored(lifecycle)
        \/ /\ Downed(lifecycle, step.st, step.out, s, g) /\ Stoppable(lifecycle.services[s])
           /\ Rooted(lifecycle) => Rooted(step.st)
    BY <1>0, <2>1, SessionLostTells
  <2> QED
    BY <1>0, <1>1, <1>2, <1>4, <1>10, <2>0, <2>2 DEF Told, Unawaited, GoesDownAs, AtPhase, Stoppable
<1>11. CASE f.at = "exited"
  <2>0. f.kind \in {"stop", "exit"}
    BY <1>3, <1>11 DEF Reporting, Kinds
  <2>1. PICK requested : requested = (f.kind = "stop")
    OBVIOUS
  <2>2. step = Exited(lifecycle, s, g, requested)
    BY <1>1, <1>2, <1>11, <2>1 DEF EventOf, OutcomeOf
  <2>3. \/ ~AtPhase(lifecycle, s, g, {"Stopping"}) /\ step = Ignored(lifecycle)
        \/ Downed(lifecycle, step.st, step.out, s, g) /\ ~WindsDown(step.st.services[s])
    BY <1>0, <2>2, ExitedTells
  <2>4. ~UpAt(lifecycle.services[s], g)
    BY <1>0, <1>1, <1>2, <1>11, <2>0 DEF StopsAreDue
  <2>5. Downed(lifecycle, step.st, step.out, s, g) => Rooted(step.st)
    BY <1>0, <2>4 DEF Downed, UpAt, Stoppable
  <2> QED
    BY <1>1, <1>2, <1>4, <1>11, <2>0, <2>3, <2>5 DEF Told, Unawaited, GoesDownAs, AtPhase
<1>12. CASE f.at \in {"retained", "stopFailed"}
  <2>0. /\ f.at = "retained" => f.kind = "launch"
        /\ f.at = "stopFailed" => f.kind \in {"stop", "exit"}
    BY <1>3, <1>12 DEF Reporting, Kinds
  <2>1. PICK failure \in BOOLEAN : failure = (f.kind # "stop")
    OBVIOUS
  <2>2. step = StopFailed(lifecycle, s, g, failure, quiet)
    BY <1>1, <1>2, <1>12, <2>1 DEF EventOf, OutcomeOf
  <2>3. \/ /\ ~(s \in lifecycle.members /\ lifecycle.services[s].phase.generation = g)
           /\ step = Ignored(lifecycle)
        \/ Downed(lifecycle, step.st, step.out, s, g) /\ ~WindsDown(step.st.services[s])
    BY <1>0, <2>2, StopFailedTells
  <2>4. ~UpAt(lifecycle.services[s], g) \/ lifecycle.services[s].phase.tag = "Starting"
    BY <1>0, <1>1, <1>2, <1>12, <2>0 DEF StopsAreDue, LaunchesAreFirst, Unreported
  <2>5. Downed(lifecycle, step.st, step.out, s, g) => Rooted(step.st)
    BY <1>0, <2>4 DEF Downed, UpAt, Stoppable
  <2> QED
    BY <1>1, <1>2, <1>4, <1>12, <2>0, <2>3, <2>5 DEF Told, Unawaited, GoesDownAs
<1>13. f.at \in {"available", "succeeded", "recovered", "unready", "failed", "lost", "exited",
                 "retained", "stopFailed"}
  BY <1>0 DEF Fiber, Kinds, Reports, Reporting
<1> QED
  BY <1>5, <1>6, <1>7, <1>8, <1>9, <1>10, <1>11, <1>12, <1>13

\* What a fiber that has reported goes on as: a launch checks, an exit cleans.
Handed(f, x) ==
  /\ x.kind = f.kind /\ x.id = f.id /\ x.generation = f.generation
  /\ \/ f.at = "available" /\ f.kind = "launch" /\ x.at = "check" /\ HasSession(f.id, f.generation)
     \/ f.at = "lost" /\ f.kind = "exit" /\ x.at = "clean"

\* The fibers a delivery leaves: the others, and what the one goes on as.
LEMMA DeliveredFibers ==
  ASSUME NEW f \in fibers, f \in Fiber, Delivered(f)
  PROVE  /\ fibers \ {f} \subseteq fibers' /\ f \notin fibers'
         /\ \A x \in fibers' : x \in fibers \/ Handed(f, x)
         /\ \A x, y \in fibers' : x \notin fibers /\ y \notin fibers => x = y
         /\ f.at = "lost" => f.kind = "exit" /\ \E x \in fibers' : Handed(f, x)
         /\ f.at = "available" => f.kind = "launch"
<1>0. f.at \in Reporting[f.kind] /\ f.kind \in Kinds
  BY DEF Delivered, Reports, Fiber
<1>1. /\ f.at = "lost" => f.kind = "exit"
      /\ f.at = "available" => f.kind = "launch"
  BY <1>0 DEF Reporting, Kinds
<1>2. CASE f.at = "available" /\ HasSession(f.id, f.generation)
  <2>1. PICK at : at = "check" /\ at \in Working[f.kind] \union Reporting[f.kind]
    BY <1>1, <1>2 DEF Working, Reporting
  <2>2. Moves(f, at)
    BY <1>2, <2>1 DEF Delivered, HasSession
  <2>3. Handed(f, At(f, at)) /\ At(f, at) # f
    BY <1>1, <1>2, <2>1, AtFields DEF Handed
  <2> QED
    BY <1>1, <1>2, <2>2, <2>3 DEF Moves
<1>3. CASE f.at = "lost"
  <2>1. PICK at : at = "clean" /\ at \in Working[f.kind] \union Reporting[f.kind]
    BY <1>1, <1>3 DEF Working, Reporting
  <2>2. Moves(f, at)
    BY <1>3, <2>1 DEF Delivered
  <2>3. Handed(f, At(f, at)) /\ At(f, at) # f
    BY <1>1, <1>3, <2>1, AtFields DEF Handed
  <2> QED
    BY <1>1, <1>3, <2>2, <2>3 DEF Moves
<1>4. CASE f.at # "lost" /\ ~(f.at = "available" /\ HasSession(f.id, f.generation))
  <2>1. Ends(f)
    BY <1>4 DEF Delivered, HasSession
  <2> QED
    BY <1>1, <1>4, <2>1 DEF Ends
<1> QED
  BY <1>2, <1>3, <1>4

\* A generation is up after an outcome only as it was, unless the outcome was its.
LEMMA ToldUp ==
  ASSUME NEW st, NEW new, NEW out, NEW f, Told(st, new, out, f), NEW t \in Services, NEW h,
         UpAt(new.services[t], h)
  PROVE  /\ UpAt(st.services[t], h)
         /\ \/ SameHealth(st.services[t], new.services[t])
            \/ t = f.id /\ h = f.generation /\ GoesOnAs(st, new, out, f)
<1>1. CASE new = st /\ out = {}
  BY <1>1 DEF SameHealth
<1>2. CASE GoesOnAs(st, new, out, f)
  <2>1. CASE t = f.id
    BY <1>2, <2>1 DEF GoesOnAs, Checked, AtPhase, UpAt, Stoppable
  <2>2. CASE t # f.id
    <3>1. CalmService(t, st.services[t], new.services[t], out)
      BY <1>2, <2>2 DEF GoesOnAs, Checked, Tells
    <3> QED
      BY <3>1 DEF CalmService, SameHealth, UpAt, Stoppable
  <2> QED
    BY <2>1, <2>2
<1>3. CASE GoesDownAs(st, new, out, f)
  <2>1. t # f.id
    BY <1>3 DEF GoesDownAs, Downed, UpAt
  <2>2. CalmService(t, st.services[t], new.services[t], out)
    BY <1>3, <2>1 DEF GoesDownAs, Downed, Tells
  <2> QED
    BY <2>2 DEF CalmService, SameHealth, UpAt, Stoppable
<1> QED
  BY <1>1, <1>2, <1>3 DEF Told

\* All it commands is to stop what is not up.
LEMMA ToldForked ==
  ASSUME NEW st, NEW new, NEW out, NEW f, Told(st, new, out, f), Plain(st, out),
         \A s \in Services : st.generationCounters[s] \in Nat, NEW c \in Forked(out)
  PROVE  /\ c.op = "Stop" /\ c.id \in Services /\ c.generation \in Nat
         /\ c.generation < st.generationCounters[c.id]
         /\ ~UpAt(new.services[c.id], c.generation)
<1>1. PICK x \in out : x.tag = c.op /\ x.id = c.id /\ x.generation = c.generation
  BY ForkedIs
<1>2. c.op \in {"Launch", "Stop", "Reprobe"}
  BY ForkedIs
<1>3. CalmOut(new, out)
  BY <1>1 DEF Told, GoesOnAs, GoesDownAs, Checked, Downed, Tells
<1>4. c.op = "Stop" /\ ~UpAt(new.services[c.id], c.generation)
  BY <1>1, <1>2, <1>3 DEF CalmOut
<1>5. x.id \in Services /\ x.generation \in 1..(st.generationCounters[x.id] - 1)
  BY <1>1, <1>4 DEF Plain, LifecycleCommands
<1> QED
  BY <1>1, <1>4, <1>5

\* The phase of a service is of the generation it was of.
LEMMA ToldNewest ==
  ASSUME NEW st \in SoundState, NEW new \in SoundState, NEW out, NEW f, Told(st, new, out, f),
         new.generationCounters = st.generationCounters, Newest(st)
  PROVE  Newest(new)
<1>1. ASSUME NEW t \in Services, new.services[t].phase.tag # "Stopped"
      PROVE  new.services[t].phase.generation = new.generationCounters[t] - 1
  <2>1. /\ SoundService(st.services[t], st.generationCounters[t])
        /\ SoundService(new.services[t], new.generationCounters[t])
    BY SoundFields
  <2>2. new.services[t].phase.generation = st.services[t].phase.generation
    <3>1. CASE new = st
      BY <3>1
    <3>2. CASE GoesOnAs(st, new, out, f)
      BY <1>1, <3>2 DEF GoesOnAs, Checked, AtPhase, Tells, CalmService
    <3>3. CASE GoesDownAs(st, new, out, f)
      BY <1>1, <3>3 DEF GoesDownAs, Downed, Tells, CalmService
    <3> QED
      BY <3>1, <3>2, <3>3 DEF Told
  <2>3. st.services[t].phase.tag # "Stopped"
    BY <1>1, <2>1, <2>2 DEF SoundService
  <2> QED
    BY <2>2, <2>3 DEF Newest
<1> QED
  BY <1>1 DEF Newest

\* Of the generation whose launch or check reports, there is no other.
LEMMA TheOnlyOne ==
  ASSUME OwnerInv, ExecutionsFollow, NEW f \in fibers, f.kind \in {"launch", "reprobe"}
  PROVE  /\ LaunchCommand(f.id, f.generation) \notin commands
         /\ ReprobeCommand(f.id, f.generation) \notin commands
         /\ \A h \in fibers : h.kind \in {"launch", "reprobe"} /\ Same(f, h) => h = f
<1>1. OneLaunch /\ OneCheck(commands, fibers)
  BY OwnerParts DEF BoundaryInv, ExecutionsFollow, Coherent
<1>2. CASE f.kind = "reprobe"
  BY <1>1, <1>2 DEF OneCheck
<1>3. CASE f.kind = "launch"
  <2>1. LaunchCommand(f.id, f.generation) \notin commands
    BY <1>1, <1>3 DEF OneLaunch
  <2>2. ReprobeCommand(f.id, f.generation) \notin commands
    BY <1>1, <1>3, CommandFields DEF OneCheck, Same
  <2>3. ASSUME NEW h \in fibers, h.kind = "launch", Same(f, h)
        PROVE  h = f
    BY <1>1, <1>3, <2>3 DEF OneLaunch, Same
  <2>4. ASSUME NEW h \in fibers, h.kind = "reprobe", Same(f, h)
        PROVE  h = f
    BY <1>1, <1>3, <2>4 DEF OneCheck, Same
  <2> QED
    BY <2>1, <2>2, <2>3, <2>4
<1> QED
  BY <1>2, <1>3
-----------------------------------------------------------------------------
(* Between an outcome and the pass that settles it.                        *)

Between(f, new, out) ==
  /\ Delivered(f) /\ Told(lifecycle, new, out, f) /\ Plain(lifecycle, out)
  /\ new \in SoundState /\ new.members = lifecycle.members
  /\ new.generationCounters = lifecycle.generationCounters

\* What the next lemmas share.
LEMMA BetweenFacts ==
  ASSUME OwnerInv, ExecutionsFollow, NEW f \in fibers, NEW new, NEW out, Between(f, new, out)
  PROVE  /\ f \in Fiber /\ f.id \in Services /\ f.generation \in Nat
         /\ fibers \ {f} \subseteq fibers' /\ f \notin fibers'
         /\ \A x \in fibers' : x \in fibers \/ Handed(f, x)
         /\ \A x, y \in fibers' : x \notin fibers /\ y \notin fibers => x = y
         /\ f.at = "lost" => f.kind = "exit" /\ \E x \in fibers' : Handed(f, x)
         /\ f.at = "available" => f.kind = "launch"
         /\ \A c \in Forked(out) :
              /\ c.op = "Stop" /\ c.id \in Services
              /\ c.generation < lifecycle.generationCounters[c.id]
              /\ ~UpAt(new.services[c.id], c.generation)
         /\ \A x \in commands \union fibers' : x.id \in Services
<1>1. f \in Fiber /\ f.id \in Services /\ f.generation \in Nat /\ lifecycle \in SoundState
  BY FollowFacts DEF Executions
<1>2. /\ fibers \ {f} \subseteq fibers' /\ f \notin fibers'
      /\ \A x \in fibers' : x \in fibers \/ Handed(f, x)
      /\ \A x, y \in fibers' : x \notin fibers /\ y \notin fibers => x = y
      /\ f.at = "lost" => f.kind = "exit" /\ \E x \in fibers' : Handed(f, x)
      /\ f.at = "available" => f.kind = "launch"
  BY <1>1, DeliveredFibers DEF Between
<1>3. ASSUME NEW c \in Forked(out)
      PROVE  /\ c.op = "Stop" /\ c.id \in Services
             /\ c.generation < lifecycle.generationCounters[c.id]
             /\ ~UpAt(new.services[c.id], c.generation)
  <2>1. \A s \in Services : lifecycle.generationCounters[s] \in Nat
    BY <1>1, FollowFacts
  <2> QED
    BY <2>1, ToldForked DEF Between
<1>4. ASSUME NEW x \in commands \union fibers'
      PROVE  x.id \in Services
  <2>1. \A y \in commands \union fibers : y.id \in Services
    BY FollowFacts
  <2> QED
    BY <1>1, <1>2, <2>1 DEF Handed
<1> QED
  BY <1>1, <1>2, <1>3, <1>4

\* What is up after an outcome was up, with its health unless it reports.
LEMMA BetweenUp ==
  ASSUME NEW f, NEW new, NEW out, Between(f, new, out), NEW t \in Services, NEW h,
         UpAt(new.services[t], h)
  PROVE  /\ UpAt(lifecycle.services[t], h)
         /\ \/ SameHealth(lifecycle.services[t], new.services[t])
            \/ t = f.id /\ h = f.generation /\ GoesOnAs(lifecycle, new, out, f)
BY ToldUp DEF Between

\* The phases have their prerequisites and their generations.
LEMMA BetweenPhases ==
  ASSUME OwnerInv, ExecutionsFollow, NEW f \in fibers, NEW new, NEW out, Between(f, new, out)
  PROVE  /\ Rooted(new) /\ Newest(new)
         /\ Launched(new, commands \union Forked(out), fibers')
<1>1. /\ Rooted(lifecycle) /\ Newest(lifecycle) /\ Launched(lifecycle, commands, fibers)
      /\ lifecycle \in SoundState
  BY FollowFacts DEF ExecutionsFollow, Coherent
<1>2. Rooted(new)
  BY <1>1 DEF Between, Told, GoesOnAs, GoesDownAs, Checked
<1>3. Newest(new)
  BY <1>1, ToldNewest DEF Between
<1>4. new.generationCounters = lifecycle.generationCounters
  BY DEF Between
<1>5. ASSUME NEW x \in fibers'
      PROVE  x.generation < lifecycle.generationCounters[x.id]
  BY <1>1, BetweenFacts DEF Launched, Handed
<1>6. ASSUME NEW x \in commands \union Forked(out)
      PROVE  x.generation < lifecycle.generationCounters[x.id]
  BY <1>1, BetweenFacts DEF Launched
<1>7. Launched(new, commands \union Forked(out), fibers')
  BY <1>1, <1>4, <1>5, <1>6 DEF Launched
<1> QED
  BY <1>2, <1>3, <1>7

\* Nothing that is up is stopped, not even by the exit that begins to clean up.
LEMMA BetweenStops ==
  ASSUME OwnerInv, ExecutionsFollow, NEW f \in fibers, NEW new, NEW out, Between(f, new, out)
  PROVE  StopsAreDue(new, commands \union Forked(out), fibers')
<1>1. StopsAreDue(lifecycle, commands, fibers) /\ Rooted(lifecycle)
  BY DEF ExecutionsFollow, Coherent
<1>2. ASSUME NEW c \in commands \union Forked(out), c.op = "Stop"
      PROVE  ~UpAt(new.services[c.id], c.generation)
  <2>1. CASE c \in Forked(out)
    BY <2>1, BetweenFacts
  <2>2. CASE c \in commands
    <3>1. c.id \in Services /\ ~UpAt(lifecycle.services[c.id], c.generation)
      BY <1>1, <1>2, <2>2, FollowFacts DEF StopsAreDue
    <3> QED
      BY <3>1, BetweenUp
  <2> QED
    BY <2>1, <2>2
<1>3. ASSUME NEW x \in fibers', x.kind = "stop" \/ (x.kind = "exit" /\ x.at # "lost")
      PROVE  ~UpAt(new.services[x.id], x.generation)
  <2>0. x.id \in Services
    BY BetweenFacts
  <2>1. CASE x \in fibers
    <3>1. ~UpAt(lifecycle.services[x.id], x.generation)
      BY <1>1, <1>3, <2>1 DEF StopsAreDue
    <3> QED
      BY <2>0, <3>1, BetweenUp
  <2>2. CASE Handed(f, x)
    <3>1. f.kind = "exit" /\ f.at = "lost" /\ x.id = f.id /\ x.generation = f.generation
      BY <1>3, <2>2 DEF Handed
    <3>2. CASE Unawaited(lifecycle, f)
      <4>1. ~UpAt(lifecycle.services[f.id], f.generation)
        BY <1>1, <2>0, <3>1, <3>2 DEF Unawaited, UpAt, Rooted
      <4> QED
        BY <2>0, <3>1, <4>1, BetweenUp
    <3>3. CASE GoesDownAs(lifecycle, new, out, f)
      BY <3>1, <3>3 DEF GoesDownAs, Downed, UpAt
    <3>4. ~GoesOnAs(lifecycle, new, out, f)
      BY <3>1 DEF GoesOnAs
    <3> QED
      BY <3>2, <3>3, <3>4 DEF Between, Told
  <2> QED
    BY <2>1, <2>2, BetweenFacts
<1>4. ASSUME NEW s \in Services, Stoppable(new.services[s])
      PROVE  stoppedThrough[s] < new.services[s].phase.generation
  <2>1. PICK h : h = new.services[s].phase.generation
    OBVIOUS
  <2>2. UpAt(new.services[s], h)
    BY <1>4, <2>1 DEF UpAt
  <2>3. UpAt(lifecycle.services[s], h)
    BY <2>2, BetweenUp
  <2> QED
    BY <1>1, <2>1, <2>3 DEF StopsAreDue, UpAt
<1> QED
  BY <1>2, <1>3, <1>4 DEF StopsAreDue

\* The launches that have not reported find their generation starting.
LEMMA BetweenLaunches ==
  ASSUME OwnerInv, ExecutionsFollow, NEW f \in fibers, NEW new, NEW out, Between(f, new, out)
  PROVE  LaunchesAreFirst(new, commands \union Forked(out), fibers')
<1>1. LaunchesAreFirst(lifecycle, commands, fibers)
  BY DEF ExecutionsFollow, Coherent
<1>2. ASSUME NEW c \in commands \union Forked(out), c.op = "Launch", UpAt(new.services[c.id], c.generation)
      PROVE  new.services[c.id].phase.tag = "Starting" /\ Unchecked(new.services[c.id])
  <2>1. c \in commands /\ c.id \in Services /\ c \in Command
    BY <1>2, BetweenFacts, FollowFacts DEF Executions
  <2>2. UpAt(lifecycle.services[c.id], c.generation)
    BY <1>2, <2>1, BetweenUp
  <2>3. lifecycle.services[c.id].phase.tag = "Starting" /\ Unchecked(lifecycle.services[c.id])
    BY <1>1, <1>2, <2>1, <2>2 DEF LaunchesAreFirst
  <2>4. c = LaunchCommand(c.id, c.generation)
    BY <1>2, <2>1, CommandIs
  <2>5. ~(c.id = f.id /\ c.generation = f.generation /\ GoesOnAs(lifecycle, new, out, f))
    BY <2>1, <2>4, TheOnlyOne DEF GoesOnAs
  <2>6. SameHealth(lifecycle.services[c.id], new.services[c.id])
    BY <1>2, <2>1, <2>5, BetweenUp
  <2> QED
    BY <2>3, <2>6 DEF SameHealth, Unchecked
<1>3. ASSUME NEW x \in fibers', x.kind = "launch", UpAt(new.services[x.id], x.generation)
      PROVE  /\ x.at \in Unreported => new.services[x.id].phase.tag = "Starting"
             /\ Unchecked(new.services[x.id])
  <2>0. x.id \in Services
    BY BetweenFacts
  <2>1. UpAt(lifecycle.services[x.id], x.generation)
    BY <1>3, <2>0, BetweenUp
  <2>2. CASE x \in fibers
    <3>1. /\ x.at \in Unreported => lifecycle.services[x.id].phase.tag = "Starting"
          /\ Unchecked(lifecycle.services[x.id])
      BY <1>1, <1>3, <2>1, <2>2 DEF LaunchesAreFirst
    <3>2. ~(x.id = f.id /\ x.generation = f.generation /\ GoesOnAs(lifecycle, new, out, f))
      <4>1. ASSUME x.id = f.id, x.generation = f.generation, GoesOnAs(lifecycle, new, out, f)
            PROVE  FALSE
        <5>1. x = f
          BY <1>3, <2>2, <4>1, TheOnlyOne DEF GoesOnAs, Same
        <5> QED
          BY <5>1, BetweenFacts
      <4> QED
        BY <4>1
    <3>3. SameHealth(lifecycle.services[x.id], new.services[x.id])
      BY <1>3, <2>0, <3>2, BetweenUp
    <3> QED
      BY <3>1, <3>3 DEF SameHealth, Unchecked
  <2>3. CASE Handed(f, x)
    <3>1. /\ x.id = f.id /\ x.generation = f.generation /\ x.at = "check" /\ f.at = "available"
          /\ f.kind = "launch"
      BY <1>3, <2>3 DEF Handed
    <3>2. Unchecked(lifecycle.services[f.id])
      BY <1>1, <2>1, <3>1 DEF LaunchesAreFirst
    <3>3. Unchecked(new.services[f.id])
      BY <1>3, <2>0, <3>1, <3>2, BetweenUp DEF GoesOnAs, SameHealth, Unchecked
    <3> QED
      BY <3>1, <3>3 DEF Unreported
  <2> QED
    BY <2>2, <2>3, BetweenFacts
<1> QED
  BY <1>2, <1>3 DEF LaunchesAreFirst

\* A check under way is still awaited: the one that reports was the only one.
LEMMA BetweenChecks ==
  ASSUME OwnerInv, ExecutionsFollow, NEW f \in fibers, NEW new, NEW out, Between(f, new, out)
  PROVE  /\ ChecksAreAwaited(new, commands \union Forked(out), fibers')
         /\ OneCheck(commands \union Forked(out), fibers')
<1>1. ChecksAreAwaited(lifecycle, commands, fibers) /\ OneCheck(commands, fibers)
  BY DEF ExecutionsFollow, Coherent
<1>2. ASSUME NEW c \in commands \union Forked(out), c.op = "Reprobe", UpAt(new.services[c.id], c.generation)
      PROVE  new.services[c.id].reprobing
  <2>1. c \in commands /\ c.id \in Services /\ c \in Command
    BY <1>2, BetweenFacts, FollowFacts DEF Executions
  <2>2. UpAt(lifecycle.services[c.id], c.generation)
    BY <1>2, <2>1, BetweenUp
  <2>3. lifecycle.services[c.id].reprobing
    BY <1>1, <1>2, <2>1, <2>2 DEF ChecksAreAwaited
  <2>4. c = ReprobeCommand(c.id, c.generation)
    BY <1>2, <2>1, CommandIs
  <2>5. ~(c.id = f.id /\ c.generation = f.generation /\ GoesOnAs(lifecycle, new, out, f))
    BY <2>1, <2>4, TheOnlyOne DEF GoesOnAs
  <2>6. SameHealth(lifecycle.services[c.id], new.services[c.id])
    BY <1>2, <2>1, <2>5, BetweenUp
  <2> QED
    BY <2>3, <2>6 DEF SameHealth
<1>3. ASSUME NEW x \in fibers', x.kind = "reprobe"
      PROVE  x \in fibers /\ x # f
  BY <1>3, BetweenFacts DEF Handed
<1>4. ASSUME NEW x \in fibers', x.kind = "reprobe", UpAt(new.services[x.id], x.generation)
      PROVE  new.services[x.id].reprobing
  <2>0. x.id \in Services
    BY BetweenFacts
  <2>1. UpAt(lifecycle.services[x.id], x.generation)
    BY <1>4, <2>0, BetweenUp
  <2>2. lifecycle.services[x.id].reprobing
    BY <1>1, <1>3, <1>4, <2>1 DEF ChecksAreAwaited
  <2>3. ~(x.id = f.id /\ x.generation = f.generation /\ GoesOnAs(lifecycle, new, out, f))
    BY <1>3, <1>4, TheOnlyOne DEF GoesOnAs, Same
  <2>4. SameHealth(lifecycle.services[x.id], new.services[x.id])
    BY <1>4, <2>0, <2>3, BetweenUp
  <2> QED
    BY <2>2, <2>4 DEF SameHealth
<1>5. ChecksAreAwaited(new, commands \union Forked(out), fibers')
  BY <1>2, <1>4 DEF ChecksAreAwaited
<1>6. \A s, g : LaunchCommand(s, g) \notin Forked(out) /\ ReprobeCommand(s, g) \notin Forked(out)
  BY BetweenFacts, CommandFields
<1>7. ASSUME NEW x \in fibers', x.kind = "reprobe"
      PROVE  /\ ReprobeCommand(x.id, x.generation) \notin commands \union Forked(out)
             /\ LaunchCommand(x.id, x.generation) \notin commands \union Forked(out)
             /\ \A h \in fibers' : h.kind \in {"launch", "reprobe"} /\ Same(x, h) => h = x
  <2>1. x \in fibers /\ x # f
    BY <1>3, <1>7
  <2>2. ASSUME NEW h \in fibers', h.kind \in {"launch", "reprobe"}, Same(x, h)
        PROVE  h = x
    <3>1. CASE h \in fibers
      BY <1>1, <1>7, <2>1, <2>2, <3>1 DEF OneCheck
    <3>2. CASE Handed(f, h)
      <4>1. f.kind \in {"launch", "reprobe"} /\ Same(x, f)
        BY <2>2, <3>2 DEF Handed, Same
      <4> QED
        BY <1>1, <1>7, <2>1, <4>1 DEF OneCheck
    <3> QED
      BY <3>1, <3>2, BetweenFacts
  <2> QED
    BY <1>1, <1>6, <1>7, <2>1, <2>2 DEF OneCheck
<1>8. ASSUME NEW c \in commands \union Forked(out), c.op = "Reprobe"
      PROVE  /\ LaunchCommand(c.id, c.generation) \notin commands \union Forked(out)
             /\ \A h \in fibers' : h.kind = "launch" => ~Same(c, h)
  <2>1. c \in commands
    BY <1>8, BetweenFacts
  <2>2. ASSUME NEW h \in fibers', h.kind = "launch", Same(c, h)
        PROVE  FALSE
    <3>1. PICK w \in fibers : w.kind = "launch" /\ Same(c, w)
      BY <2>2, BetweenFacts DEF Handed, Same
    <3> QED
      BY <1>1, <1>8, <2>1, <3>1 DEF OneCheck
  <2> QED
    BY <1>1, <1>6, <1>8, <2>1, <2>2 DEF OneCheck
<1> QED
  BY <1>5, <1>7, <1>8 DEF OneCheck

\* What has begun to run has its session.
LEMMA BetweenSessions ==
  ASSUME OwnerInv, ExecutionsFollow, NEW f \in fibers, NEW new, NEW out, Between(f, new, out)
  PROVE  SessionsRun(new, fibers')
<1>1. SessionsRun(lifecycle, fibers)
  BY DEF ExecutionsFollow, Coherent
<1>2. ASSUME NEW s \in Services, new.services[s].phase.tag = "Running"
      PROVE  HasSession(s, new.services[s].phase.generation)
  <2>1. PICK h : h = new.services[s].phase.generation
    OBVIOUS
  <2>2. UpAt(new.services[s], h)
    BY <1>2, <2>1 DEF UpAt, Stoppable
  <2>3. UpAt(lifecycle.services[s], h)
    BY <2>2, BetweenUp
  <2>4. CASE lifecycle.services[s].phase.tag = "Running"
    BY <1>1, <2>1, <2>3, <2>4 DEF SessionsRun, UpAt
  <2>5. CASE lifecycle.services[s].phase.tag # "Running"
    <3>1. s = f.id /\ h = f.generation /\ GoesOnAs(lifecycle, new, out, f)
      BY <1>2, <2>2, <2>5, BetweenUp DEF SameHealth
    <3>2. f.kind = "launch" /\ f.at \in {"available", "succeeded"}
      BY <2>5, <3>1 DEF GoesOnAs
    <3> QED
      BY <1>1, <2>1, <2>3, <3>1, <3>2 DEF SessionsRun
  <2> QED
    BY <2>4, <2>5
<1>3. ASSUME NEW x \in fibers', UpAt(new.services[x.id], x.generation)
      PROVE  /\ x.kind = "launch" /\ x.at \in Found => HasSession(x.id, x.generation)
             /\ x.kind = "exit" => session[x.id].generation = x.generation
  <2>0. x.id \in Services
    BY BetweenFacts
  <2>1. UpAt(lifecycle.services[x.id], x.generation)
    BY <1>3, <2>0, BetweenUp
  <2>2. CASE x \in fibers
    BY <1>1, <2>1, <2>2 DEF SessionsRun, Found
  <2>3. CASE Handed(f, x)
    <3>1. /\ x.kind = f.kind /\ x.id = f.id /\ x.generation = f.generation
          /\ f.kind = "launch" => HasSession(f.id, f.generation)
      BY <2>3 DEF Handed
    <3>2. f.kind = "exit" => session[f.id].generation = f.generation
      BY <1>1, <2>1, <3>1 DEF SessionsRun
    <3> QED
      BY <3>1, <3>2
  <2> QED
    BY <2>2, <2>3, BetweenFacts
<1> QED
  BY <1>2, <1>3 DEF SessionsRun, Found

\* A service that the outcome is not about waits for what it waited for.
LEMMA OthersDriven ==
  ASSUME OwnerInv, ExecutionsFollow, NEW f \in fibers, NEW new, NEW out, Between(f, new, out),
         NEW t \in lifecycle.members, t # f.id
  PROVE  Awaits(new.services[t], t, commands \union Forked(out), fibers')
<1>0. /\ Driven(lifecycle, commands, fibers) /\ t \in Services
  BY FollowFacts, SoundMembers DEF ExecutionsFollow, Coherent
<1>1. PICK gone : gone = {f} /\ fibers \ gone \subseteq fibers'
  BY BetweenFacts
<1>2. ASSUME NEW kind, NEW g, NEW steps, UnderWay(kind, t, g, steps, fibers)
      PROVE  UnderWay(kind, t, g, steps, fibers')
  <2>1. \A w \in gone : ~(w.kind = kind /\ w.id = t /\ w.generation = g /\ w.at \in steps)
    BY <1>1
  <2> QED
    BY <1>1, <1>2, <2>1, UnderWayLeft
<1>3. PICK p : p = lifecycle.services[t]
  OBVIOUS
<1>4. PICK q : q = new.services[t]
  OBVIOUS
<1>5. PICK g : g = q.phase.generation
  OBVIOUS
<1>6. Awaits(p, t, commands, fibers)
  BY <1>0, <1>3 DEF Driven
<1>7. CalmService(t, p, q, out) \/ q = p
  BY <1>0, <1>3, <1>4 DEF Between, Told, GoesOnAs, GoesDownAs, Checked, Downed, Tells
<1>8. Stoppable(q) => SameHealth(p, q)
  BY <1>7 DEF CalmService, SameHealth
<1>9. ASSUME q.phase.tag = "Starting"
      PROVE  LaunchUnderWay(t, g, commands \union Forked(out), fibers')
  <2>1. LaunchUnderWay(t, g, commands, fibers)
    BY <1>5, <1>6, <1>8, <1>9 DEF Awaits, SameHealth, Stoppable
  <2> QED
    BY <1>2, <2>1 DEF LaunchUnderWay
<1>10. ASSUME q.phase.tag = "Running", q.reprobing
       PROVE  CheckUnderWay(t, g, commands \union Forked(out), fibers')
  <2>1. CheckUnderWay(t, g, commands, fibers)
    BY <1>5, <1>6, <1>8, <1>10 DEF Awaits, SameHealth, Stoppable
  <2> QED
    BY <1>2, <2>1 DEF CheckUnderWay
<1>11. ASSUME q.phase.tag = "Stopping", ~q.cleanupFailure
       PROVE  StopUnderWay(t, g, commands \union Forked(out), fibers')
  <2>1. \/ WindsDown(p) /\ p.phase.generation = g
        \/ Stop(t, g) \in out
    BY <1>5, <1>7, <1>11 DEF CalmService, WindsDown
  <2>2. CASE Stop(t, g) \in out
    BY <2>2, ForkedHas DEF StopUnderWay
  <2>3. CASE WindsDown(p) /\ p.phase.generation = g
    <3>1. StopUnderWay(t, g, commands, fibers)
      BY <1>6, <2>3 DEF Awaits, WindsDown
    <3> QED
      BY <1>2, <3>1 DEF StopUnderWay
  <2> QED
    BY <2>1, <2>2, <2>3
<1> QED
  BY <1>4, <1>5, <1>9, <1>10, <1>11 DEF Awaits

\* The one it is about waits for nothing more, but for the exit that cleans up.
LEMMA ItsDriven ==
  ASSUME OwnerInv, ExecutionsFollow, NEW f \in fibers, NEW new, NEW out, Between(f, new, out),
         f.id \in lifecycle.members, GoesOnAs(lifecycle, new, out, f) \/ GoesDownAs(lifecycle, new, out, f)
  PROVE  Awaits(new.services[f.id], f.id, commands \union Forked(out), fibers')
<1>1. PICK q : q = new.services[f.id]
  OBVIOUS
<1>2. CASE GoesOnAs(lifecycle, new, out, f)
  BY <1>1, <1>2 DEF GoesOnAs, Checked, Awaits
<1>3. CASE GoesDownAs(lifecycle, new, out, f)
  <2>1. ~Stoppable(q) /\ (q.phase.tag # "Stopped" => q.phase.generation = f.generation)
    BY <1>1, <1>3 DEF GoesDownAs, Downed
  <2>2. ASSUME WindsDown(q)
        PROVE  StopUnderWay(f.id, q.phase.generation, commands \union Forked(out), fibers')
    <3>1. f.at = "lost" /\ f.kind = "exit" /\ Stoppable(lifecycle.services[f.id])
      BY <1>1, <1>3, <2>2 DEF GoesDownAs
    <3>2. UpAt(lifecycle.services[f.id], f.generation)
      BY <1>3, <3>1 DEF GoesDownAs, Downed, UpAt
    <3>3. session[f.id].generation = f.generation
      BY <3>1, <3>2 DEF ExecutionsFollow, Coherent, SessionsRun
    <3>4. PICK x \in fibers' : Handed(f, x)
      BY <3>1, BetweenFacts
    <3>5. UnderWay("exit", f.id, f.generation, {"lost", "clean"}, fibers')
      BY <3>1, <3>4 DEF Handed, UnderWay
    <3>6. q.phase.generation = f.generation
      BY <2>1, <2>2 DEF WindsDown
    <3> QED
      BY <3>3, <3>5, <3>6 DEF StopUnderWay
  <2> QED
    BY <1>1, <2>1, <2>2 DEF Awaits, Stoppable, WindsDown
<1> QED
  BY <1>2, <1>3

\* An outcome that finds no phase leaves all waiting as they were.
LEMMA IgnoredDriven ==
  ASSUME OwnerInv, ExecutionsFollow, NEW f \in fibers, NEW out, Between(f, lifecycle, out),
         f.id \in lifecycle.members, Unawaited(lifecycle, f)
  PROVE  Awaits(lifecycle.services[f.id], f.id, commands \union Forked(out), fibers')
<1>0. Driven(lifecycle, commands, fibers)
  BY DEF ExecutionsFollow, Coherent
<1>1. PICK gone : gone = {f} /\ fibers \ gone \subseteq fibers'
  BY BetweenFacts
<1>2. PICK p : p = lifecycle.services[f.id]
  OBVIOUS
<1>3. PICK g : g = p.phase.generation
  OBVIOUS
<1>4. PICK s : s = f.id
  OBVIOUS
<1>5. Awaits(p, s, commands, fibers)
  BY <1>0, <1>2, <1>4 DEF Driven
<1>6. f.generation = g =>
        /\ f.at = "lost" => ~Stoppable(p)
        /\ f.kind = "launch" /\ f.at \in Unreported => p.phase.tag # "Starting"
        /\ f.kind \in {"stop", "exit"} /\ f.at # "lost" => p.phase.tag # "Stopping"
        /\ f.kind = "reprobe" => p.phase.tag # "Running"
  BY <1>2, <1>3 DEF Unawaited
<1>7. ASSUME NEW kind, NEW steps, UnderWay(kind, s, g, steps, fibers),
             ~(f.kind = kind /\ f.generation = g /\ f.at \in steps)
      PROVE  UnderWay(kind, s, g, steps, fibers')
  <2>1. \A w \in gone : ~(w.kind = kind /\ w.id = s /\ w.generation = g /\ w.at \in steps)
    BY <1>1, <1>7
  <2> QED
    BY <1>1, <1>7, <2>1, UnderWayLeft
<1>8. ASSUME p.phase.tag = "Starting"
      PROVE  LaunchUnderWay(s, g, commands \union Forked(out), fibers')
  <2>1. LaunchUnderWay(s, g, commands, fibers)
    BY <1>3, <1>5, <1>8 DEF Awaits
  <2>2. ~(f.kind = "launch" /\ f.generation = g /\ f.at \in Unreported)
    BY <1>6, <1>8
  <2> QED
    BY <1>7, <2>1, <2>2 DEF LaunchUnderWay
<1>9. ASSUME p.phase.tag = "Running", p.reprobing
      PROVE  CheckUnderWay(s, g, commands \union Forked(out), fibers')
  <2>1. CheckUnderWay(s, g, commands, fibers)
    BY <1>3, <1>5, <1>9 DEF Awaits
  <2>2. ~(f.kind = "reprobe" /\ f.generation = g)
    BY <1>6, <1>9
  <2> QED
    BY <1>7, <2>1, <2>2 DEF CheckUnderWay
<1>10. ASSUME p.phase.tag = "Stopping", ~p.cleanupFailure
       PROVE  StopUnderWay(s, g, commands \union Forked(out), fibers')
  <2>1. StopUnderWay(s, g, commands, fibers)
    BY <1>3, <1>5, <1>10 DEF Awaits
  <2>2. ~(f.kind \in {"stop", "exit"} /\ f.generation = g /\ f.at # "lost")
    BY <1>6, <1>10
  <2>3. f.at = "lost" => f.kind = "exit"
    BY BetweenFacts
  <2>4. CASE f.kind = "exit" /\ f.at = "lost" /\ f.generation = g
    <3>1. PICK x \in fibers' : Handed(f, x)
      BY <2>4, BetweenFacts
    <3>2. UnderWay("exit", s, g, {"lost", "clean"}, fibers')
      BY <1>4, <2>4, <3>1 DEF Handed, UnderWay
    <3>3. UnderWay("stop", s, g, Steps, fibers) => UnderWay("stop", s, g, Steps, fibers')
      BY <1>7, <2>4
    <3>4. UnderWay("exit", s, g, {"exited", "stopFailed"}, fibers) =>
            UnderWay("exit", s, g, {"exited", "stopFailed"}, fibers')
      BY <1>7, <2>4
    <3> QED
      BY <2>1, <3>2, <3>3, <3>4 DEF StopUnderWay
  <2>5. CASE ~(f.kind = "exit" /\ f.at = "lost" /\ f.generation = g)
    <3>1. ~(f.kind \in {"stop", "exit"} /\ f.generation = g)
      BY <2>2, <2>3, <2>5
    <3> QED
      BY <1>7, <2>1, <3>1 DEF StopUnderWay
  <2> QED
    BY <2>4, <2>5
<1> QED
  BY <1>2, <1>3, <1>4, <1>8, <1>9, <1>10 DEF Awaits

\* Together: an outcome leaves the executions and the phases in step.
LEMMA BetweenCoheres ==
  ASSUME OwnerInv, ExecutionsFollow, NEW f \in fibers, NEW new, NEW out, Between(f, new, out)
  PROVE  Coherent(new, commands \union Forked(out), fibers')
<1>1. ASSUME NEW t \in new.members
      PROVE  Awaits(new.services[t], t, commands \union Forked(out), fibers')
  <2>1. t \in lifecycle.members
    BY DEF Between
  <2>2. CASE t # f.id
    BY <2>1, <2>2, OthersDriven
  <2>3. CASE t = f.id /\ new = lifecycle /\ out = {} /\ Unawaited(lifecycle, f)
    BY <2>1, <2>3, IgnoredDriven
  <2>4. CASE t = f.id /\ (GoesOnAs(lifecycle, new, out, f) \/ GoesDownAs(lifecycle, new, out, f))
    BY <2>1, <2>4, ItsDriven
  <2> QED
    BY <2>2, <2>3, <2>4 DEF Between, Told
<1>2. Driven(new, commands \union Forked(out), fibers')
  BY <1>1 DEF Driven
<1>3. SessionsRun(new, fibers') /\ StopsAreDue(new, commands \union Forked(out), fibers')
  BY BetweenSessions, BetweenStops
<1>4. Rooted(new) /\ Newest(new) /\ Launched(new, commands \union Forked(out), fibers')
  BY BetweenPhases
<1>5. LaunchesAreFirst(new, commands \union Forked(out), fibers')
  BY BetweenLaunches
<1>6. /\ ChecksAreAwaited(new, commands \union Forked(out), fibers')
      /\ OneCheck(commands \union Forked(out), fibers')
  BY BetweenChecks
<1> QED
  BY <1>2, <1>3, <1>4, <1>5, <1>6 DEF Coherent
-----------------------------------------------------------------------------
(* The steps that reduce an event.                                         *)

\* What a step leaves is read with the sessions and the fences it leaves alone.
LEMMA CoherentThen ==
  ASSUME Coherent(lifecycle', commands', fibers'), UNCHANGED <<session, stoppedThrough>>
  PROVE  ExecutionsFollow'
<1>1. /\ Rooted(lifecycle)' /\ Newest(lifecycle)' /\ Launched(lifecycle, commands, fibers)'
      /\ StopsAreDue(lifecycle, commands, fibers)'
  BY DEF Coherent, Rooted, Newest, Launched, StopsAreDue
<1>2. /\ LaunchesAreFirst(lifecycle, commands, fibers)' /\ ChecksAreAwaited(lifecycle, commands, fibers)'
      /\ OneCheck(commands, fibers)'
  BY DEF Coherent, LaunchesAreFirst, ChecksAreAwaited, OneCheck
<1>3. SessionsRun(lifecycle, fibers)'
  BY DEF Coherent, SessionsRun, HasSession
<1>4. Driven(lifecycle, commands, fibers)'
  BY DEF Coherent, Driven, Awaits, LaunchUnderWay, StopUnderWay, CheckUnderWay, UnderWay
<1> QED
  BY <1>1, <1>2, <1>3, <1>4 DEF ExecutionsFollow, Coherent

\* Commands in two parts fork in two parts.
LEMMA ForkedUnion ==
  ASSUME NEW a, NEW b
  PROVE  Forked(a \union b) = Forked(a) \union Forked(b)
BY DEF Forked, Tagged

\* An outcome is told, and then a pass settles it.
Settled(f, event) ==
  /\ Between(f, event.st, event.out)
  /\ Reduces(event.st, lifecycle', Turns(event.st))
  /\ commands' = (commands \union Forked(event.out)) \union Forked(Turns(event.st))
  /\ UNCHANGED <<session, stoppedThrough>>

\* Every delivery is an outcome told and a pass that settles it.
LEMMA DeliverSettles ==
  ASSUME OwnerInv, ExecutionsFollow, NEW f \in fibers, Deliver(f)
  PROVE  \E event : Settled(f, event)
<1>1. lifecycle \in SoundState /\ f \in Fiber /\ Reports(f) /\ Delivered(f)
  BY FollowFacts DEF Deliver, Delivered, Executions
<1>2. PICK quiet \in MayBeQuiet(f) : Publish(settle(EventOf(f, quiet, lifecycle)), commands, timers, client)
  BY DEF Deliver
<1>3. PICK event : event = EventOf(f, quiet, lifecycle)
  OBVIOUS
<1>4. PICK over : QuietStep(lifecycle, event, over)
  BY <1>1, <1>3, EventQuiet
<1>5. Told(lifecycle, event.st, event.out, f)
  BY <1>1, <1>3, EventTold
<1>6. Between(f, event.st, event.out)
  BY <1>1, <1>4, <1>5 DEF Between, QuietStep, Quiet, Leads, LeavesStorage
<1>7. PICK step : step = settle(event)
  OBVIOUS
<1>8. event.st \in SoundState
  BY <1>6 DEF Between
<1>9. Reduces(event.st, step.st, Turns(event.st)) /\ step.out = event.out \union Turns(event.st)
  BY <1>7, <1>8, SettleReduces, SettleAdvances
<1>10. lifecycle' = step.st /\ commands' = commands \union Forked(step.out)
  BY <1>2, <1>3, <1>7 DEF Publish
<1>11. commands' = (commands \union Forked(event.out)) \union Forked(Turns(event.st))
  BY <1>9, <1>10, ForkedUnion
<1>12. UNCHANGED <<session, stoppedThrough>>
  BY <1>1 DEF Delivered
<1> QED
  BY <1>6, <1>9, <1>10, <1>11, <1>12 DEF Settled

\* Each part leaves the executions and the phases in step.
LEMMA DeliverFollows ==
  ASSUME OwnerInv, ExecutionsFollow, NEW f \in fibers, Deliver(f)
  PROVE  ExecutionsFollow'
<1>1. PICK event : Settled(f, event)
  BY DeliverSettles
<1>2. PICK st \in SoundState : st = event.st
  BY <1>1 DEF Settled, Between
<1>3. PICK out : out = Turns(event.st)
  OBVIOUS
<1>4. PICK cs : cs = commands \union Forked(event.out)
  OBVIOUS
<1>5. PICK fs : fs = fibers'
  OBVIOUS
<1>6. PICK new : new = lifecycle'
  OBVIOUS
<1>7. Coherent(st, cs, fs)
  <2>1. PICK told : told = event.out
    OBVIOUS
  <2>2. Between(f, st, told)
    BY <1>1, <1>2, <2>1 DEF Settled
  <2> QED
    BY <1>4, <1>5, <2>1, <2>2, BetweenCoheres
<1>8. Executions(cs, fs)
  <2>1. OwnerInv'
    BY DeliverOwner
  <2>2. cs \subseteq commands'
    BY <1>1, <1>4 DEF Settled
  <2> QED
    BY <1>5, <2>1, <2>2 DEF OwnerInv, OrchestratorTypeOK, TypeOK, Executions
<1>9. Reduces(st, new, out) /\ stoppedThrough \in [Services -> Nat]
  BY <1>1, <1>2, <1>3, <1>6, FollowFacts DEF Settled
<1>10. Coherent(new, cs \union Forked(out), fs)
  BY <1>7, <1>8, <1>9, ReducedCoheres
<1>11. Coherent(lifecycle', commands', fibers') /\ UNCHANGED <<session, stoppedThrough>>
  BY <1>1, <1>3, <1>4, <1>5, <1>6, <1>10 DEF Settled
<1> QED
  BY <1>11, CoherentThen

\* A reduction that no execution reports.
LEMMA DispatchFollows ==
  ASSUME OwnerInv, ExecutionsFollow, NEW step, Reduces(lifecycle, step.st, step.out),
         NEW running, NEW callers, Dispatch(step, running, callers)
  PROVE  ExecutionsFollow'
<1>1. /\ lifecycle \in SoundState /\ stoppedThrough \in [Services -> Nat]
      /\ Executions(commands, fibers) /\ Coherent(lifecycle, commands, fibers)
  BY FollowFacts DEF ExecutionsFollow
<1>2. Coherent(step.st, commands \union Forked(step.out), fibers)
  <2>1. PICK new : new = step.st
    OBVIOUS
  <2>2. PICK out : out = step.out
    OBVIOUS
  <2> QED
    BY <1>1, <2>1, <2>2, ReducedCoheres
<1>3. /\ lifecycle' = step.st /\ commands' = commands \union Forked(step.out) /\ fibers' = fibers
      /\ UNCHANGED <<session, stoppedThrough>>
  BY DEF Dispatch, Publish
<1> QED
  BY <1>2, <1>3, CoherentThen

\* What every step that reduces an event of no execution does to the lifecycle.
ReducedStep ==
  \E step : /\ Reduces(lifecycle, step.st, step.out)
            /\ \E running, callers : Dispatch(step, running, callers)

\* A reduced step leaves the executions and the phases in step.
LEMMA ReducedStepFollows ==
  ASSUME OwnerInv, ExecutionsFollow, ReducedStep
  PROVE  ExecutionsFollow'
BY DispatchFollows DEF ReducedStep

\* An idle timer that fires is a reduction.
LEMMA IdleTimerReduces ==
  ASSUME OwnerInv, NEW s \in Services, IdleTimerFires(s)
  PROVE  ReducedStep
<1>1. lifecycle \in SoundState
  BY OwnerParts
<1>2. PICK event : event = IdleElapsed(lifecycle, s, timers.idle[s].generation, timers.idle[s].epoch)
  OBVIOUS
<1>3. QuietStep(lifecycle, event, {}) /\ CalmStep(lifecycle, event)
  BY <1>1, <1>2, IdleElapsedQuiet, IdleElapsedCalm
<1>4. PICK step : step = settle(event)
  OBVIOUS
<1>5. Reduces(lifecycle, step.st, step.out)
  BY <1>1, <1>3, <1>4, SettledCalm DEF QuietStep, Quiet
<1>6. \E running, callers : Dispatch(step, running, callers)
  BY <1>2, <1>4 DEF IdleTimerFires
<1> QED
  BY <1>5, <1>6 DEF ReducedStep

\* So is a cooldown that ends,
LEMMA CooldownTimerReduces ==
  ASSUME OwnerInv, NEW x \in timers.cooldown, CooldownTimerFires(x[1], x[2])
  PROVE  ReducedStep
<1>1. lifecycle \in SoundState
  BY OwnerParts
<1>2. PICK event : event = CooldownElapsed(lifecycle, x[1], x[2])
  OBVIOUS
<1>3. QuietStep(lifecycle, event, {}) /\ CalmStep(lifecycle, event)
  BY <1>1, <1>2, CooldownElapsedQuiet, CooldownElapsedCalm
<1>4. PICK step : step = settle(event)
  OBVIOUS
<1>5. Reduces(lifecycle, step.st, step.out)
  BY <1>1, <1>3, <1>4, SettledCalm DEF QuietStep, Quiet
<1>6. \E running, callers : Dispatch(step, running, callers)
  BY <1>2, <1>4 DEF CooldownTimerFires
<1> QED
  BY <1>5, <1>6 DEF ReducedStep

\* a call with all its waits,
LEMMA EnterReduces ==
  ASSUME OwnerInv, NEW c \in Clients, Enter(c)
  PROVE  ReducedStep
<1>1. lifecycle \in SoundState
  BY OwnerParts
<1>2. PICK call \in Operation : call = client[c].call /\ call.id \in Services
  BY CallOf DEF Enter
<1>3. PICK step : step = Reduced(c, call)
  OBVIOUS
<1>4. step \in Reductions(lifecycle)
  BY <1>1, <1>2, <1>3, ReducedReduces
<1>5. Reduces(lifecycle, step.st, step.out)
  BY <1>4 DEF Reductions
<1>6. \E running, callers : Dispatch(step, running, callers)
  BY <1>2, <1>3 DEF Enter
<1> QED
  BY <1>5, <1>6 DEF ReducedStep

\* their withdrawal,
LEMMA WithdrawReduces ==
  ASSUME OwnerInv, NEW c \in Clients, Withdraw(c)
  PROVE  ReducedStep
<1>1. lifecycle \in SoundState
  BY OwnerParts
<1>2. PICK step : step = Withdrawn(c, client[c].call)
  OBVIOUS
<1>3. step \in Reductions(lifecycle)
  BY <1>1, <1>2, WithdrawnReduces
<1>4. Reduces(lifecycle, step.st, step.out)
  BY <1>3 DEF Reductions
<1>5. \E running, callers : Dispatch(step, running, callers)
  BY <1>2 DEF Withdraw
<1> QED
  BY <1>4, <1>5 DEF ReducedStep

\* a connection that closes,
LEMMA CloseReduces ==
  ASSUME OwnerInv, NEW c \in Clients, Close(c)
  PROVE  ReducedStep
<1>1. lifecycle \in SoundState
  BY OwnerParts
<1>2. client[c].call.id \in Services
  BY CallOf DEF Close
<1>3. PICK event : event = ConnectionClosed(lifecycle, client[c].call.id)
  OBVIOUS
<1>4. QuietStep(lifecycle, event, {}) /\ CalmStep(lifecycle, event)
  BY <1>1, <1>2, <1>3, ConnectionClosedQuiet, ConnectionClosedCalm
<1>5. PICK step : step = settle(event)
  OBVIOUS
<1>6. Reduces(lifecycle, step.st, step.out)
  BY <1>1, <1>4, <1>5, SettledCalm DEF QuietStep, Quiet
<1>7. \E running, callers : Dispatch(step, running, callers)
  BY <1>3, <1>5 DEF Close
<1> QED
  BY <1>6, <1>7 DEF ReducedStep

\* a reservation given back,
LEMMA ReleaseReduces ==
  ASSUME OwnerInv, NEW c \in Clients, Release(c)
  PROVE  ReducedStep
<1>1. lifecycle \in SoundState
  BY OwnerParts
<1>2. PICK s \in Services : s = client[c].call.id
  BY CallOf DEF Release
<1>3. PICK event : event = IF client[c].call.op = "destroy" THEN DestroyReleased(lifecycle, s)
                                                            ELSE StorageReleased(lifecycle, s)
  OBVIOUS
<1>4. CalmStep(lifecycle, event) /\ StorageStep(lifecycle, event, {s})
  <2>1. CASE client[c].call.op = "destroy"
    BY <1>1, <1>3, <2>1, DestroyReleasedCalm, DestroyReleasedStep
  <2>2. CASE client[c].call.op # "destroy"
    BY <1>1, <1>3, <2>2, StorageReleasedCalm, StorageReleasedStep
  <2> QED
    BY <2>1, <2>2
<1>5. PICK step : step = settle(event)
  OBVIOUS
<1>6. Reduces(lifecycle, step.st, step.out)
  BY <1>1, <1>4, <1>5, SettledCalm DEF StorageStep
<1>7. \E running, callers : Dispatch(step, running, callers)
  BY <1>2, <1>3, <1>5 DEF Release
<1> QED
  BY <1>6, <1>7 DEF ReducedStep

\* and a removal from the graph, which is two of them in a row.
LEMMA UnregisterReduces ==
  ASSUME OwnerInv, NEW c \in Clients, Unregister(c)
  PROVE  ReducedStep
<1>1. lifecycle \in SoundState
  BY OwnerParts
<1>2. PICK s \in Services : s = client[c].call.id
  BY CallOf DEF Unregister
<1>3. PICK event : event = GraphUpdated(lifecycle, s)
  OBVIOUS
<1>4. CalmStep(lifecycle, event) /\ StorageStep(lifecycle, event, {s})
  BY <1>1, <1>3, GraphUpdatedCalm, GraphUpdatedStep
<1>5. PICK removed : removed = settle(event)
  OBVIOUS
<1>6. Reduces(lifecycle, removed.st, removed.out)
  BY <1>1, <1>4, <1>5, SettledCalm DEF StorageStep
<1>7. PICK between \in SoundState : between = removed.st
  BY <1>6 DEF Reduces, Advances
<1>8. PICK release : release = DestroyReleased(between, s)
  OBVIOUS
<1>9. CalmStep(between, release) /\ StorageStep(between, release, {s})
  BY <1>8, DestroyReleasedCalm, DestroyReleasedStep
<1>10. PICK last : last = settle(release)
  OBVIOUS
<1>11. Reduces(between, last.st, last.out)
  BY <1>9, <1>10, SettledCalm DEF StorageStep
<1>12. PICK step : step = settle(Also(release, removed.out))
  OBVIOUS
<1>13. step.st = last.st /\ step.out = removed.out \union last.out
  <2>1. PICK both : both = Also(release, removed.out)
    OBVIOUS
  <2>2. both.st = release.st /\ both.out = release.out \union removed.out
    BY <2>1 DEF Also, Step
  <2>3. release.st \in SoundState
    BY <1>9 DEF StorageStep, Leads
  <2>4. /\ last.out = release.out \union Turns(release.st)
        /\ step.out = both.out \union Turns(both.st)
    BY <1>10, <1>12, <2>1, <2>2, <2>3, SettleAdvances
  <2>5. step.st = last.st
    BY <1>10, <1>12, <2>1, <2>2 DEF settle, Step
  <2> QED
    BY <2>2, <2>4, <2>5
<1>14. Reduces(lifecycle, step.st, step.out)
  <2>1. Reduces(lifecycle, between, removed.out)
    BY <1>6, <1>7
  <2>2. Reduces(lifecycle, last.st, removed.out \union last.out)
    BY <1>1, <1>11, <2>1, ReducesOn
  <2> QED
    BY <1>13, <2>2
<1>15. \E running, callers : Dispatch(step, running, callers)
  BY <1>2, <1>3, <1>5, <1>7, <1>8, <1>12 DEF Unregister
<1> QED
  BY <1>14, <1>15 DEF ReducedStep

-----------------------------------------------------------------------------
(* Every step: the executions alone, an event of theirs, or a reduction.    *)
Idle == UNCHANGED <<lifecycle, commands, fibers, session, stoppedThrough>>

\* No step does anything else to the executions and the phases.
LEMMA StepKinds ==
  ASSUME OwnerInv, [Next]_vars
  PROVE  \/ Idle
         \/ OwnStep /\ UNCHANGED lifecycle
         \/ \E f \in fibers : Deliver(f)
         \/ ReducedStep
<1>1. CASE \E c \in commands : Begin(c) /\ UNCHANGED lifecycleVars
  BY <1>1 DEF OwnStep, lifecycleVars
<1>2. CASE \E f \in fibers : Run(f) /\ UNCHANGED lifecycleVars
  BY <1>2 DEF OwnStep, lifecycleVars
<1>3. CASE \E s \in Services : RuntimeExits(s) /\ UNCHANGED lifecycleVars
  BY <1>3 DEF OwnStep, lifecycleVars
<1>4. CASE \E s \in Services : IdleTimerFires(s)
  BY <1>4, IdleTimerReduces
<1>5. CASE \E x \in timers.cooldown : CooldownTimerFires(x[1], x[2])
  BY <1>5, CooldownTimerReduces
<1>6. ASSUME NEW c \in Clients, ClientStep(c)
      PROVE  Idle \/ (OwnStep /\ UNCHANGED lifecycle) \/ ReducedStep
  <2>1. CASE Enter(c) \/ Withdraw(c) \/ Unregister(c) \/ Release(c) \/ Close(c)
    BY <2>1, EnterReduces, WithdrawReduces, UnregisterReduces, ReleaseReduces, CloseReduces
  <2>2. CASE DataWork(c) \/ DataWorkEnds(c)
    <3>1. client[c].call.id \in Services
      BY <2>2, CallOf DEF DataWork, DataWorkEnds
    <3> QED
      BY <2>2, <3>1 DEF OwnStep, DataWork, DataWorkEnds
  <2>3. CASE \/ Call(c) \/ Observe(c) \/ Admitted(c) \/ Fails(c) \/ Expires(c) \/ Cancel(c)
    BY <2>3 DEF Call, Observe, Admitted, Fails, Expires, Cancel, Moved, Idle, serviceVars
  <2> QED
    BY <1>6, <2>1, <2>2, <2>3 DEF ClientStep, CallerStep
<1>7. CASE UNCHANGED vars
  BY <1>7 DEF vars, lifecycleVars, serviceVars, Idle
<1> QED
  BY <1>1, <1>2, <1>3, <1>4, <1>5, <1>6, <1>7 DEF Next
-----------------------------------------------------------------------------
(* The theorems about the executions and the phases.                       *)

\* Nothing is launched at first.
LEMMA InitFollows == OrchestratorInit => ExecutionsFollow
<1> SUFFICES ASSUME OrchestratorInit
             PROVE  ExecutionsFollow
  OBVIOUS
<1>1. \A s \in Services : /\ lifecycle.services[s].phase.tag = "Stopped"
                          /\ lifecycle.generationCounters[s] = 1
                          /\ stoppedThrough[s] = 0
  BY DEF OrchestratorInit, Init, initialService, Stopped, PhaseOf
<1>2. commands = {} /\ fibers = {} /\ lifecycle.members = Services
  BY DEF OrchestratorInit, Init
<1>3. Rooted(lifecycle) /\ Newest(lifecycle) /\ Launched(lifecycle, commands, fibers)
  BY <1>1, <1>2 DEF Rooted, Newest, Launched, Stoppable
<1>4. /\ StopsAreDue(lifecycle, commands, fibers) /\ LaunchesAreFirst(lifecycle, commands, fibers)
      /\ ChecksAreAwaited(lifecycle, commands, fibers) /\ OneCheck(commands, fibers)
  BY <1>1, <1>2 DEF StopsAreDue, LaunchesAreFirst, ChecksAreAwaited, OneCheck, Stoppable
<1>5. SessionsRun(lifecycle, fibers) /\ Driven(lifecycle, commands, fibers)
  BY <1>1, <1>2 DEF SessionsRun, Driven, Awaits
<1> QED
  BY <1>3, <1>4, <1>5 DEF ExecutionsFollow, Coherent

\* Every step keeps the executions and the phases in step.
LEMMA NextFollows == OwnerInv /\ ExecutionsFollow /\ [Next]_vars => ExecutionsFollow'
<1> SUFFICES ASSUME OwnerInv, ExecutionsFollow, [Next]_vars
             PROVE  ExecutionsFollow'
  OBVIOUS
<1>1. ASSUME Idle
      PROVE  ExecutionsFollow'
  BY <1>1, StillFollows DEF Idle
<1> QED
  BY <1>1, StepKinds, OwnStepFollows, DeliverFollows, ReducedStepFollows

\* Every phase has the executions that belong to it and no other, whatever is
\* reported, requested or dropped, and in any order (Orchestrator.ts:262-546,
\* Lifecycle.ts:1096-1244).
THEOREM ExecutionsAlwaysFollow == Spec => []ExecutionsFollow
BY InitFollows, NextFollows, OwnerInvariant, PTL DEF Spec

\* Of one generation there is at most one launch and one readiness check at a
\* time, for every graph and every number of generations (Lifecycle.ts:1174-1188).
THEOREM AlwaysOneLaunchOneCheck == Spec => []OneLaunchOneCheck
<1>1. ASSUME OwnerInv, ExecutionsFollow
      PROVE  OneLaunchOneCheck
  <2>1. OneLaunch /\ OneCheck(commands, fibers) /\ fibers \subseteq Fiber /\ commands \subseteq Command
    BY <1>1, OwnerParts DEF BoundaryInv, TypeOK, ExecutionsFollow, Coherent
  <2>2. ASSUME NEW f \in fibers, NEW h \in fibers, f.id = h.id, f.generation = h.generation,
               \/ f.kind = "launch" /\ h.kind = "launch"
               \/ f.kind = "reprobe" /\ (h.kind = "reprobe" \/ h.at = "check")
        PROVE  f = h
    <3>1. CASE f.kind = "launch" /\ h.kind = "launch"
      BY <2>1, <2>2, <3>1 DEF OneLaunch
    <3>2. CASE f.kind = "reprobe" /\ (h.kind = "reprobe" \/ h.at = "check")
      <4>1. h.kind \in {"launch", "reprobe"}
        BY <2>1, <3>2 DEF Fiber, Kinds, Working, Reporting
      <4> QED
        BY <2>1, <2>2, <3>2, <4>1 DEF OneCheck, Same
    <3> QED
      BY <2>2, <3>1, <3>2
  <2>3. ASSUME NEW c \in commands, NEW f \in fibers,
               \/ c.op = "Launch" /\ f.kind = "launch"
               \/ c.op = "Reprobe" /\ f.kind = "reprobe"
        PROVE  <<c.id, c.generation>> # <<f.id, f.generation>>
    <3> SUFFICES ASSUME c.id = f.id, c.generation = f.generation
                 PROVE  FALSE
      OBVIOUS
    <3>1. /\ c.op = "Launch" => c = LaunchCommand(f.id, f.generation)
          /\ c.op = "Reprobe" => c = ReprobeCommand(f.id, f.generation)
      BY <2>1, CommandIs
    <3>2. CASE c.op = "Launch" /\ f.kind = "launch"
      BY <2>1, <3>1, <3>2 DEF OneLaunch
    <3>3. CASE c.op = "Reprobe" /\ f.kind = "reprobe"
      BY <2>1, <3>1, <3>3 DEF OneCheck
    <3> QED
      BY <2>3, <3>2, <3>3
  <2> QED
    BY <2>2, <2>3 DEF OneLaunchOneCheck
<1> QED
  BY <1>1, ExecutionsAlwaysFollow, OwnerInvariant, PTL

\* Every phase that only an execution can end has that execution in flight, or a
\* cleanup failure on record: nothing winds down, starts or is checked for ever
\* for want of anyone to report on it (Orchestrator.ts:262-546).
THEOREM PhasesAlwaysDriven == Spec => []PhasesAreDriven
<1>1. ASSUME ExecutionsFollow
      PROVE  PhasesAreDriven
  <2>1. ASSUME NEW kind, NEW s, NEW g, NEW steps, UnderWay(kind, s, g, steps, fibers), NEW op
        PROVE  InFlight(op, kind, s, g)
    BY <2>1 DEF UnderWay, InFlight
  <2>2. ASSUME NEW s \in lifecycle.members, NEW g, g = PhaseAt(s).generation
        PROVE  /\ PhaseAt(s).tag = "Starting" => InFlight("Launch", "launch", s, g)
               /\ PhaseAt(s).tag = "Stopping" /\ ~lifecycle.services[s].cleanupFailure =>
                    InFlight("Stop", "stop", s, g) \/ InFlight("none", "exit", s, g)
               /\ PhaseAt(s).tag = "Running" /\ lifecycle.services[s].reprobing =>
                    InFlight("Reprobe", "reprobe", s, g) \/ InFlight("none", "exit", s, g)
    <3>1. Awaits(lifecycle.services[s], s, commands, fibers)
      BY <1>1 DEF ExecutionsFollow, Coherent, Driven
    <3>2. LaunchUnderWay(s, g, commands, fibers) => InFlight("Launch", "launch", s, g)
      BY <2>1 DEF LaunchUnderWay, LaunchCommand, InFlight
    <3>3. StopUnderWay(s, g, commands, fibers) =>
            InFlight("Stop", "stop", s, g) \/ InFlight("none", "exit", s, g)
      BY <2>1 DEF StopUnderWay, StopCommand, InFlight
    <3>4. CheckUnderWay(s, g, commands, fibers) => InFlight("Reprobe", "reprobe", s, g)
      BY <2>1 DEF CheckUnderWay, ReprobeCommand, InFlight
    <3> QED
      BY <2>2, <3>1, <3>2, <3>3, <3>4 DEF Awaits, PhaseAt
  <2> QED
    BY <2>2 DEF PhasesAreDriven
<1> QED
  BY <1>1, ExecutionsAlwaysFollow, PTL

\* What an event and its settling leave of a generation that had been launched.
LEMMA SettledOld ==
  ASSUME OwnerInv, ExecutionsFollow, NEW f \in fibers, NEW event, Settled(f, event),
         NEW s \in Services, NEW g, g < lifecycle.generationCounters[s],
         UpAt(lifecycle'.services[s], g)
  PROVE  UpAt(event.st.services[s], g) /\ UpAt(lifecycle.services[s], g)
<1>1. PICK st \in SoundState : st = event.st
  BY DEF Settled, Between
<1>2. PICK out : out = Turns(event.st)
  OBVIOUS
<1>3. PICK new : new = lifecycle'
  OBVIOUS
<1>4. Reduces(st, new, out) /\ st.generationCounters = lifecycle.generationCounters
  BY <1>1, <1>2, <1>3 DEF Settled, Between
<1>5. UpAt(st.services[s], g)
  BY <1>3, <1>4, ReducedOld
<1>6. PICK told : told = event.out
  OBVIOUS
<1>7. Between(f, st, told)
  BY <1>1, <1>6 DEF Settled
<1>8. UpAt(lifecycle.services[s], g)
  BY <1>5, <1>7, BetweenUp
<1> QED
  BY <1>1, <1>5, <1>8

\* Whoever runs as the same generation has the prerequisites it had.
LEMMA ReducedRuns ==
  ASSUME NEW st \in SoundState, NEW new, NEW out, Reduces(st, new, out), NEW p \in Services,
         new.services[p].phase.tag = "Running"
  PROVE  new.services[p].phase = st.services[p].phase
<1>1. ReducedService(p, st.services[p], new.services[p], out)
  BY DEF Reduces
<1>2. Stoppable(new.services[p]) /\ ~Fresh(p, new.services[p], out)
  BY DEF Stoppable, Fresh
<1> QED
  BY <1>1, <1>2 DEF ReducedService, Kept

\* What runs after a step is of the generation it was before it.
LEMMA RunsOn ==
  ASSUME OwnerInv, ExecutionsFollow, [Next]_vars, NEW p \in Services,
         PhaseAt(p)'.tag = "Running"
  PROVE  GenerationOf(p)' = GenerationOf(p)
<1>1. CASE UNCHANGED lifecycle
  BY <1>1 DEF GenerationOf, PhaseAt
<1>2. CASE ReducedStep
  <2>1. PICK step : Reduces(lifecycle, step.st, step.out) /\ lifecycle' = step.st
    BY <1>2 DEF ReducedStep, Dispatch, Publish
  <2>2. PICK new : new = step.st
    OBVIOUS
  <2>3. PICK out : out = step.out
    OBVIOUS
  <2>4. lifecycle \in SoundState /\ Reduces(lifecycle, new, out) /\ new.services[p].phase.tag = "Running"
    BY <2>1, <2>2, <2>3, FollowFacts DEF PhaseAt
  <2>5. new.services[p].phase = lifecycle.services[p].phase
    BY <2>4, ReducedRuns
  <2> QED
    BY <2>1, <2>2, <2>5 DEF GenerationOf, PhaseAt
<1>3. ASSUME NEW f \in fibers, Deliver(f)
      PROVE  GenerationOf(p)' = GenerationOf(p)
  <2>1. PICK event : Settled(f, event)
    BY <1>3, DeliverSettles
  <2>2. PICK st \in SoundState : st = event.st
    BY <2>1 DEF Settled, Between
  <2>3. PICK out : out = Turns(event.st)
    OBVIOUS
  <2>4. PICK new : new = lifecycle'
    OBVIOUS
  <2>5. Reduces(st, new, out) /\ new.services[p].phase.tag = "Running"
    BY <2>1, <2>2, <2>3, <2>4 DEF Settled, PhaseAt
  <2>6. new.services[p].phase = st.services[p].phase
    BY <2>5, ReducedRuns
  <2>7. PICK told : told = event.out
    OBVIOUS
  <2>8. Between(f, st, told)
    BY <2>1, <2>2, <2>7 DEF Settled
  <2>9. PICK h : h = st.services[p].phase.generation
    OBVIOUS
  <2>10. UpAt(st.services[p], h)
    BY <2>5, <2>6, <2>9 DEF UpAt, Stoppable
  <2>11. UpAt(lifecycle.services[p], h)
    BY <2>8, <2>10, BetweenUp
  <2> QED
    BY <2>4, <2>6, <2>9, <2>11 DEF GenerationOf, PhaseAt, UpAt
<1> QED
  BY <1>1, <1>2, <1>3, StepKinds DEF Idle

\* What is up stands on running prerequisites, the same generation of each from
\* its launch to its end, for every graph: no dependent outlives the process it
\* connected to (Lifecycle.ts:550-564).
THEOREM DependentsAlwaysFollow == Spec => DependentsFollow
<1>1. ASSUME OwnerInv, ExecutionsFollow, ExecutionsFollow', [Next]_vars
      PROVE  \A d \in Services : \A p \in prerequisiteClosure[d] :
               /\ Up(d)' => PhaseAt(p)'.tag = "Running"
               /\ StaysUp(d) => GenerationOf(p)' = GenerationOf(p)
  <2>1. ASSUME NEW d \in Services, NEW p \in prerequisiteClosure[d], Up(d)'
        PROVE  p \in Services /\ PhaseAt(p)'.tag = "Running"
    <3>1. Rooted(lifecycle)'
      BY <1>1 DEF ExecutionsFollow, Coherent
    <3>2. p \in Services
      BY DEF prerequisiteClosure
    <3> QED
      BY <2>1, <3>1, <3>2 DEF Rooted, Up, PhaseAt, Stoppable
  <2> QED
    BY <1>1, <2>1, RunsOn DEF StaysUp
<1>2. OwnerInv /\ ExecutionsFollow /\ ExecutionsFollow' /\ [Next]_vars =>
        [\A d \in Services : \A p \in prerequisiteClosure[d] :
           /\ Up(d)' => PhaseAt(p)'.tag = "Running"
           /\ StaysUp(d) => GenerationOf(p)' = GenerationOf(p)]_lifecycle
  BY <1>1
<1> QED
  BY <1>2, ExecutionsAlwaysFollow, OwnerInvariant, PTL DEF Spec, DependentsFollow

\* A generation's failure counts towards the breaker once, however many of its
\* executions report one and in whatever order (Lifecycle.ts:634-678, 790-828).
THEOREM FailuresAlwaysCountOnce == Spec => FailureCountsOnce
<1>1. ASSUME OwnerInv, ExecutionsFollow, [Next]_vars, NEW s \in Services,
             lifecycle'.services[s].breaker.failures > lifecycle.services[s].breaker.failures
      PROVE  Up(s) /\ ~StaysUp(s)
  <2>0. lifecycle \in SoundState /\ lifecycle.services[s].breaker.failures \in Nat
    <3>1. lifecycle \in SoundState
      BY <1>1, FollowFacts
    <3> QED
      BY <3>1, SoundFields DEF ServiceState
  <2>1. CASE UNCHANGED lifecycle
    BY <1>1, <2>0, <2>1
  <2>2. CASE ReducedStep
    <3>1. PICK step : Reduces(lifecycle, step.st, step.out) /\ lifecycle' = step.st
      BY <2>2 DEF ReducedStep, Dispatch, Publish
    <3>2. step.st \in SoundState
      BY <3>1 DEF Reduces, Advances
    <3>3. PICK a \in SoundState : a = step.st
      BY <3>2
    <3>4. a.services[s].breaker.failures \in Nat
      BY SoundFields DEF ServiceState
    <3>5. a.services[s].breaker.failures <= lifecycle.services[s].breaker.failures
      BY <3>1, <3>3 DEF Reduces, ReducedService
    <3> QED
      BY <1>1, <2>0, <3>1, <3>3, <3>4, <3>5
  <2>3. ASSUME NEW f \in fibers, Deliver(f)
        PROVE  Up(s) /\ ~StaysUp(s)
    <3>1. PICK event : Settled(f, event)
      BY <1>1, <2>3, DeliverSettles
    <3>2. PICK st \in SoundState : st = event.st
      BY <3>1 DEF Settled, Between
    <3>3. Reduces(st, lifecycle', Turns(event.st))
      BY <3>1, <3>2 DEF Settled
    <3>4. PICK new \in SoundState : new = lifecycle'
      BY <3>3 DEF Reduces, Advances
    <3>5. st.services[s].breaker.failures \in Nat /\ new.services[s].breaker.failures \in Nat
      BY SoundFields DEF ServiceState
    <3>6. new.services[s].breaker.failures <= st.services[s].breaker.failures
      BY <3>3, <3>4 DEF Reduces, ReducedService
    <3>7. st.services[s].breaker.failures > lifecycle.services[s].breaker.failures
      BY <1>1, <2>0, <3>4, <3>5, <3>6
    <3>8. Told(lifecycle, st, event.out, f)
      BY <3>1, <3>2 DEF Settled, Between
    <3>9. st # lifecycle
      BY <2>0, <3>7
    <3>10. ~CalmService(s, lifecycle.services[s], st.services[s], event.out)
      BY <2>0, <3>5, <3>7 DEF CalmService
    <3>11. ~GoesOnAs(lifecycle, st, event.out, f)
      BY <2>0, <3>5, <3>7, <3>10 DEF GoesOnAs, Checked, Tells
    <3>12. GoesDownAs(lifecycle, st, event.out, f)
      BY <3>8, <3>9, <3>11 DEF Told
    <3>13. s = f.id
      BY <3>10, <3>12 DEF GoesDownAs, Downed, Tells
    <3>14. Stoppable(lifecycle.services[s]) /\ ~Stoppable(st.services[s])
      BY <3>7, <3>12, <3>13 DEF GoesDownAs, Downed
    <3>15. Up(s)
      BY <3>14 DEF Stoppable, Up, PhaseAt
    <3>16. ASSUME StaysUp(s)
           PROVE  FALSE
      <4>1. PICK g : g = GenerationOf(s)
        OBVIOUS
      <4>2. UpAt(lifecycle'.services[s], g)
        BY <3>16, <4>1 DEF StaysUp, Up, UpAt, Stoppable, GenerationOf, PhaseAt
      <4>3. g < lifecycle.generationCounters[s]
        BY <2>0, <4>1, SoundFields DEF SoundService, GenerationOf, PhaseAt
      <4>4. UpAt(event.st.services[s], g)
        BY <1>1, <3>1, <4>2, <4>3, SettledOld
      <4> QED
        BY <3>2, <3>14, <4>4 DEF UpAt
    <3> QED
      BY <3>15, <3>16
  <2> QED
    BY <1>1, <2>1, <2>2, <2>3, StepKinds DEF Idle
<1>2. OwnerInv /\ ExecutionsFollow /\ [Next]_vars =>
        [\A s \in Services :
           lifecycle'.services[s].breaker.failures > lifecycle.services[s].breaker.failures =>
             Up(s) /\ ~StaysUp(s)]_lifecycle
  BY <1>1
<1> QED
  BY <1>2, ExecutionsAlwaysFollow, OwnerInvariant, PTL DEF Spec, FailureCountsOnce
-----------------------------------------------------------------------------
(* The leases, counted.                                                     *)

\* A caller is one thing at a time: a connection that waits or holds a lease, or
\* no connection.
LEMMA CallersApart ==
  ASSUME NEW caller, NEW s
  PROVE  /\ Pending(caller, s) => ~Holding(caller, s) /\ ~Spoken(caller)
         /\ Holding(caller, s) => ~Spoken(caller)
BY DEF Pending, Holding, Spoken

\* The commands of a wait tell its service and its client.
LEMMA AnswersApart ==
  ASSUME NEW s, NEW t, NEW c, NEW d
  PROVE  /\ Admit(s, c) = Admit(t, d) <=> s = t /\ c = d
         /\ Fail(s, c) = Fail(t, d) <=> s = t /\ c = d
         /\ Admit(s, c) # Fail(t, d)
BY DEF Admit, Fail, WaiterCommand

\* As many clients as waits, when each client has one.
LEMMA ClientsCounted ==
  ASSUME NEW T, IsFiniteSet(T), \A w, v \in T : w.client = v.client => w = v
  PROVE  /\ IsFiniteSet({w.client : w \in T})
         /\ Cardinality({w.client : w \in T}) = Cardinality(T)
<1>1. PICK C : C = {w.client : w \in T}
  OBVIOUS
<1>2. PICK f : f = [w \in T |-> w.client]
  OBVIOUS
<1>3. f \in [T -> C] /\ (\A w, v \in T : f[w] = f[v] => w = v) /\ (\A c \in C : \E w \in T : f[w] = c)
  BY <1>1, <1>2
<1>4. f \in Bijection(T, C)
  BY <1>3 DEF Bijection, Injection, Surjection, IsInjective
<1>5. ExistsBijection(T, C)
  BY <1>4 DEF ExistsBijection
<1> QED
  BY <1>1, <1>5, FS_Bijection

\* The waits that an event or a pass leaves, and those it admits, are as they were.
LEMMA ServedKeeps ==
  ASSUME NEW st \in SoundState, NEW new, NEW out, NEW o2, NEW callers,
         Tallied(st, out, callers), Served(st, new, o2)
  PROVE  Tallied(new, out \union o2, callers)
<1>1. SUFFICES ASSUME NEW s \in new.members
               PROVE  TalliedAt(new.services[s], out \union o2, callers, s)
  BY DEF Tallied
<1>2. s \in st.members /\ s \in Services
  BY <1>1, SoundMembers DEF Served
<1>3. PICK p : p = st.services[s]
  OBVIOUS
<1>4. PICK q : q = new.services[s]
  OBVIOUS
<1>5. PICK A \in SUBSET p.waiters : Serves(s, p, q, A, o2)
  BY <1>1, <1>3, <1>4 DEF Served
<1>6. IsFiniteSet(p.waiters) /\ p.waiters \subseteq Waiter /\ p.leases \in Nat
  BY <1>2, <1>3, SoundFields DEF SoundService, ServiceState
<1>7. /\ \A w \in p.waiters : /\ w.client \in Clients
                              /\ w.kind = "traffic" =>
                                   /\ Pending(callers[w.client], s)
                                   /\ Admit(s, w.client) \notin out /\ Fail(s, w.client) \notin out
                              /\ w.kind # "traffic" => Spoken(callers[w.client])
      /\ \A w, v \in p.waiters : w.kind = "traffic" /\ v.client = w.client => v = w
  <2>1. WaitersWait(p.waiters, out, callers, s)
    BY <1>2, <1>3 DEF Tallied, TalliedAt
  <2>2. \A w \in p.waiters : w.client \in Clients
    BY <1>6 DEF Waiter
  <2> QED
    BY <2>1, <2>2 DEF WaitersWait
<1>8. /\ \A c \in Clients : Pending(callers[c], s) /\ Admit(s, c) \in out => Fail(s, c) \notin out
      /\ IsFiniteSet(Holders(callers, out, s))
      /\ p.leases = Cardinality(Holders(callers, out, s))
  BY <1>2, <1>3 DEF Tallied, TalliedAt
<1>9. /\ q.waiters \subseteq p.waiters \ A
      /\ q.leases = p.leases + Cardinality({w \in A : w.kind = "traffic"})
      /\ \A c \in Clients : Admit(s, c) \in o2 <=> \E w \in A : w.client = c
      /\ \A c \in Clients : Fail(s, c) \in o2 =>
           \E w \in p.waiters \ (A \union q.waiters) : w.client = c
  BY <1>5 DEF Serves
<1>10. WaitersWait(q.waiters, out \union o2, callers, s)
  <2>1. ASSUME NEW w \in q.waiters, w.kind = "traffic"
        PROVE  Admit(s, w.client) \notin o2 /\ Fail(s, w.client) \notin o2
    BY <1>7, <1>9, <2>1
  <2> QED
    BY <1>7, <1>9, <2>1 DEF WaitersWait
<1>11. ASSUME NEW c \in Clients, Pending(callers[c], s), Admit(s, c) \in out \union o2
       PROVE  Fail(s, c) \notin out \union o2
  <2>1. \A w \in p.waiters : w.client = c => w.kind = "traffic"
    BY <1>7, <1>11, CallersApart
  <2>2. CASE Admit(s, c) \in out
    BY <1>7, <1>8, <1>9, <1>11, <2>1, <2>2
  <2>3. CASE Admit(s, c) \in o2
    BY <1>7, <1>9, <1>11, <2>1, <2>3
  <2> QED
    BY <1>11, <2>2, <2>3
<1>12. PICK T : T = {w \in A : w.kind = "traffic"}
  OBVIOUS
<1>13. PICK C : C = {w.client : w \in T}
  OBVIOUS
<1>14. IsFiniteSet(C) /\ Cardinality(C) = Cardinality(T)
  <2>1. T \in SUBSET p.waiters /\ \A w, v \in T : w.client = v.client => w = v
    BY <1>7, <1>12
  <2>2. IsFiniteSet(T)
    BY <1>6, <2>1, FS_Subset
  <2> QED
    BY <1>13, <2>1, <2>2, ClientsCounted
<1>15. PICK H : H = Holders(callers, out, s)
  OBVIOUS
<1>16. H \intersect C = {}
  <2>1. ASSUME NEW c \in C, c \in H
        PROVE  FALSE
    <3>1. PICK w \in T : w.client = c
      BY <1>13, <2>1
    <3>2. Pending(callers[c], s) /\ Admit(s, c) \notin out
      BY <1>7, <1>12, <3>1
    <3> QED
      BY <1>15, <2>1, <3>2, CallersApart DEF Holders
  <2> QED
    BY <2>1
<1>17. Holders(callers, out \union o2, s) = H \union C
  <2>1. ASSUME NEW c \in Clients, Pending(callers[c], s)
        PROVE  Admit(s, c) \in o2 <=> c \in C
    <3>1. Admit(s, c) \in o2 <=> \E w \in A : w.client = c
      BY <1>9
    <3>2. \A w \in A : w.client = c => w.kind = "traffic"
      BY <1>7, <2>1, CallersApart
    <3>3. c \in C <=> \E w \in A : w.kind = "traffic" /\ w.client = c
      BY <1>12, <1>13
    <3> QED
      BY <3>1, <3>2, <3>3
  <2>2. \A c \in C : c \in Clients /\ Pending(callers[c], s)
    BY <1>7, <1>12, <1>13
  <2>3. Holders(callers, out \union o2, s) \subseteq H \union C
    BY <1>15, <2>1 DEF Holders
  <2>4. H \union C \subseteq Holders(callers, out \union o2, s)
    BY <1>15, <2>1, <2>2 DEF Holders
  <2> QED
    BY <2>3, <2>4
<1>18. IsFiniteSet(H \union C) /\ Cardinality(H \union C) = Cardinality(H) + Cardinality(C)
  <2>1. IsFiniteSet(H) /\ IsFiniteSet(C)
    BY <1>8, <1>14, <1>15
  <2>2. /\ IsFiniteSet(H \union C)
        /\ Cardinality(H \union C) = Cardinality(H) + Cardinality(C) - Cardinality(H \intersect C)
    BY <2>1, FS_Union
  <2>3. Cardinality(H \intersect C) = 0
    BY <1>16, FS_EmptySet
  <2>4. Cardinality(H) \in Nat /\ Cardinality(C) \in Nat
    BY <2>1, FS_CardinalityType
  <2> QED
    BY <2>2, <2>3, <2>4
<1>19. q.leases = Cardinality(H \union C)
  BY <1>8, <1>9, <1>12, <1>14, <1>15, <1>18
<1> QED
  BY <1>4, <1>10, <1>11, <1>17, <1>18, <1>19 DEF TalliedAt
-----------------------------------------------------------------------------
\* Commands that say nothing of who waits for a service leave its count alone.
LEMMA TallyKept ==
  ASSUME NEW s, NEW p, NEW q, NEW out, NEW o2, NEW callers, p.waiters \subseteq Waiter,
         TalliedAt(p, out, callers, s), SameWaits(p, q),
         \A c \in Clients : Pending(callers[c], s) =>
           Admit(s, c) \notin o2 /\ Fail(s, c) \notin o2
  PROVE  TalliedAt(q, out \union o2, callers, s)
<1>1. Holders(callers, out \union o2, s) = Holders(callers, out, s)
  BY DEF Holders
<1>2. \A w \in p.waiters : w.client \in Clients
  BY DEF Waiter
<1>3. WaitersWait(q.waiters, out \union o2, callers, s)
  BY <1>2 DEF TalliedAt, WaitersWait, SameWaits
<1>4. \A c \in Clients : Pending(callers[c], s) /\ Admit(s, c) \in out \union o2
        => Fail(s, c) \notin out \union o2
  BY DEF TalliedAt
<1> QED
  BY <1>1, <1>3, <1>4 DEF TalliedAt, SameWaits

\* Commands about other services, too.
LEMMA TallyElsewhere ==
  ASSUME NEW st \in SoundState, NEW step, NEW s \in Services, NEW c \in Clients, NEW kind, NEW out,
         NEW callers, Tallied(st, out, callers), Opens(st, step, s, c, kind),
         NEW t \in step.st.members, t # s
  PROVE  TalliedAt(step.st.services[t], out \union step.out, callers, t)
<1>1. t \in st.members /\ t \in Services
  BY SoundMembers DEF Opens
<1>2. SameWaits(st.services[t], step.st.services[t])
  BY <1>1 DEF Opens
<1>3. st.services[t].waiters \subseteq Waiter
  BY <1>1, SoundFields DEF ServiceState
<1>4. \A x \in step.out : x = Fail(s, c) \/ x = Admit(s, c) \/ x.tag = "Stop"
  BY DEF Opens
<1>5. \A d \in Clients : Admit(t, d) \notin step.out /\ Fail(t, d) \notin step.out
  BY <1>4, AnswersApart, AnswerFields
<1>6. TalliedAt(st.services[t], out, callers, t)
  BY <1>1 DEF Tallied
<1> QED
  BY <1>2, <1>3, <1>5, <1>6, TallyKept

\* An explicit wait opens.
LEMMA ExplicitOpenKeeps ==
  ASSUME NEW st \in SoundState, NEW step, NEW s \in Services, NEW c \in Clients, NEW out, NEW callers,
         Tallied(st, out, callers), Opens(st, step, s, c, "explicit"), Spoken(callers[c])
  PROVE  Tallied(step.st, out \union step.out, callers)
<1>1. SUFFICES ASSUME s \in step.st.members
               PROVE  TalliedAt(step.st.services[s], out \union step.out, callers, s)
  BY TallyElsewhere DEF Tallied
<1>2. PICK p : p = st.services[s]
  OBVIOUS
<1>3. PICK q : q = step.st.services[s]
  OBVIOUS
<1>4. /\ TalliedAt(p, out, callers, s) /\ p.waiters \subseteq Waiter /\ p.leases \in Nat
  BY <1>1, <1>2, SoundFields DEF Tallied, Opens, ServiceState
<1>5. \A x \in step.out : x = Fail(s, c) \/ x = Admit(s, c) \/ x.tag = "Stop"
  BY DEF Opens
<1>6. ASSUME NEW d \in Clients, Pending(callers[d], s)
      PROVE  Admit(s, d) \notin step.out /\ Fail(s, d) \notin step.out
  <2>1. d # c
    BY <1>6, CallersApart
  <2> QED
    BY <1>5, <2>1, AnswersApart, AnswerFields
<1>7. CASE SameWaits(p, q)
  BY <1>3, <1>4, <1>6, <1>7, TallyKept
<1>8. CASE q.leases = p.leases /\ \E w \in Waiter : /\ w.client = c /\ w.kind = "explicit"
                                                    /\ q.waiters = p.waiters \union {w}
  <2>1. PICK w \in Waiter : /\ w.client = c /\ w.kind = "explicit"
                            /\ q.waiters = p.waiters \union {w}
    BY <1>8
  <2>2. TalliedAt(p, out \union step.out, callers, s)
    BY <1>4, <1>6, TallyKept DEF SameWaits
  <2>3. \A v \in p.waiters : v.kind = "traffic" => v.client # c
    BY <1>4, CallersApart DEF TalliedAt, WaitersWait
  <2>4. WaitersWait(q.waiters, out \union step.out, callers, s)
    BY <2>1, <2>2, <2>3 DEF TalliedAt, WaitersWait
  <2> QED
    BY <1>3, <1>8, <2>2, <2>4 DEF TalliedAt
<1> QED
  BY <1>2, <1>3, <1>4, <1>7, <1>8 DEF Opens, SameWaits

\* A connection opens.
LEMMA TrafficOpenKeeps ==
  ASSUME NEW st \in SoundState, NEW step, NEW s \in Services, NEW c \in Clients, NEW callers,
         Tallied(st, {}, callers), Opens(st, step, s, c, "traffic"), Pending(callers[c], s),
         s \in st.members => \A w \in st.services[s].waiters : w.client # c
  PROVE  Tallied(step.st, step.out, callers)
<1>0. Tallied(step.st, {} \union step.out, callers) => Tallied(step.st, step.out, callers)
  OBVIOUS
<1>1. SUFFICES ASSUME s \in step.st.members
               PROVE  TalliedAt(step.st.services[s], step.out, callers, s)
  BY <1>0, TallyElsewhere DEF Tallied
<1>2. PICK p : p = st.services[s]
  OBVIOUS
<1>3. PICK q : q = step.st.services[s]
  OBVIOUS
<1>4. /\ s \in st.members
      /\ TalliedAt(p, {}, callers, s) /\ p.waiters \subseteq Waiter /\ p.leases \in Nat
      /\ \A w \in p.waiters : w.client # c
  BY <1>1, <1>2, SoundFields DEF Tallied, Opens, ServiceState
<1>5. PICK H : H = Holders(callers, {}, s)
  OBVIOUS
<1>6. IsFiniteSet(H) /\ p.leases = Cardinality(H) /\ c \notin H
  BY <1>4, <1>5, CallersApart DEF TalliedAt, Holders
<1>7. CASE step.out = {Fail(s, c)} /\ SameWaits(p, q)
  <2>1. \A d \in Clients : Admit(s, d) \notin step.out
    BY <1>7, AnswersApart
  <2>2. Holders(callers, step.out, s) = H
    BY <1>5, <2>1 DEF Holders
  <2>3. \A w \in p.waiters : Fail(s, w.client) \notin step.out /\ Admit(s, w.client) \notin step.out
    BY <1>4, <1>7, AnswersApart
  <2>4. WaitersWait(q.waiters, step.out, callers, s)
    BY <1>4, <1>7, <2>3 DEF TalliedAt, WaitersWait, SameWaits
  <2> QED
    BY <1>3, <1>6, <1>7, <2>1, <2>2, <2>4 DEF TalliedAt, SameWaits
<1>8. CASE step.out = {Admit(s, c)} /\ q.waiters = p.waiters /\ q.leases = p.leases + 1
  <2>1. \A d \in Clients : Fail(s, d) \notin step.out /\ (Admit(s, d) \in step.out <=> d = c)
    BY <1>8, AnswersApart
  <2>2. Holders(callers, step.out, s) = H \union {c}
    BY <1>5, <2>1 DEF Holders
  <2>3. IsFiniteSet(H \union {c}) /\ Cardinality(H \union {c}) = Cardinality(H) + 1
    BY <1>6, FS_AddElement
  <2>4. \A w \in p.waiters : Fail(s, w.client) \notin step.out /\ Admit(s, w.client) \notin step.out
    BY <1>4, <1>8, AnswersApart
  <2>5. WaitersWait(q.waiters, step.out, callers, s)
    BY <1>4, <1>8, <2>4 DEF TalliedAt, WaitersWait
  <2> QED
    BY <1>3, <1>6, <1>8, <2>1, <2>2, <2>3, <2>5 DEF TalliedAt
<1>9. CASE /\ \A x \in step.out : x.tag = "Stop"
           /\ q.leases = p.leases
           /\ \E w \in Waiter : /\ w.client = c /\ w.kind = "traffic"
                                /\ q.waiters = p.waiters \union {w}
  <2>1. \A d \in Clients : Fail(s, d) \notin step.out /\ Admit(s, d) \notin step.out
    BY <1>9, AnswerFields
  <2>2. Holders(callers, step.out, s) = H
    BY <1>5, <2>1 DEF Holders
  <2>3. PICK w \in Waiter : /\ w.client = c /\ w.kind = "traffic"
                            /\ q.waiters = p.waiters \union {w}
    BY <1>9
  <2>4. \A v \in q.waiters : v.client \in Clients
    BY <1>4, <2>3 DEF Waiter
  <2>5. WaitersWait(p.waiters, {}, callers, s)
    BY <1>4 DEF TalliedAt
  <2>6. WaitersWait(q.waiters, step.out, callers, s)
    BY <1>4, <2>1, <2>3, <2>4, <2>5 DEF WaitersWait
  <2> QED
    BY <1>3, <1>6, <1>9, <2>1, <2>2, <2>6 DEF TalliedAt
<1> QED
  BY <1>2, <1>3, <1>4, <1>7, <1>8, <1>9 DEF Opens

\* A caller that waits for nothing any more, or goes on holding what it holds.
LEMMA CallersKeep ==
  ASSUME NEW st, NEW callers, NEW new, Tallied(st, {}, callers),
         \A s \in st.members : \A w \in st.services[s].waiters : w.client \in Clients,
         \A d \in Clients : Spoken(callers[d]) => Spoken(new[d]),
         \A d \in Clients, s \in st.members :
           /\ Holding(new[d], s) <=> Holding(callers[d], s)
           /\ Pending(callers[d], s) => \/ Pending(new[d], s)
                                        \/ \A w \in st.services[s].waiters : w.client # d
  PROVE  Tallied(st, {}, new)
<1>1. SUFFICES ASSUME NEW s \in st.members
               PROVE  TalliedAt(st.services[s], {}, new, s)
  BY DEF Tallied
<1>2. TalliedAt(st.services[s], {}, callers, s)
  BY DEF Tallied
<1>3. Holders(new, {}, s) = Holders(callers, {}, s)
  BY DEF Holders
<1>4. WaitersWait(st.services[s].waiters, {}, new, s)
  BY <1>2 DEF TalliedAt, WaitersWait
<1> QED
  BY <1>2, <1>3, <1>4 DEF TalliedAt

\* A lease is given back.
LEMMA CloseKeeps ==
  ASSUME NEW st \in SoundState, NEW s \in Services, NEW c \in Clients, NEW callers, NEW new,
         Tallied(st, {}, callers), Holding(callers[c], s),
         \A d \in Clients \ {c} : new[d] = callers[d],
         Spoken(new[c]), callers[c].call.id = s
  PROVE  Tallied(ConnectionClosed(st, s).st, {}, new)
<1>1. PICK a : a = ConnectionClosed(st, s).st
  OBVIOUS
<1>2. /\ a.members = st.members
      /\ \A t \in Services \ {s} : SameWaits(st.services[t], a.services[t])
      /\ a.services[s].waiters = st.services[s].waiters
      /\ a.services[s].leases = IF st.services[s].leases = 0 THEN 0 ELSE st.services[s].leases - 1
  BY <1>1, ClosedWaits
<1>3. \A t : ~Pending(callers[c], t) /\ ~Pending(new[c], t) /\ ~Holding(new[c], t)
             /\ ~Spoken(callers[c])
  BY DEF Pending, Holding, Spoken
<1>4. ASSUME NEW t \in st.members
      PROVE  WaitersWait(st.services[t].waiters, {}, new, t)
  <2>1. WaitersWait(st.services[t].waiters, {}, callers, t)
    BY <1>4 DEF Tallied, TalliedAt
  <2>2. t \in Services
    BY <1>4, SoundMembers
  <2>3. \A w \in st.services[t].waiters : w.client \in Clients
    BY <2>2, SoundFields DEF ServiceState, Waiter
  <2>4. \A w \in st.services[t].waiters : w.client # c
    BY <1>3, <2>1 DEF WaitersWait
  <2> QED
    BY <2>1, <2>3, <2>4 DEF WaitersWait
<1>5. ASSUME NEW t \in st.members, t # s
      PROVE  TalliedAt(a.services[t], {}, new, t)
  <2>1. t \in Services /\ TalliedAt(st.services[t], {}, callers, t)
    BY <1>5, SoundMembers DEF Tallied
  <2>2. ~Holding(callers[c], t)
    BY <1>5 DEF Holding
  <2>3. Holders(new, {}, t) = Holders(callers, {}, t)
    BY <1>3, <2>2 DEF Holders
  <2>4. SameWaits(st.services[t], a.services[t])
    BY <1>2, <1>5, <2>1
  <2> QED
    BY <1>4, <1>5, <2>1, <2>3, <2>4 DEF TalliedAt, SameWaits
<1>6. ASSUME s \in st.members
      PROVE  TalliedAt(a.services[s], {}, new, s)
  <2>1. TalliedAt(st.services[s], {}, callers, s)
    BY <1>6 DEF Tallied
  <2>2. PICK H : H = Holders(callers, {}, s)
    OBVIOUS
  <2>3. IsFiniteSet(H) /\ st.services[s].leases = Cardinality(H) /\ c \in H
    BY <2>1, <2>2 DEF TalliedAt, Holders
  <2>4. Holders(new, {}, s) = H \ {c}
    BY <1>3, <2>2 DEF Holders
  <2>5. IsFiniteSet(H \ {c}) /\ Cardinality(H \ {c}) = Cardinality(H) - 1
    BY <2>3, FS_RemoveElement
  <2>6. Cardinality(H) # 0
    BY <2>3, FS_EmptySet
  <2>7. a.services[s].leases = Cardinality(H \ {c})
    BY <1>2, <2>3, <2>5, <2>6
  <2> QED
    BY <1>2, <1>4, <1>6, <2>4, <2>5, <2>7 DEF TalliedAt
<1> QED
  BY <1>1, <1>2, <1>5, <1>6 DEF Tallied
-----------------------------------------------------------------------------
\* A command about a wait is known by its service and its client.
LEMMA AnswersKnown ==
  ASSUME NEW x \in LifecycleCommands
  PROVE  /\ x.tag = "AdmitConnection" => x = Admit(x.id, x.client)
         /\ x.tag = "FailConnection" => x = Fail(x.id, x.client)
BY DEF LifecycleCommands, Admit, Fail, WaiterCommand

\* A watcher is nowhere near a connection.
LEMMA SeenStages ==
  ASSUME NEW caller \in Caller, Observes(caller), NEW st
  PROVE  Seen(caller, st).at \in {"stopping", "reserving", "done", "remove", "release"}
<1>1. caller.at \in {"stopping", "reserving"}
  BY DEF Observes
<1>2. PICK s : s = caller.call.id
  OBVIOUS
<1>3. \/ Seen(caller, st) = [caller EXCEPT !.awaiting = {s}]
      \/ Seen(caller, st) = Arrive(caller, "done")
      \/ Seen(caller, st) = [caller EXCEPT !.awaiting = {}, !.at = "remove"]
      \/ Seen(caller, st) = [caller EXCEPT !.awaiting = {}, !.at = "release"]
  BY <1>1, <1>2 DEF Seen
<1>4. [caller EXCEPT !.awaiting = {s}].at = caller.at
  BY DEF Caller
<1>5. Arrive(caller, "done").at = "done"
  BY DoneCaller
<1>6. [caller EXCEPT !.awaiting = {}, !.at = "remove"].at = "remove"
  BY DEF Caller
<1>7. [caller EXCEPT !.awaiting = {}, !.at = "release"].at = "release"
  BY DEF Caller
<1> QED
  BY <1>1, <1>3, <1>4, <1>5, <1>6, <1>7

\* What the commands of a step make of one caller's waits.
Answered(k, r, c, out) ==
  /\ AwaitsItsOwn(r)
  /\ Spoken(k) => Spoken(r)
  /\ \A s \in Services :
       /\ Holding(k, s) => Holding(r, s)
       /\ Holding(r, s) => Holding(k, s) \/ (Pending(k, s) /\ Admit(s, c) \in out)
       /\ Pending(k, s) /\ Fail(s, c) \notin out =>
            IF Admit(s, c) \in out THEN Holding(r, s) ELSE Pending(r, s)

\* A connection that waits has one wait, and is told how it ended.
LEMMA ResolvedAnswered ==
  ASSUME NEW caller \in Caller, Orderly(caller), AwaitsItsOwn(caller), NEW c \in Clients, NEW step,
         step.st \in SoundState, step.out \subseteq LifecycleCommands
  PROVE  Answered(caller, Resolved(caller, c, step), c, step.out)
<1>1. CASE Observes(caller)
  <2>1. PICK r : r = Resolved(caller, c, step)
    OBVIOUS
  <2>2. GoesOn(caller, r, step.st)
    BY <2>1, ResolvedGoesOn
  <2>3. caller.call.op \in {"stop", "destroy"} /\ caller.at \in {"stopping", "reserving"}
    BY <1>1 DEF Observes, Orderly
  <2>4. r = caller \/ r = Seen(caller, step.st)
    BY <1>1, <2>1 DEF Resolved
  <2>5. r.at \in {"stopping", "reserving", "done", "remove", "release"}
    BY <1>1, <2>3, <2>4, SeenStages
  <2>6. r.call.op \in {"stop", "destroy", "none"}
    BY <2>2, <2>3 DEF GoesOn, Orderly
  <2>7. ~Traffic(caller.call) /\ ~Traffic(r.call)
    BY <2>3, <2>6 DEF Traffic
  <2>8. Answered(caller, r, c, step.out)
    BY <2>5, <2>7 DEF Answered, AwaitsItsOwn, Spoken, Holding, Pending
  <2> QED
    BY <2>1, <2>8
<1>2. CASE ~Observes(caller)
  <2>1. PICK A : A = caller.awaiting \ {x.id : x \in {y \in Tagged(step.out, "AdmitConnection") : y.client = c}}
    OBVIOUS
  <2>2. PICK b \in BOOLEAN : b = (caller.failed \/ \E x \in Tagged(step.out, "FailConnection") :
                                                    x.client = c /\ x.id \in caller.awaiting)
    BY DEF Caller
  <2>3. PICK r : r = [caller EXCEPT !.awaiting = A, !.failed = b]
    OBVIOUS
  <2>4. r.call = caller.call /\ r.at = caller.at /\ r.awaiting = A /\ r.failed = b
    BY <2>3 DEF Caller
  <2>5. Resolved(caller, c, step) = r
    BY <1>2, <2>1, <2>2, <2>3 DEF Resolved
  <2>6. AwaitsItsOwn(r)
    BY <2>1, <2>4 DEF AwaitsItsOwn
  <2>7. Spoken(caller) => Spoken(r)
    BY <2>4 DEF Spoken
  <2>8. ASSUME NEW s \in Services
        PROVE  /\ Holding(caller, s) => Holding(r, s)
               /\ Holding(r, s) => Holding(caller, s) \/ (Pending(caller, s) /\ Admit(s, c) \in step.out)
               /\ Pending(caller, s) /\ Fail(s, c) \notin step.out =>
                    IF Admit(s, c) \in step.out THEN Holding(r, s) ELSE Pending(r, s)
    <3>1. Admit(s, c) \in Tagged(step.out, "AdmitConnection") <=> Admit(s, c) \in step.out
      BY AnswerFields DEF Tagged
    <3>2. s \in {x.id : x \in {y \in Tagged(step.out, "AdmitConnection") : y.client = c}}
            <=> Admit(s, c) \in step.out
      <4>1. ASSUME NEW x \in Tagged(step.out, "AdmitConnection"), x.client = c, x.id = s
            PROVE  x = Admit(s, c)
        BY <4>1, AnswersKnown DEF Tagged
      <4> QED
        BY <3>1, <4>1, AnswerFields DEF Tagged
    <3>3. s \in caller.awaiting => (s \in A <=> Admit(s, c) \notin step.out)
      BY <2>1, <3>2
    <3>4. A \subseteq caller.awaiting
      BY <2>1
    <3>5. caller.awaiting \subseteq {s} /\ Fail(s, c) \notin step.out => b = caller.failed
      <4>1. ASSUME NEW x \in Tagged(step.out, "FailConnection"), x.client = c, x.id = s
            PROVE  Fail(s, c) \in step.out
        BY <4>1, AnswersKnown DEF Tagged
      <4> QED
        BY <2>2, <4>1 DEF Caller
    <3>6. /\ caller.awaiting = {} => b = caller.failed
          /\ caller.failed => b
      BY <2>2 DEF Caller
    <3>7. Traffic(caller.call) /\ caller.call.id = s /\ caller.at \in {"await", "withdraw"}
            => caller.awaiting \subseteq {s}
      BY DEF AwaitsItsOwn, WaitIds
    <3>8. Holding(caller, s) => Holding(r, s)
      BY <2>4, <3>4, <3>6 DEF Holding
    <3>9. Holding(r, s) => Holding(caller, s) \/ (Pending(caller, s) /\ Admit(s, c) \in step.out)
      BY <2>4, <3>3, <3>6, <3>7 DEF Holding, Pending
    <3>10. ASSUME Pending(caller, s), Fail(s, c) \notin step.out
           PROVE  IF Admit(s, c) \in step.out THEN Holding(r, s) ELSE Pending(r, s)
      <4>1. caller.awaiting = {s} /\ b = caller.failed
        BY <3>5, <3>7, <3>10 DEF Pending
      <4>2. A = IF Admit(s, c) \in step.out THEN {} ELSE {s}
        BY <3>3, <3>4, <4>1
      <4> QED
        BY <2>4, <3>10, <4>1, <4>2 DEF Holding, Pending
    <3> QED
      BY <3>8, <3>9, <3>10
  <2>9. Answered(caller, r, c, step.out)
    BY <2>6, <2>7, <2>8 DEF Answered
  <2> QED
    BY <2>5, <2>9
<1> QED
  BY <1>1, <1>2

\* Once the commands have reached the callers, the tally is that of no commands.
LEMMA ResolveKeeps ==
  ASSUME NEW step, step.st \in SoundState, step.out \subseteq LifecycleCommands,
         NEW callers \in [Clients -> Caller],
         \A c \in Clients : Orderly(callers[c]) /\ AwaitsItsOwn(callers[c]),
         Tallied(step.st, step.out, callers),
         NEW new, new = [c \in Clients |-> Resolved(callers[c], c, step)]
  PROVE  Tallied(step.st, {}, new) /\ \A c \in Clients : AwaitsItsOwn(new[c])
<1>1. \A c \in Clients : Answered(callers[c], new[c], c, step.out)
  BY ResolvedAnswered
<1>2. ASSUME NEW s \in step.st.members
      PROVE  TalliedAt(step.st.services[s], {}, new, s)
  <2>1. s \in Services /\ TalliedAt(step.st.services[s], step.out, callers, s)
    BY SoundMembers DEF Tallied
  <2>2. \A c \in Clients :
          /\ Holding(new[c], s) <=> Holding(callers[c], s) \/ (Pending(callers[c], s) /\ Admit(s, c) \in step.out)
          /\ Pending(callers[c], s) /\ Fail(s, c) \notin step.out /\ Admit(s, c) \notin step.out
               => Pending(new[c], s)
          /\ Spoken(callers[c]) => Spoken(new[c])
    BY <1>1, <2>1 DEF Answered, TalliedAt
  <2>3. Holders(new, {}, s) = Holders(callers, step.out, s)
    BY <2>2 DEF Holders
  <2>4. \A w \in step.st.services[s].waiters : w.client \in Clients
    BY <2>1, SoundFields DEF ServiceState, Waiter
  <2>5. WaitersWait(step.st.services[s].waiters, step.out, callers, s)
    BY <2>1 DEF TalliedAt
  <2>6. WaitersWait(step.st.services[s].waiters, {}, new, s)
    BY <2>2, <2>4, <2>5 DEF WaitersWait
  <2> QED
    BY <2>1, <2>3, <2>6 DEF TalliedAt
<1> QED
  BY <1>1, <1>2 DEF Tallied, Answered
-----------------------------------------------------------------------------
\* The pass keeps the tally.
LEMMA SettleKeeps ==
  ASSUME NEW step, step.st \in SoundState, NEW callers, Tallied(step.st, step.out, callers)
  PROVE  Tallied(settle(step).st, settle(step).out, callers)
<1>1. PICK st \in SoundState : st = step.st
  OBVIOUS
<1>2. PICK new : new = settle(step).st
  OBVIOUS
<1>3. PICK out : out = step.out
  OBVIOUS
<1>4. PICK o2 : o2 = Turns(step.st)
  OBVIOUS
<1>5. Served(st, new, o2)
  BY <1>1, <1>2, <1>4, SettleServes
<1>6. Tallied(st, out, callers)
  BY <1>1, <1>3
<1>7. Tallied(new, out \union o2, callers)
  BY <1>5, <1>6, ServedKeeps
<1>8. settle(step).out = out \union o2
  BY <1>3, <1>4, SettleAdvances
<1> QED
  BY <1>2, <1>7, <1>8

\* So does an event that admits nobody, and its pass.
LEMMA EventKeeps ==
  ASSUME NEW st \in SoundState, NEW step, step.st \in SoundState, DrainStep(st, step),
         NEW callers, Tallied(st, {}, callers)
  PROVE  Tallied(settle(step).st, settle(step).out, callers)
<1>1. PICK new : new = step.st
  OBVIOUS
<1>2. PICK out : out = step.out
  OBVIOUS
<1>3. Served(st, new, out)
  BY <1>1, <1>2, DrainsServe DEF DrainStep
<1>4. Tallied(new, {} \union out, callers)
  BY <1>3, ServedKeeps
<1>5. Tallied(step.st, step.out, callers)
  BY <1>1, <1>2, <1>4
<1> QED
  BY <1>5, SettleKeeps

\* A walk that leaves x0 at step k, for x1, and nowhere else.
LeavesAt(g, n, k, x0, x1) ==
  /\ g[0] = x0
  /\ \A i \in 1..n : i # k => g[i] = g[i - 1]
  /\ g[k - 1] = x0 => g[k] = x1

\* It ends at x1.
LEMMA OneStop ==
  ASSUME NEW n \in Nat, NEW k \in 1..n, NEW g, NEW x0, NEW x1, LeavesAt(g, n, k, x0, x1)
  PROVE  g[n] = x1
<1>0. g[0] = x0 /\ (\A i \in 1..n : i # k => g[i] = g[i - 1]) /\ (g[k - 1] = x0 => g[k] = x1)
  BY DEF LeavesAt
<1>1. PICK f : f = [i \in 0..n |-> IF g[i] = IF i < k THEN x0 ELSE x1 THEN 1 ELSE 0]
  OBVIOUS
<1>2. \A i \in 0..n : f[i] \in {1} <=> g[i] = IF i < k THEN x0 ELSE x1
  BY <1>1
<1>3. f[0] \in {1}
  <2>1. 0 \in 0..n /\ 0 < k
    OBVIOUS
  <2> QED
    BY <1>0, <1>2, <2>1
<1>4. ASSUME NEW i \in 1..n, f[i - 1] \in {1}
      PROVE  f[i] \in {1}
  <2>1. i \in 0..n /\ i - 1 \in 0..n
    OBVIOUS
  <2>2. g[i - 1] = IF i - 1 < k THEN x0 ELSE x1
    BY <1>2, <1>4, <2>1
  <2>3. CASE i < k
    <3>1. g[i] = x0
      BY <1>0, <2>2, <2>3
    <3> QED
      BY <1>2, <2>1, <2>3, <3>1
  <2>4. CASE i = k
    <3>1. g[i] = x1 /\ ~(i < k)
      BY <1>0, <2>2, <2>4
    <3> QED
      BY <1>2, <2>1, <3>1
  <2>5. CASE i > k
    <3>1. g[i] = x1 /\ ~(i < k)
      BY <1>0, <2>2, <2>5
    <3> QED
      BY <1>2, <2>1, <3>1
  <2> QED
    BY <2>3, <2>4, <2>5
<1>5. \A i \in 0..n : f[i] \in {1}
  <2>1. PICK X : X = {1}
    OBVIOUS
  <2>2. f[0] \in X /\ \A i \in 1..n : f[i - 1] \in X => f[i] \in X
    BY <1>3, <1>4, <2>1
  <2>3. \A i \in 0..n : f[i] \in X
    BY <2>2, Along
  <2> QED
    BY <2>1, <2>3
<1>6. n \in 0..n /\ ~(n < k)
  OBVIOUS
<1> QED
  BY <1>2, <1>5, <1>6

\* Each service has its place in the order.
LEMMA PlaceInOrder ==
  ASSUME NEW s \in Services
  PROVE  /\ Len(Order) \in Nat
         /\ \A i \in 1..Len(Order) : Order[i] \in Services
         /\ \E k \in 1..Len(Order) : Order[k] = s /\ \A i \in 1..Len(Order) : Order[i] = s <=> i = k
<1>1. Len(Order) \in Nat /\ DOMAIN Order = 1..Len(Order)
      /\ \A i \in 1..Len(Order) : Order[i] \in Services
  BY OrderAssumption
<1>2. PICK k \in 1..Len(Order) : Order[k] = s
  BY <1>1, OrderAssumption
<1> QED
  BY <1>1, <1>2, OrderAssumption

\* A connection is one wait.
LEMMA TrafficReduced ==
  ASSUME lifecycle \in SoundState, NEW c \in Clients, NEW call \in Operation, Traffic(call)
  PROVE  Reduced(c, call)
           = settle(Also(ConnectionOpened(lifecycle, call.id, c, RequiresReady(call, call.id)), {}))
<1>1. PICK s \in Services : s = call.id
  BY DEF Operation
<1>2. WaitIds(call) = {s}
  BY <1>1 DEF WaitIds
<1>3. PICK g : AwaitsAlong(g, c, call) /\ Reduced(c, call) = g[Len(Order)]
  BY ReducedWalk
<1>4. PICK n \in Nat : n = Len(Order)
  BY PlaceInOrder
<1>5. PICK k \in 1..n : Order[k] = s /\ \A i \in 1..n : Order[i] = s <=> i = k
  BY <1>1, <1>4, PlaceInOrder
<1>6. PICK x0 : x0 = Ignored(lifecycle)
  OBVIOUS
<1>7. PICK x1 : x1 = settle(Also(ConnectionOpened(lifecycle, s, c, RequiresReady(call, s)), {}))
  OBVIOUS
<1>8. FirstReduced(call) = x0
  BY <1>6 DEF FirstReduced
<1>9. g[0] = x0 /\ \A i \in 1..n : i # k => g[i] = g[i - 1]
  BY <1>2, <1>3, <1>4, <1>5, <1>8 DEF AwaitsAlong
<1>10. ASSUME g[k - 1] = x0
       PROVE  g[k] = x1
  <2>1. g[k] = settle(Also(Awaited(g[k - 1].st, c, call, s), g[k - 1].out))
    BY <1>2, <1>3, <1>4, <1>5 DEF AwaitsAlong
  <2>2. g[k - 1].st = lifecycle /\ g[k - 1].out = {}
    BY <1>6, <1>10, StepFields DEF Ignored
  <2>3. Awaited(lifecycle, c, call, s) = ConnectionOpened(lifecycle, s, c, RequiresReady(call, s))
    BY DEF Awaited
  <2> QED
    BY <1>7, <2>1, <2>2, <2>3
<1>11. g[n] = x1
  <2>1. g[k - 1] = x0 => g[k] = x1
    BY <1>10
  <2>2. g[0] = x0
    BY <1>9
  <2>3. \A i \in 1..n : i # k => g[i] = g[i - 1]
    BY <1>9
  <2>4. LeavesAt(g, n, k, x0, x1)
    BY <2>1, <2>2, <2>3 DEF LeavesAt
  <2> QED
    BY <2>4, OneStop
<1> QED
  BY <1>1, <1>3, <1>4, <1>7, <1>11

\* And so is its withdrawal.
LEMMA TrafficWithdrawn ==
  ASSUME lifecycle \in SoundState, NEW c, NEW call \in Operation, Traffic(call)
  PROVE  Withdrawn(c, call) = settle(Also(WaiterCancelled(lifecycle, call.id, c), {}))
<1>1. PICK s \in Services : s = call.id
  BY DEF Operation
<1>2. WaitIds(call) = {s}
  BY <1>1 DEF WaitIds
<1>3. PICK g : CancelsAlong(g, c, call) /\ Withdrawn(c, call) = g[Len(Order)]
  BY WithdrawnWalk
<1>4. PICK n \in Nat : n = Len(Order)
  BY PlaceInOrder
<1>5. PICK k \in 1..n : Order[k] = s /\ \A i \in 1..n : Order[i] = s <=> i = k
  BY <1>1, <1>4, PlaceInOrder
<1>6. PICK x0 : x0 = Ignored(lifecycle)
  OBVIOUS
<1>7. PICK x1 : x1 = settle(Also(WaiterCancelled(lifecycle, s, c), {}))
  OBVIOUS
<1>8. g[0] = x0 /\ \A i \in 1..n : i # k => g[i] = g[i - 1]
  BY <1>2, <1>3, <1>4, <1>5, <1>6 DEF CancelsAlong
<1>9. ASSUME g[k - 1] = x0
      PROVE  g[k] = x1
  <2>1. g[k] = settle(Also(WaiterCancelled(g[k - 1].st, s, c), g[k - 1].out))
    BY <1>2, <1>3, <1>4, <1>5 DEF CancelsAlong
  <2>2. g[k - 1].st = lifecycle /\ g[k - 1].out = {}
    BY <1>6, <1>9, StepFields DEF Ignored
  <2> QED
    BY <1>7, <2>1, <2>2
<1>10. g[n] = x1
  <2>1. g[k - 1] = x0 => g[k] = x1
    BY <1>9
  <2>2. g[0] = x0
    BY <1>8
  <2>3. \A i \in 1..n : i # k => g[i] = g[i - 1]
    BY <1>8
  <2>4. LeavesAt(g, n, k, x0, x1)
    BY <2>1, <2>2, <2>3 DEF LeavesAt
  <2> QED
    BY <2>4, OneStop
<1> QED
  BY <1>1, <1>3, <1>4, <1>7, <1>10

\* The reduced events that keep the tally of some callers.
TalliedSteps(callers) ==
  {x \in [st : SoundState, out : SUBSET LifecycleCommands] : Tallied(x.st, x.out, callers)}

\* A request admits nobody.
LEMMA RequestDrains ==
  ASSUME NEW st \in SoundState, NEW call \in Operation
  PROVE  DrainStep(st, Requested(st, call))
<1>1. call.op \in {"connect", "inspect", "start", "ready", "compose", "restart", "arm", "stop",
                   "storage", "destroy"}
  BY DEF Operation
<1>2. CASE call.op \in {"start", "compose"}
  BY <1>2, StartRequestedDrains DEF Requested
<1>3. CASE call.op = "restart"
  BY <1>3, RestartRequestedDrains DEF Requested
<1>4. CASE call.op = "arm"
  BY <1>4, ReservationsDrain DEF Requested
<1>5. CASE call.op = "stop"
  BY <1>5, StopRequestedDrains DEF Requested
<1>6. CASE call.op = "storage"
  BY <1>6, ReservationsDrain DEF Requested
<1>7. CASE call.op = "destroy"
  BY <1>7, DestroyRequestedDrains DEF Requested
<1>8. CASE call.op \in {"connect", "inspect", "ready"}
  BY <1>8, IgnoredDrains DEF Requested
<1> QED
  BY <1>1, <1>2, <1>3, <1>4, <1>5, <1>6, <1>7, <1>8

\* So do the requests of a call.
LEMMA FirstKeeps ==
  ASSUME lifecycle \in SoundState, NEW call \in Operation, NEW callers, Tallied(lifecycle, {}, callers)
  PROVE  FirstReduced(call) \in TalliedSteps(callers)
<1>1. FirstReduced(call) \in [st : SoundState, out : SUBSET LifecycleCommands]
  BY FirstReduces DEF Reductions
<1>2. CASE Traffic(call) \/ call.op = "ready"
  <2>1. FirstReduced(call) = Ignored(lifecycle)
    BY <1>2 DEF FirstReduced
  <2>2. Ignored(lifecycle).st = lifecycle /\ Ignored(lifecycle).out = {}
    BY StepFields DEF Ignored
  <2> QED
    BY <1>1, <2>1, <2>2 DEF TalliedSteps
<1>3. CASE ~(Traffic(call) \/ call.op = "ready")
  <2>1. PICK step : step = Requested(lifecycle, call)
    OBVIOUS
  <2>2. FirstReduced(call) = settle(step)
    BY <1>3, <2>1 DEF FirstReduced
  <2>3. step.st \in SoundState
    BY <2>1, RequestedReduces DEF StorageStep, Leads
  <2>4. DrainStep(lifecycle, step)
    BY <2>1, RequestDrains
  <2>5. Tallied(settle(step).st, settle(step).out, callers)
    BY <2>3, <2>4, EventKeeps
  <2> QED
    BY <1>1, <2>2, <2>5 DEF TalliedSteps
<1> QED
  BY <1>2, <1>3

\* An explicit call keeps the tally, wait after wait.
LEMMA ExplicitKeeps ==
  ASSUME lifecycle \in SoundState, NEW c \in Clients, NEW call \in Operation, ~Traffic(call),
         NEW callers, Tallied(lifecycle, {}, callers), Spoken(callers[c])
  PROVE  Reduced(c, call) \in TalliedSteps(callers)
<1>1. PICK g : AwaitsAlong(g, c, call) /\ Reduced(c, call) = g[Len(Order)]
  BY ReducedWalk
<1>2. PICK n \in Nat : n = Len(Order)
  BY OrderAssumption
<1>3. PICK X : X = TalliedSteps(callers)
  OBVIOUS
<1>4. g[0] \in X
  BY <1>1, <1>3, FirstKeeps DEF AwaitsAlong
<1>5. ASSUME NEW i \in 1..n, g[i - 1] \in X
      PROVE  g[i] \in X
  <2>1. g[i] \in [st : SoundState, out : SUBSET LifecycleCommands]
    <3>1. i \in 0..n
      OBVIOUS
    <3> QED
      BY <1>1, <1>2, <3>1 DEF AwaitsAlong, Reductions
  <2>2. CASE Order[i] \notin WaitIds(call)
    BY <1>1, <1>2, <1>5, <2>2 DEF AwaitsAlong
  <2>3. CASE Order[i] \in WaitIds(call)
    <3>1. PICK s \in Services : s = Order[i]
      BY <1>2, OrderAssumption
    <3>2. PICK st \in SoundState : st = g[i - 1].st
      BY <1>3, <1>5 DEF TalliedSteps
    <3>3. PICK out : out = g[i - 1].out
      OBVIOUS
    <3>4. PICK step : step = Awaited(st, c, call, s)
      OBVIOUS
    <3>5. step = Step(step.st, step.out) /\ step.st \in SoundState
      BY <3>2, <3>4, AwaitedQuiet DEF QuietStep, Quiet, Leads
    <3>6. RequiresReady(call, s) \in BOOLEAN
      BY DEF RequiresReady
    <3>7. Opens(st, step, s, c, "explicit")
      <4>1. step = openWaiter(st, s, c, RequiresReady(call, s), "explicit")
        BY <3>4 DEF Awaited, ReadinessAwaited
      <4> QED
        BY <3>6, <4>1, OpenWaiterOpens
    <3>8. Tallied(st, out, callers)
      BY <1>3, <1>5, <3>2, <3>3 DEF TalliedSteps
    <3>9. Tallied(step.st, out \union step.out, callers)
      BY <3>7, <3>8, ExplicitOpenKeeps
    <3>10. PICK whole : whole = Also(step, out)
      OBVIOUS
    <3>11. whole.st = step.st /\ whole.out = out \union step.out
      <4>1. Also(Step(step.st, step.out), out) = Step(step.st, step.out \union out)
        BY AlsoFields
      <4> QED
        BY <3>5, <3>10, <4>1, StepFields
    <3>12. Tallied(settle(whole).st, settle(whole).out, callers)
      BY <3>5, <3>9, <3>11, SettleKeeps
    <3>13. g[i] = settle(whole)
      BY <1>1, <1>2, <2>3, <3>1, <3>2, <3>3, <3>4, <3>10 DEF AwaitsAlong
    <3> QED
      BY <1>3, <2>1, <3>12, <3>13 DEF TalliedSteps
  <2> QED
    BY <2>2, <2>3
<1>6. \A i \in 0..n : g[i] \in X
  BY <1>4, <1>5, Along
<1> QED
  BY <1>1, <1>2, <1>3, <1>6

\* Its withdrawal keeps it, too.
LEMMA WithdrawnKeeps ==
  ASSUME lifecycle \in SoundState, NEW c, NEW call, NEW callers, Tallied(lifecycle, {}, callers)
  PROVE  Withdrawn(c, call) \in TalliedSteps(callers)
<1>1. PICK g : CancelsAlong(g, c, call) /\ Withdrawn(c, call) = g[Len(Order)]
  BY WithdrawnWalk
<1>2. PICK n \in Nat : n = Len(Order)
  BY OrderAssumption
<1>3. PICK X : X = TalliedSteps(callers)
  OBVIOUS
<1>4. \A i \in 0..n : g[i] \in [st : SoundState, out : SUBSET LifecycleCommands]
  BY <1>1, <1>2 DEF CancelsAlong, Reductions
<1>5. g[0] \in X
  <2>1. g[0].st = lifecycle /\ g[0].out = {}
    BY <1>1, StepFields DEF CancelsAlong, Ignored
  <2> QED
    BY <1>3, <1>4, <2>1 DEF TalliedSteps
<1>6. ASSUME NEW i \in 1..n, g[i - 1] \in X
      PROVE  g[i] \in X
  <2>1. CASE Order[i] \notin WaitIds(call)
    BY <1>1, <1>2, <1>6, <2>1 DEF CancelsAlong
  <2>2. CASE Order[i] \in WaitIds(call)
    <3>1. PICK s \in Services : s = Order[i]
      BY <1>2, OrderAssumption
    <3>2. PICK st \in SoundState : st = g[i - 1].st
      BY <1>3, <1>6 DEF TalliedSteps
    <3>3. PICK out : out = g[i - 1].out
      OBVIOUS
    <3>4. PICK step : step = WaiterCancelled(st, s, c)
      OBVIOUS
    <3>5. step = Step(step.st, step.out) /\ step.out = {}
      BY <3>4, StepFields DEF WaiterCancelled
    <3>6. step.st \in SoundState
      BY <3>4, WaiterCancelledQuiet DEF QuietStep, Quiet, Leads
    <3>7. Served(st, step.st, {})
      BY <3>4, <3>5, WaiterCancelledDrains, DrainsServe DEF DrainStep
    <3>8. Tallied(st, out, callers)
      BY <1>3, <1>6, <3>2, <3>3 DEF TalliedSteps
    <3>9. PICK new : new = step.st
      OBVIOUS
    <3>10. Tallied(new, out \union {}, callers)
      BY <3>7, <3>8, <3>9, ServedKeeps
    <3>11. PICK whole : whole = Also(step, out)
      OBVIOUS
    <3>12. whole.st = new /\ whole.out = out \union {}
      <4>1. Also(Step(step.st, step.out), out) = Step(step.st, step.out \union out)
        BY AlsoFields
      <4> QED
        BY <3>5, <3>9, <3>11, <4>1, StepFields
    <3>13. Tallied(settle(whole).st, settle(whole).out, callers)
      BY <3>6, <3>9, <3>10, <3>12, SettleKeeps
    <3>14. g[i] = settle(whole)
      BY <1>1, <1>2, <2>2, <3>1, <3>2, <3>3, <3>4, <3>11 DEF CancelsAlong
    <3>15. i \in 0..n
      OBVIOUS
    <3> QED
      BY <1>3, <1>4, <3>13, <3>14, <3>15 DEF TalliedSteps
  <2> QED
    BY <2>1, <2>2
<1>7. \A i \in 0..n : g[i] \in X
  BY <1>5, <1>6, Along
<1> QED
  BY <1>1, <1>2, <1>3, <1>7
-----------------------------------------------------------------------------
\* A caller that goes on without an answer: what it waits for and holds is as it was.
Remains(k, r) ==
  /\ AwaitsItsOwn(r)
  /\ Spoken(k) => Spoken(r)
  /\ \A s : /\ Holding(r, s) <=> Holding(k, s)
            /\ Pending(k, s) => Pending(r, s)

\* An explicit call, wherever it is.
LEMMA ExplicitRemains ==
  ASSUME NEW k, NEW r, ~Traffic(k.call), ~Traffic(r.call), r.at # "new", AwaitsItsOwn(r)
  PROVE  Remains(k, r)
BY DEF Remains, Spoken, Holding, Pending

\* Whoever is done.
LEMMA DoneRemains ==
  ASSUME NEW k, \A s : ~Holding(k, s) /\ ~Pending(k, s)
  PROVE  Remains(k, Arrive(k, "done")) /\ Spoken(Arrive(k, "done"))
<1>1. PICK r : r = Arrive(k, "done")
  OBVIOUS
<1>2. r.at = "done" /\ ~Traffic(r.call)
  BY <1>1, DoneCaller DEF Traffic, NoOperation
<1>3. AwaitsItsOwn(r) /\ Spoken(r) /\ \A s : ~Holding(r, s)
  BY <1>2 DEF AwaitsItsOwn, Spoken, Holding
<1> QED
  BY <1>1, <1>3 DEF Remains

\* Callers that remain leave the tally as it was.
LEMMA RemainsKeeps ==
  ASSUME lifecycle \in SoundState, LeasesAreTallied, NEW c \in Clients, NEW callers,
         \A d \in Clients \ {c} : callers[d] = client[d], Remains(client[c], callers[c])
  PROVE  Tallied(lifecycle, {}, callers) /\ \A d \in Clients : AwaitsItsOwn(callers[d])
<1>1. Tallied(lifecycle, {}, client)
  BY DEF LeasesAreTallied
<1>2. \A s \in lifecycle.members : \A w \in lifecycle.services[s].waiters : w.client \in Clients
  <2>1. ASSUME NEW s \in lifecycle.members
        PROVE  lifecycle.services[s].waiters \subseteq Waiter
    BY SoundMembers, SoundFields DEF ServiceState
  <2> QED
    BY <2>1 DEF Waiter
<1>3. \A d \in Clients : Spoken(client[d]) => Spoken(callers[d])
  BY DEF Remains
<1>4. \A d \in Clients, s \in lifecycle.members :
        /\ Holding(callers[d], s) <=> Holding(client[d], s)
        /\ Pending(client[d], s) => Pending(callers[d], s)
  BY DEF Remains
<1>5. Tallied(lifecycle, {}, callers)
  BY <1>1, <1>2, <1>3, <1>4, CallersKeep
<1> QED
  BY <1>5 DEF Remains, LeasesAreTallied

\* What a publishing step must see to.
LEMMA PublishTally ==
  ASSUME NEW step, NEW pending, NEW running, NEW callers \in [Clients -> Caller],
         Publish(step, pending, running, callers), step \in TalliedSteps(callers),
         \A c \in Clients : Orderly(callers[c]) /\ AwaitsItsOwn(callers[c])
  PROVE  LeasesAreTallied'
<1>1. PICK new : new = [c \in Clients |-> Resolved(callers[c], c, step)]
  OBVIOUS
<1>2. lifecycle' = step.st /\ client' = new
  BY <1>1 DEF Publish
<1>3. step.st \in SoundState /\ step.out \subseteq LifecycleCommands /\ Tallied(step.st, step.out, callers)
  BY DEF TalliedSteps
<1>4. Tallied(step.st, {}, new) /\ \A c \in Clients : AwaitsItsOwn(new[c])
  BY <1>1, <1>3, ResolveKeeps
<1> QED
  BY <1>2, <1>4 DEF LeasesAreTallied

\* The callers, as the invariant has them.
LEMMA CallersTallied ==
  ASSUME OwnerInv, LeasesAreTallied
  PROVE  /\ lifecycle \in SoundState /\ client \in [Clients -> Caller]
         /\ \A c \in Clients : Orderly(client[c]) /\ AwaitsItsOwn(client[c])
         /\ Tallied(lifecycle, {}, client)
BY OwnerParts DEF CallsInv, CallsAreOrderly, LeasesAreTallied

\* An event that admits nobody, with its pass.
LEMMA EventTallied ==
  ASSUME NEW st \in SoundState, NEW event, event.st \in SoundState,
         event.out \subseteq LifecycleCommands, DrainStep(st, event),
         NEW callers, Tallied(st, {}, callers)
  PROVE  settle(event) \in TalliedSteps(callers)
<1>1. PICK step : step = settle(event)
  OBVIOUS
<1>2. Tallied(step.st, step.out, callers)
  BY <1>1, EventKeeps
<1>3. step.st \in SoundState /\ step.out \subseteq LifecycleCommands
  BY <1>1, SettleAdvances DEF Advances
<1>4. step = [st |-> step.st, out |-> step.out]
  <2>1. settle(event) = Step(settle(event).st, settle(event).out)
    BY DEF settle, Step
  <2> QED
    BY <1>1, <2>1 DEF Step
<1>5. step \in [st : SoundState, out : SUBSET LifecycleCommands]
  BY <1>3, <1>4
<1> QED
  BY <1>1, <1>2, <1>5 DEF TalliedSteps

\* A step no caller takes part in but as a waiter.
LEMMA PassiveTally ==
  ASSUME OwnerInv, LeasesAreTallied, NEW event, event.st \in SoundState,
         event.out \subseteq LifecycleCommands, DrainStep(lifecycle, event),
         NEW pending, NEW running, Publish(settle(event), pending, running, client)
  PROVE  LeasesAreTallied'
<1>1. /\ lifecycle \in SoundState /\ client \in [Clients -> Caller]
      /\ \A c \in Clients : Orderly(client[c]) /\ AwaitsItsOwn(client[c])
      /\ Tallied(lifecycle, {}, client)
  BY CallersTallied
<1>2. PICK step : step = settle(event)
  OBVIOUS
<1>3. step \in TalliedSteps(client)
  BY <1>1, <1>2, EventTallied
<1>4. Publish(step, pending, running, client)
  BY <1>2
<1> QED
  BY <1>1, <1>3, <1>4, PublishTally

\* No outcome of an execution admits anybody.
LEMMA EventDrains ==
  ASSUME lifecycle \in SoundState, NEW f \in Fiber, Reports(f), NEW quiet
  PROVE  DrainStep(lifecycle, EventOf(f, quiet, lifecycle))
<1>1. f.id \in Services
  BY DEF Fiber
<1>2. f.at \in {"available", "succeeded", "recovered", "unready", "failed", "lost", "exited",
                "retained", "stopFailed"}
  BY DEF Fiber, Kinds, Reports, Reporting
<1>3. CASE f.at = "available"
  <2>1. EventOf(f, quiet, lifecycle) = SessionAvailable(lifecycle, f.id, f.generation)
    BY <1>3 DEF EventOf, OutcomeOf
  <2> QED
    BY <1>1, <2>1, CheckedDrains
<1>4. CASE f.at = "succeeded"
  <2>1. EventOf(f, quiet, lifecycle) = LaunchSucceeded(lifecycle, f.id, f.generation)
    BY <1>4 DEF EventOf, OutcomeOf
  <2> QED
    BY <1>1, <2>1, CheckedDrains
<1>5. CASE f.at = "recovered"
  <2>1. EventOf(f, quiet, lifecycle) = ReadinessRecovered(lifecycle, f.id, f.generation)
    BY <1>5 DEF EventOf, OutcomeOf
  <2> QED
    BY <1>1, <2>1, CheckedDrains
<1>6. CASE f.at = "unready"
  <2>1. EventOf(f, quiet, lifecycle) = ReadinessLost(lifecycle, f.id, f.generation)
    BY <1>6 DEF EventOf, OutcomeOf
  <2> QED
    BY <1>1, <2>1, ReadinessLostDrains
<1>7. CASE f.at = "failed"
  <2>1. EventOf(f, quiet, lifecycle) = LaunchFailed(lifecycle, f.id, f.generation, quiet)
    BY <1>7 DEF EventOf, OutcomeOf
  <2> QED
    BY <1>1, <2>1, LaunchFailedDrains
<1>8. CASE f.at = "lost"
  <2>1. EventOf(f, quiet, lifecycle) = SessionLost(lifecycle, f.id, f.generation, quiet)
    BY <1>8 DEF EventOf, OutcomeOf
  <2> QED
    BY <1>1, <2>1, SessionLostDrains
<1>9. CASE f.at = "exited"
  <2>1. PICK requested : requested = (f.kind = "stop")
    OBVIOUS
  <2>2. EventOf(f, quiet, lifecycle) = Exited(lifecycle, f.id, f.generation, requested)
    BY <1>9, <2>1 DEF EventOf, OutcomeOf
  <2> QED
    BY <1>1, <2>2, ExitedDrains
<1>10. CASE f.at \in {"retained", "stopFailed"}
  <2>1. PICK failure \in BOOLEAN : failure = (f.kind # "stop")
    OBVIOUS
  <2>2. EventOf(f, quiet, lifecycle) = StopFailed(lifecycle, f.id, f.generation, failure, quiet)
    BY <1>10, <2>1 DEF EventOf, OutcomeOf
  <2> QED
    BY <1>1, <2>2, StopFailedDrains
<1> QED
  BY <1>2, <1>3, <1>4, <1>5, <1>6, <1>7, <1>8, <1>9, <1>10

\* An outcome is delivered.
LEMMA DeliverTally ==
  ASSUME OwnerInv, LeasesAreTallied, NEW f \in fibers, Deliver(f)
  PROVE  LeasesAreTallied'
<1>1. lifecycle \in SoundState /\ f \in Fiber
  BY OwnerParts DEF BoundaryInv, TypeOK
<1>2. Reports(f)
  BY DEF Deliver, Delivered
<1>3. PICK quiet \in MayBeQuiet(f) :
        Publish(settle(EventOf(f, quiet, lifecycle)), commands, timers, client)
  BY DEF Deliver
<1>4. PICK event : event = EventOf(f, quiet, lifecycle)
  OBVIOUS
<1>5. event.st \in SoundState /\ event.out \subseteq LifecycleCommands
  BY <1>1, <1>2, <1>4, EventQuiet DEF QuietStep, Quiet, Leads, Plain
<1>6. DrainStep(lifecycle, event)
  BY <1>1, <1>2, <1>4, EventDrains
<1>7. Publish(settle(event), commands, timers, client)
  BY <1>3, <1>4
<1> QED
  BY <1>5, <1>6, <1>7, PassiveTally

\* A timer fires.
LEMMA TimerTally ==
  ASSUME OwnerInv, LeasesAreTallied,
         \/ \E s \in Services : IdleTimerFires(s)
         \/ \E x \in timers.cooldown : CooldownTimerFires(x[1], x[2])
  PROVE  LeasesAreTallied'
<1>1. lifecycle \in SoundState /\ timers \in TimersType
  BY OwnerParts
<1>2. ASSUME NEW s \in Services, IdleTimerFires(s)
      PROVE  LeasesAreTallied'
  <2>1. PICK g : g = timers.idle[s].generation
    OBVIOUS
  <2>2. PICK epoch : epoch = timers.idle[s].epoch
    OBVIOUS
  <2>3. PICK event : event = IdleElapsed(lifecycle, s, g, epoch)
    OBVIOUS
  <2>4. PICK running : running = [timers EXCEPT !.idle[s] = NoTimer]
    OBVIOUS
  <2>5. Publish(settle(event), commands, running, client)
    BY <1>2, <2>1, <2>2, <2>3, <2>4 DEF IdleTimerFires, Dispatch
  <2>6. QuietStep(lifecycle, event, {}) /\ DrainStep(lifecycle, event)
    BY <1>1, <2>3, IdleElapsedQuiet, TimersDrain
  <2> QED
    BY <2>5, <2>6, PassiveTally DEF QuietStep, Quiet, Leads, Plain
<1>3. ASSUME NEW x \in timers.cooldown, CooldownTimerFires(x[1], x[2])
      PROVE  LeasesAreTallied'
  <2>1. PICK s : s = x[1]
    OBVIOUS
  <2>2. PICK g : g = x[2]
    OBVIOUS
  <2>3. PICK event : event = CooldownElapsed(lifecycle, s, g)
    OBVIOUS
  <2>4. PICK running : running = [timers EXCEPT !.cooldown = @ \ {<<s, g>>}]
    OBVIOUS
  <2>5. Publish(settle(event), commands, running, client)
    BY <1>3, <2>1, <2>2, <2>3, <2>4 DEF CooldownTimerFires, Dispatch
  <2>6. s \in Services
    BY <1>1, <2>1 DEF TimersType
  <2>7. QuietStep(lifecycle, event, {}) /\ DrainStep(lifecycle, event)
    BY <1>1, <2>3, <2>6, CooldownElapsedQuiet, TimersDrain
  <2> QED
    BY <2>5, <2>7, PassiveTally DEF QuietStep, Quiet, Leads, Plain
<1> QED
  BY <1>2, <1>3
-----------------------------------------------------------------------------
\* A caller moves on, by itself.
LEMMA MovedTally ==
  ASSUME OwnerInv, LeasesAreTallied, NEW c \in Clients, NEW r, Remains(client[c], r),
         client' = [client EXCEPT ![c] = r], lifecycle' = lifecycle
  PROVE  LeasesAreTallied'
<1>1. lifecycle \in SoundState /\ client \in [Clients -> Caller]
  BY CallersTallied
<1>2. PICK callers : callers = [client EXCEPT ![c] = r]
  OBVIOUS
<1>3. callers[c] = r /\ \A d \in Clients \ {c} : callers[d] = client[d]
  BY <1>1, <1>2
<1>4. Tallied(lifecycle, {}, callers) /\ \A d \in Clients : AwaitsItsOwn(callers[d])
  BY <1>1, <1>3, RemainsKeeps
<1> QED
  BY <1>2, <1>4 DEF LeasesAreTallied

\* It gives up, is admitted, or was no connection.
LEMMA GoesTally ==
  ASSUME OwnerInv, LeasesAreTallied, NEW c \in Clients, NEW at, client' = Goes(c, at),
         lifecycle' = lifecycle,
         \/ client[c].at = "await" /\ at = "withdraw"
         \/ client[c].at = "await" /\ ~Unresolved(c)
            /\ at = IF Traffic(client[c].call) THEN "open" ELSE "done"
         \/ client[c].at \in {"new", "gate", "stopping"} /\ at = "done"
         \/ /\ client[c].at # "new" /\ client[c].call.op \in {"storage", "destroy"}
            /\ at \in {"working", "removing", "release", "unregister"}
  PROVE  LeasesAreTallied'
<1>1. client[c] \in Caller /\ Orderly(client[c]) /\ AwaitsItsOwn(client[c])
  BY CallersTallied
<1>2. PICK k \in Caller : k = client[c]
  BY <1>1
<1>3. PICK r : r = Arrive(k, at)
  OBVIOUS
<1>4. client' = [client EXCEPT ![c] = r]
  BY <1>2, <1>3 DEF Goes
<1>5. at # "done" => /\ r.at = at /\ r.call = k.call /\ r.awaiting = k.awaiting
                     /\ r.failed = k.failed
  BY <1>3 DEF Arrive, Caller
<1>6. Remains(k, r)
  <2>1. CASE k.at = "await" /\ at = "withdraw"
    BY <1>1, <1>2, <1>5, <2>1 DEF Remains, AwaitsItsOwn, Spoken, Holding, Pending
  <2>2. CASE k.at = "await" /\ ~Unresolved(c) /\ Traffic(k.call) /\ at = "open"
    <3>1. ~k.failed /\ k.awaiting = {}
      BY <1>2, <2>2 DEF Unresolved
    <3> QED
      BY <1>5, <2>2, <3>1 DEF Remains, AwaitsItsOwn, Spoken, Holding, Pending
  <2>3. CASE k.at = "await" /\ ~Traffic(k.call) /\ at = "done"
    <3>1. \A s : ~Holding(k, s) /\ ~Pending(k, s)
      BY <2>3 DEF Holding, Pending
    <3> QED
      BY <1>3, <2>3, <3>1, DoneRemains
  <2>4. CASE k.at \in {"new", "gate", "stopping"} /\ at = "done"
    <3>1. \A s : ~Holding(k, s) /\ ~Pending(k, s)
      BY <2>4 DEF Holding, Pending
    <3> QED
      BY <1>3, <2>4, <3>1, DoneRemains
  <2>5. CASE /\ k.at # "new" /\ k.call.op \in {"storage", "destroy"}
             /\ at \in {"working", "removing", "release", "unregister"}
    <3>1. ~Traffic(k.call) /\ ~Traffic(r.call) /\ r.at # "new"
      BY <1>5, <2>5 DEF Traffic
    <3>2. AwaitsItsOwn(r)
      BY <1>5, <2>5 DEF AwaitsItsOwn
    <3> QED
      BY <3>1, <3>2, ExplicitRemains
  <2> QED
    BY <1>2, <2>1, <2>2, <2>3, <2>4, <2>5
<1>7. Remains(client[c], r)
  BY <1>2, <1>6
<1> QED
  BY <1>4, <1>7, MovedTally

\* A watcher sees the state.
LEMMA ObserveTally ==
  ASSUME OwnerInv, LeasesAreTallied, NEW c \in Clients, Observe(c)
  PROVE  LeasesAreTallied'
<1>1. PICK r : r = Seen(client[c], lifecycle)
  OBVIOUS
<1>2. client[c] \in Caller /\ Orderly(client[c]) /\ lifecycle \in SoundState
  BY CallersTallied
<1>3. client' = [client EXCEPT ![c] = r] /\ lifecycle' = lifecycle /\ Observes(client[c])
  BY <1>1 DEF Observe, Moved
<1>4. PICK k \in Caller : k = client[c]
  BY <1>2
<1>5. k.at \in {"stopping", "reserving"} /\ k.call.op \in {"stop", "destroy"}
  BY <1>2, <1>3, <1>4 DEF Observes, Orderly
<1>6. r.at \in {"stopping", "reserving", "done", "remove", "release"}
  BY <1>1, <1>2, <1>3, SeenStages
<1>7. \A s : ~Holding(k, s) /\ ~Pending(k, s) /\ ~Holding(r, s)
  BY <1>5, <1>6 DEF Holding, Pending
<1>8. AwaitsItsOwn(r)
  BY <1>6 DEF AwaitsItsOwn
<1>9. ~Traffic(r.call)
  <2>1. GoesOn(k, r, lifecycle)
    BY <1>1, <1>2, <1>3, <1>4, SeenGoesOn
  <2>2. r.at # "done" => r.call = k.call
    BY <2>1 DEF GoesOn
  <2>3. Orderly(r)
    BY <2>1 DEF GoesOn
  <2>4. r.at = "done" => r.call.op = "none"
    BY <2>3 DEF Orderly
  <2> QED
    BY <1>5, <2>2, <2>4 DEF Traffic
<1>10. Spoken(r)
  BY <1>6, <1>9 DEF Spoken
<1>11. Remains(client[c], r)
  BY <1>4, <1>7, <1>8, <1>10 DEF Remains
<1> QED
  BY <1>3, <1>11, MovedTally

\* Whatever else a caller does by itself.
LEMMA OwnTally ==
  ASSUME OwnerInv, LeasesAreTallied, NEW c \in Clients,
         Admitted(c) \/ Expires(c) \/ Fails(c) \/ Cancel(c) \/ DataWork(c) \/ DataWorkEnds(c)
  PROVE  LeasesAreTallied'
<1>1. Orderly(client[c])
  BY CallersTallied
<1>2. CASE Admitted(c)
  <2>1. PICK at : at = IF Traffic(client[c].call) THEN "open" ELSE "done"
    OBVIOUS
  <2>2. client' = Goes(c, at) /\ client[c].at = "await" /\ ~Unresolved(c) /\ lifecycle' = lifecycle
    BY <1>2, <2>1 DEF Admitted, Moved
  <2> QED
    BY <2>1, <2>2, GoesTally
<1>3. CASE Expires(c) \/ Fails(c)
  <2>1. PICK at : /\ client' = Goes(c, at) /\ lifecycle' = lifecycle
                  /\ \/ client[c].at = "await" /\ at = "withdraw"
                     \/ client[c].at = "gate" /\ at = "done"
    BY <1>3 DEF Expires, Fails, Moved
  <2> QED
    BY <2>1, GoesTally
<1>4. CASE Cancel(c)
  <2>1. PICK at : /\ client' = Goes(c, at) /\ lifecycle' = lifecycle
                  /\ \/ client[c].at = "gate" /\ at = "done"
                     \/ client[c].at = "gate" /\ client[c].call.op = "destroy" /\ at = "release"
                     \/ client[c].at = "await" /\ at = "withdraw"
                     \/ client[c].at = "stopping" /\ at = "done"
                     \/ client[c].at \in {"work", "reserving", "remove"} /\ at = "release"
    BY <1>4 DEF Cancel, Moved
  <2>2. client[c].at \in {"work", "reserving", "remove"} => client[c].call.op \in {"storage", "destroy"}
    BY <1>1 DEF Orderly
  <2> QED
    BY <2>1, <2>2, GoesTally
<1>5. CASE DataWork(c) \/ DataWorkEnds(c)
  <2>1. PICK at : /\ client' = Goes(c, at) /\ lifecycle' = lifecycle
                  /\ client[c].at \in {"work", "remove", "working", "removing"}
                  /\ at \in {"working", "removing", "release", "unregister"}
    BY <1>5 DEF DataWork, DataWorkEnds
  <2>2. client[c].call.op \in {"storage", "destroy"} /\ client[c].at # "new"
    BY <1>1, <2>1 DEF Orderly
  <2> QED
    BY <2>1, <2>2, GoesTally
<1> QED
  BY <1>2, <1>3, <1>4, <1>5

\* A call is made, or found to be impossible.
LEMMA CallTally ==
  ASSUME OwnerInv, LeasesAreTallied, NEW c \in Clients, Call(c)
  PROVE  LeasesAreTallied'
<1>1. client[c].at = "new" /\ lifecycle' = lifecycle
  BY DEF Call, Moved
<1>2. PICK call : \/ client' = Goes(c, "done")
                  \/ client' = [client EXCEPT ![c] = [NewCaller EXCEPT !.call = call, !.at = "gate"]]
  BY DEF Call, Moved
<1>3. CASE client' = Goes(c, "done")
  BY <1>1, <1>3, GoesTally
<1>4. CASE client' = [client EXCEPT ![c] = [NewCaller EXCEPT !.call = call, !.at = "gate"]]
  <2>1. PICK r : r = [NewCaller EXCEPT !.call = call, !.at = "gate"]
    OBVIOUS
  <2>2. r.at = "gate"
    BY <2>1 DEF NewCaller
  <2>3. Remains(client[c], r)
    BY <1>1, <2>2 DEF Remains, AwaitsItsOwn, Spoken, Holding, Pending
  <2> QED
    BY <1>1, <1>4, <2>1, <2>3, MovedTally
<1> QED
  BY <1>2, <1>3, <1>4
-----------------------------------------------------------------------------
\* A pass over what keeps the tally.
LEMMA SettleTallied ==
  ASSUME NEW step, step.st \in SoundState, step.out \subseteq LifecycleCommands,
         NEW callers, Tallied(step.st, step.out, callers)
  PROVE  settle(step) \in TalliedSteps(callers)
<1>1. PICK done : done = settle(step)
  OBVIOUS
<1>2. Tallied(done.st, done.out, callers)
  BY <1>1, SettleKeeps
<1>3. done.st \in SoundState /\ done.out \subseteq LifecycleCommands
  BY <1>1, SettleAdvances DEF Advances
<1>4. done = [st |-> done.st, out |-> done.out]
  BY <1>1 DEF settle, Step
<1>5. done \in [st : SoundState, out : SUBSET LifecycleCommands]
  BY <1>3, <1>4
<1> QED
  BY <1>1, <1>2, <1>5 DEF TalliedSteps

\* A dispatch by one caller.
LEMMA DispatchTally ==
  ASSUME OwnerInv, LeasesAreTallied, NEW c \in Clients, NEW step, NEW running,
         NEW callers \in [Clients -> Caller], \A d \in Clients \ {c} : callers[d] = client[d],
         Orderly(callers[c]), AwaitsItsOwn(callers[c]), Dispatch(step, running, callers),
         step \in TalliedSteps(callers)
  PROVE  LeasesAreTallied'
<1>1. \A d \in Clients : Orderly(callers[d]) /\ AwaitsItsOwn(callers[d])
  BY CallersTallied
<1>2. PICK pending : Publish(step, pending, running, callers)
  BY DEF Dispatch
<1> QED
  BY <1>1, <1>2, PublishTally

\* A caller that is done, or has a lease to give back.
LEMMA GoneTally ==
  ASSUME OwnerInv, LeasesAreTallied, NEW c \in Clients, NEW step, NEW at,
         \/ at = "done"
         \/ at = "close" /\ Traffic(client[c].call),
         Dispatch(step, timers, Goes(c, at)), step \in TalliedSteps(Goes(c, at))
  PROVE  LeasesAreTallied'
<1>1. client \in [Clients -> Caller] /\ client[c] \in Caller
  BY CallersTallied
<1>2. PICK callers : callers = Goes(c, at)
  OBVIOUS
<1>3. at \in Stages
  BY DEF Stages
<1>4. /\ callers \in [Clients -> Caller] /\ callers[c] = Arrive(client[c], at)
      /\ \A d \in Clients \ {c} : callers[d] = client[d]
  BY <1>1, <1>2, <1>3, GoesFields
<1>5. Orderly(callers[c]) /\ AwaitsItsOwn(callers[c])
  <2>1. CASE at = "done"
    BY <1>4, <2>1, DoneCaller DEF AwaitsItsOwn
  <2>2. CASE at = "close" /\ Traffic(client[c].call)
    <3>1. callers[c].at = "close" /\ callers[c].call = client[c].call
      BY <1>1, <1>3, <1>4, <2>2, ArriveFields
    <3> QED
      BY <2>2, <3>1 DEF Orderly, AwaitsItsOwn, Traffic
  <2> QED
    BY <2>1, <2>2
<1>6. Dispatch(step, timers, callers) /\ step \in TalliedSteps(callers)
  BY <1>2
<1> QED
  BY <1>4, <1>5, <1>6, DispatchTally

\* What callers there are once a caller that held and awaited nothing is done.
LEMMA DoneTally ==
  ASSUME OwnerInv, LeasesAreTallied, NEW c \in Clients,
         \A s : ~Holding(client[c], s) /\ ~Pending(client[c], s)
  PROVE  Tallied(lifecycle, {}, Goes(c, "done")) /\ Spoken(Goes(c, "done")[c])
<1>1. lifecycle \in SoundState /\ client \in [Clients -> Caller]
  BY CallersTallied
<1>2. PICK callers : callers = Goes(c, "done")
  OBVIOUS
<1>3. "done" \in Stages
  BY DEF Stages
<1>4. callers[c] = Arrive(client[c], "done") /\ \A d \in Clients \ {c} : callers[d] = client[d]
  BY <1>1, <1>2, <1>3, GoesFields
<1>5. Remains(client[c], Arrive(client[c], "done")) /\ Spoken(Arrive(client[c], "done"))
  BY DoneRemains
<1>6. Remains(client[c], callers[c])
  BY <1>4, <1>5
<1>7. Tallied(lifecycle, {}, callers)
  BY <1>1, <1>4, <1>6, RemainsKeeps
<1> QED
  BY <1>2, <1>4, <1>5, <1>7

\* A lease is given back.
LEMMA CloseTally ==
  ASSUME OwnerInv, LeasesAreTallied, NEW c \in Clients, Close(c)
  PROVE  LeasesAreTallied'
<1>1. /\ lifecycle \in SoundState /\ client \in [Clients -> Caller]
      /\ Tallied(lifecycle, {}, client) /\ AwaitsItsOwn(client[c])
  BY CallersTallied
<1>2. client[c].at \in {"open", "close"}
  BY DEF Close
<1>3. PICK s \in Services : s = client[c].call.id
  BY <1>2, CallOf
<1>4. Holding(client[c], s)
  BY <1>1, <1>2, <1>3 DEF AwaitsItsOwn, Holding
<1>5. PICK callers : callers = Goes(c, "done")
  OBVIOUS
<1>6. "done" \in Stages
  BY DEF Stages
<1>7. callers[c] = Arrive(client[c], "done") /\ \A d \in Clients \ {c} : callers[d] = client[d]
  BY <1>1, <1>5, <1>6, GoesFields
<1>8. Spoken(callers[c])
  BY <1>7, DoneCaller DEF Spoken, Traffic, NoOperation
<1>9. PICK event : event = ConnectionClosed(lifecycle, s)
  OBVIOUS
<1>10. event.st \in SoundState /\ event.out = {} /\ event.out \subseteq LifecycleCommands
  BY <1>1, <1>9, ConnectionClosedQuiet, ClosedWaits DEF QuietStep, Quiet, Leads
<1>11. Tallied(event.st, {}, callers)
  BY <1>1, <1>3, <1>4, <1>7, <1>8, <1>9, CloseKeeps
<1>12. PICK step : step = settle(event)
  OBVIOUS
<1>13. step \in TalliedSteps(callers)
  BY <1>10, <1>11, <1>12, SettleTallied
<1>14. Dispatch(step, timers, Goes(c, "done"))
  BY <1>3, <1>9, <1>12 DEF Close
<1> QED
  BY <1>5, <1>13, <1>14, GoneTally

\* A reservation ends.
LEMMA ReleaseTally ==
  ASSUME OwnerInv, LeasesAreTallied, NEW c \in Clients, Release(c)
  PROVE  LeasesAreTallied'
<1>1. lifecycle \in SoundState
  BY CallersTallied
<1>2. client[c].at = "release"
  BY DEF Release
<1>3. PICK s \in Services : s = client[c].call.id
  BY <1>2, CallOf
<1>4. PICK callers : callers = Goes(c, "done")
  OBVIOUS
<1>5. Tallied(lifecycle, {}, callers)
  BY <1>2, <1>4, DoneTally DEF Holding, Pending
<1>6. PICK event : event = IF client[c].call.op = "destroy" THEN DestroyReleased(lifecycle, s)
                                                            ELSE StorageReleased(lifecycle, s)
  OBVIOUS
<1>7. DrainStep(lifecycle, event) /\ event.st \in SoundState /\ event.out \subseteq LifecycleCommands
  <2>1. CASE event = DestroyReleased(lifecycle, s)
    BY <1>1, <2>1, ReleasesDrain, DestroyReleasedStep DEF StorageStep, Leads, Plain
  <2>2. CASE event = StorageReleased(lifecycle, s)
    BY <1>1, <2>2, ReleasesDrain, StorageReleasedStep DEF StorageStep, Leads, Plain
  <2> QED
    BY <1>6, <2>1, <2>2
<1>8. PICK step : step = settle(event)
  OBVIOUS
<1>9. step \in TalliedSteps(callers)
  BY <1>1, <1>5, <1>7, <1>8, EventTallied
<1>10. Dispatch(step, timers, Goes(c, "done"))
  BY <1>3, <1>6, <1>8 DEF Release
<1> QED
  BY <1>4, <1>9, <1>10, GoneTally

\* A service leaves the graph, and its reservation ends.
LEMMA UnregisterTally ==
  ASSUME OwnerInv, LeasesAreTallied, NEW c \in Clients, Unregister(c)
  PROVE  LeasesAreTallied'
<1>1. lifecycle \in SoundState
  BY CallersTallied
<1>2. client[c].at = "unregister"
  BY DEF Unregister
<1>3. PICK s \in Services : s = client[c].call.id
  BY <1>2, CallOf
<1>4. PICK callers : callers = Goes(c, "done")
  OBVIOUS
<1>5. Tallied(lifecycle, {}, callers)
  BY <1>2, <1>4, DoneTally DEF Holding, Pending
<1>6. PICK event : event = GraphUpdated(lifecycle, s)
  OBVIOUS
<1>7. DrainStep(lifecycle, event) /\ event.st \in SoundState /\ event.out \subseteq LifecycleCommands
  BY <1>1, <1>6, GraphUpdatedDrains, GraphUpdatedStep DEF StorageStep, Leads, Plain
<1>8. PICK removed : removed = settle(event)
  OBVIOUS
<1>9. removed \in TalliedSteps(callers)
  BY <1>1, <1>5, <1>7, <1>8, EventTallied
<1>10. PICK st \in SoundState : st = removed.st
  BY <1>9 DEF TalliedSteps
<1>11. PICK out : out = removed.out
  OBVIOUS
<1>12. Tallied(st, out, callers) /\ out \subseteq LifecycleCommands
  BY <1>9, <1>10, <1>11 DEF TalliedSteps
<1>13. PICK release : release = DestroyReleased(st, s)
  OBVIOUS
<1>14. release.st \in SoundState /\ release.out \subseteq LifecycleCommands
  BY <1>13, DestroyReleasedStep DEF StorageStep, Leads, Plain
<1>15. PICK new : new = release.st
  OBVIOUS
<1>16. PICK o2 : o2 = release.out
  OBVIOUS
<1>17. Served(st, new, o2)
  BY <1>13, <1>15, <1>16, ReleasesDrain, DrainsServe DEF DrainStep
<1>18. Tallied(new, out \union o2, callers)
  BY <1>12, <1>17, ServedKeeps
<1>19. PICK whole : whole = Also(release, out)
  OBVIOUS
<1>20. whole.st = new /\ whole.out = out \union o2
  BY <1>15, <1>16, <1>19 DEF Also, Step
<1>21. whole.st \in SoundState /\ whole.out \subseteq LifecycleCommands
  BY <1>12, <1>14, <1>15, <1>16, <1>20
<1>22. Tallied(whole.st, whole.out, callers)
  BY <1>18, <1>20
<1>23. PICK step : step = settle(whole)
  OBVIOUS
<1>24. step \in TalliedSteps(callers)
  BY <1>21, <1>22, <1>23, SettleTallied
<1>25. Dispatch(step, timers, Goes(c, "done"))
  BY <1>3, <1>6, <1>8, <1>10, <1>11, <1>13, <1>19, <1>23 DEF Unregister
<1> QED
  BY <1>4, <1>24, <1>25, GoneTally
-----------------------------------------------------------------------------
\* The withdrawal of an explicit call.
LEMMA ExplicitWithdrawTally ==
  ASSUME OwnerInv, LeasesAreTallied, NEW c \in Clients, Withdraw(c), ~Traffic(client[c].call)
  PROVE  LeasesAreTallied'
<1>1. lifecycle \in SoundState
  BY CallersTallied
<1>2. PICK callers : callers = Goes(c, "done")
  OBVIOUS
<1>3. Tallied(lifecycle, {}, callers)
  BY <1>2, DoneTally DEF Holding, Pending
<1>4. PICK step : step = Withdrawn(c, client[c].call)
  OBVIOUS
<1>5. step \in TalliedSteps(callers)
  BY <1>1, <1>3, <1>4, WithdrawnKeeps
<1>6. Dispatch(step, timers, Goes(c, "done"))
  BY <1>4 DEF Withdraw, OwesLease
<1> QED
  BY <1>2, <1>5, <1>6, GoneTally

\* The withdrawal of a connection, which may have been admitted before.
LEMMA TrafficWithdrawTally ==
  ASSUME OwnerInv, LeasesAreTallied, NEW c \in Clients, Withdraw(c), Traffic(client[c].call)
  PROVE  LeasesAreTallied'
<1>1. /\ lifecycle \in SoundState /\ client \in [Clients -> Caller]
      /\ Tallied(lifecycle, {}, client)
  BY CallersTallied
<1>2. client[c].at = "withdraw"
  BY DEF Withdraw
<1>3. PICK k \in Caller : k = client[c]
  BY <1>1
<1>4. PICK s \in Services : s = k.call.id
  BY <1>2, <1>3, CallOf
<1>5. k.call \in Operation
  BY <1>2, <1>3, CallOf
<1>6. PICK at \in {"close", "done"} : at = IF OwesLease(c) THEN "close" ELSE "done"
  OBVIOUS
<1>7. at = "close" <=> ~k.failed /\ k.awaiting = {}
  BY <1>3, <1>6 DEF OwesLease, Unresolved
<1>8. PICK event : event = WaiterCancelled(lifecycle, s, c)
  OBVIOUS
<1>9. event.st \in SoundState
  BY <1>1, <1>8, WaiterCancelledQuiet DEF QuietStep, Quiet, Leads
<1>10. PICK st \in SoundState : st = event.st
  BY <1>9
<1>11. event.out = {} /\ DrainStep(lifecycle, event) /\ \A w \in st.services[s].waiters : w.client # c
  BY <1>1, <1>8, <1>10, WaiterCancelledDrains
<1>12. Tallied(st, {}, client)
  <2>1. Served(lifecycle, st, {})
    BY <1>1, <1>10, <1>11, DrainsServe DEF DrainStep
  <2>2. Tallied(st, {} \union {}, client)
    BY <1>1, <2>1, ServedKeeps
  <2>3. {} \union {} = {}
    OBVIOUS
  <2> QED
    BY <2>2, <2>3
<1>13. PICK callers : callers = Goes(c, at)
  OBVIOUS
<1>14. PICK r : r = callers[c]
  OBVIOUS
<1>15. at \in Stages
  BY DEF Stages
<1>16. r = Arrive(k, at) /\ \A d \in Clients \ {c} : callers[d] = client[d]
  BY <1>1, <1>3, <1>13, <1>14, <1>15, GoesFields
<1>17. r.at = at /\ (at = "close" => r.call = k.call) /\ (at = "done" => ~Traffic(r.call))
  <2>1. CASE at = "done"
    BY <1>16, <2>1, DoneCaller DEF Traffic, NoOperation
  <2>2. CASE at = "close"
    BY <1>15, <1>16, <2>2, ArriveFields
  <2> QED
    BY <2>1, <2>2
<1>18. ASSUME NEW t
       PROVE  /\ Holding(r, t) <=> Holding(k, t)
              /\ Pending(k, t) => t = s
  BY <1>2, <1>3, <1>4, <1>7, <1>17 DEF Holding, Pending
<1>19. Tallied(st, {}, callers)
  <2>1. \A t \in st.members : \A w \in st.services[t].waiters : w.client \in Clients
    <3>1. ASSUME NEW t \in st.members
          PROVE  st.services[t].waiters \subseteq Waiter
      BY SoundMembers, SoundFields DEF ServiceState
    <3> QED
      BY <3>1 DEF Waiter
  <2>2. \A d \in Clients : Spoken(client[d]) => Spoken(callers[d])
    BY <1>16 DEF Spoken
  <2>3. \A d \in Clients, t \in st.members :
          /\ Holding(callers[d], t) <=> Holding(client[d], t)
          /\ Pending(client[d], t) => \/ Pending(callers[d], t)
                                      \/ \A w \in st.services[t].waiters : w.client # d
    BY <1>3, <1>11, <1>14, <1>16, <1>18
  <2> QED
    BY <1>12, <2>1, <2>2, <2>3, CallersKeep
<1>20. PICK whole : whole = Also(event, {})
  OBVIOUS
<1>21. whole.st = st /\ whole.out = {}
  BY <1>10, <1>11, <1>20 DEF Also, Step
<1>22. PICK step : step = settle(whole)
  OBVIOUS
<1>23. step \in TalliedSteps(callers)
  <2>1. whole.st \in SoundState /\ whole.out \subseteq LifecycleCommands
    BY <1>21
  <2>2. Tallied(whole.st, whole.out, callers)
    BY <1>19, <1>21
  <2> QED
    BY <1>22, <2>1, <2>2, SettleTallied
<1>24. Withdrawn(c, k.call) = step
  BY <1>1, <1>3, <1>4, <1>5, <1>8, <1>20, <1>22, TrafficWithdrawn
<1>25. Dispatch(step, timers, Goes(c, at))
  BY <1>3, <1>6, <1>24 DEF Withdraw
<1> QED
  BY <1>13, <1>23, <1>25, GoneTally

\* A connection asks for its service.
LEMMA TrafficEnterTally ==
  ASSUME OwnerInv, LeasesAreTallied, NEW c \in Clients, Enter(c), Traffic(client[c].call)
  PROVE  LeasesAreTallied'
<1>1. /\ lifecycle \in SoundState /\ client \in [Clients -> Caller]
      /\ Tallied(lifecycle, {}, client)
  BY CallersTallied
<1>2. client[c].at = "gate"
  BY DEF Enter
<1>3. PICK k \in Caller : k = client[c]
  BY <1>1
<1>4. PICK call \in Operation : call = k.call
  BY <1>2, <1>3, CallOf
<1>5. PICK s \in Services : s = call.id
  BY DEF Operation
<1>6. PICK b \in BOOLEAN : b = RequiresReady(call, s)
  BY DEF RequiresReady
<1>7. PICK event : event = ConnectionOpened(lifecycle, s, c, b)
  OBVIOUS
<1>8. event.st \in SoundState /\ event.out \subseteq LifecycleCommands
  BY <1>1, <1>7, ConnectionOpenedQuiet DEF QuietStep, Quiet, Leads, Plain
<1>9. Opens(lifecycle, event, s, c, "traffic")
  BY <1>1, <1>7, OpenWaiterOpens DEF ConnectionOpened
<1>10. PICK whole : whole = Also(event, {})
  OBVIOUS
<1>11. whole.st = event.st /\ whole.out = event.out
  <2>1. whole.st = event.st /\ whole.out = event.out \union {}
    BY <1>10 DEF Also, Step
  <2> QED
    BY <2>1
<1>12. PICK step : step = settle(whole)
  OBVIOUS
<1>13. Reduced(c, call) = step
  BY <1>1, <1>3, <1>4, <1>5, <1>6, <1>7, <1>10, <1>12, TrafficReduced
<1>14. Rejected(s) \notin step.out
  <2>1. Rejected(s).tag = "RequestRejected" /\ Admit(s, c).tag = "AdmitConnection" /\ Fail(s, c).tag = "FailConnection"
    BY AnswerFields DEF Rejected
  <2>2. Rejected(s) \notin event.out
    BY <1>9, <2>1 DEF Opens
  <2>3. step.out = event.out \union Turns(event.st) /\ Unrefusing(Turns(event.st))
    BY <1>8, <1>11, <1>12, SettleAdvances, SettleServes
  <2> QED
    BY <2>1, <2>2, <2>3 DEF Unrefusing
<1>15. WaitIds(call) = {s}
  BY <1>3, <1>4, <1>5 DEF WaitIds
<1>16. PICK A \in SUBSET Services : A = {s}
  OBVIOUS
<1>17. PICK r : r = [k EXCEPT !.at = "await", !.awaiting = A, !.failed = FALSE, !.generation = 0]
  OBVIOUS
<1>18. /\ r \in Caller /\ r.call = call /\ r.at = "await" /\ r.awaiting = A /\ ~r.failed
  BY <1>3, <1>4, <1>17 DEF Caller, Stages
<1>19. PICK callers : callers = [client EXCEPT ![c] = r]
  OBVIOUS
<1>20. /\ callers \in [Clients -> Caller] /\ callers[c] = r
       /\ \A d \in Clients \ {c} : callers[d] = client[d]
  BY <1>1, <1>18, <1>19
<1>21. Dispatch(step, timers, callers)
  <2>1. NextStage(call, step) = "await"
    <3>1. PICK stage : stage = NextStage(call, step)
      OBVIOUS
    <3>2. Waiting(call) /\ call.op \in {"connect", "inspect"}
      BY <1>3, <1>4 DEF Waiting, Traffic
    <3>3. stage = "await"
      BY <3>1, <3>2 DEF NextStage
    <3> QED
      BY <3>1, <3>3
  <2>2. (Rejected(call.id) \in step.out) = FALSE
    BY <1>5, <1>14
  <2>3. Dispatch(step, timers,
          [client EXCEPT ![c] =
             [@ EXCEPT !.at = "await", !.awaiting = WaitIds(call),
                       !.failed = Rejected(call.id) \in step.out, !.generation = 0]])
    BY <1>3, <1>4, <1>13, <2>1 DEF Enter
  <2> QED
    BY <1>3, <1>15, <1>16, <1>17, <1>19, <2>2, <2>3
<1>22. Orderly(r) /\ AwaitsItsOwn(r) /\ Pending(r, s)
  BY <1>3, <1>4, <1>5, <1>15, <1>16, <1>18 DEF Orderly, AwaitsItsOwn, Pending, Traffic
<1>23. \A t : ~Holding(k, t) /\ ~Pending(k, t) /\ ~Holding(r, t)
  BY <1>2, <1>3, <1>16, <1>18 DEF Holding, Pending
<1>24. ~Spoken(k)
  BY <1>3 DEF Spoken
<1>25. Tallied(lifecycle, {}, callers)
  <2>1. \A t \in lifecycle.members : \A w \in lifecycle.services[t].waiters : w.client \in Clients
    <3>1. ASSUME NEW t \in lifecycle.members
          PROVE  lifecycle.services[t].waiters \subseteq Waiter
      BY <1>1, SoundMembers, SoundFields DEF ServiceState
    <3> QED
      BY <3>1 DEF Waiter
  <2>2. \A d \in Clients : Spoken(client[d]) => Spoken(callers[d])
    BY <1>3, <1>20, <1>24
  <2>3. \A d \in Clients, t \in lifecycle.members :
          /\ Holding(callers[d], t) <=> Holding(client[d], t)
          /\ Pending(client[d], t) => \/ Pending(callers[d], t)
                                      \/ \A w \in lifecycle.services[t].waiters : w.client # d
    BY <1>3, <1>20, <1>23
  <2> QED
    BY <1>1, <2>1, <2>2, <2>3, CallersKeep
<1>26. s \in lifecycle.members => \A w \in lifecycle.services[s].waiters : w.client # c
  <2>1. ASSUME s \in lifecycle.members, NEW w \in lifecycle.services[s].waiters, w.client = c
        PROVE  FALSE
    <3>1. WaitersWait(lifecycle.services[s].waiters, {}, client, s)
      BY <1>1, <2>1 DEF Tallied, TalliedAt
    <3>2. Pending(client[c], s) \/ Spoken(client[c])
      BY <2>1, <3>1 DEF WaitersWait
    <3> QED
      BY <1>3, <1>23, <1>24, <3>2
  <2> QED
    BY <2>1
<1>27. Tallied(event.st, event.out, callers)
  BY <1>1, <1>9, <1>20, <1>22, <1>25, <1>26, TrafficOpenKeeps
<1>28. step \in TalliedSteps(callers)
  BY <1>8, <1>11, <1>12, <1>27, SettleTallied
<1> QED
  BY <1>20, <1>21, <1>22, <1>28, DispatchTally

\* An explicit call enters.
LEMMA ExplicitEnterTally ==
  ASSUME OwnerInv, LeasesAreTallied, NEW c \in Clients, Enter(c), ~Traffic(client[c].call)
  PROVE  LeasesAreTallied'
<1>1. /\ lifecycle \in SoundState /\ client \in [Clients -> Caller]
      /\ Tallied(lifecycle, {}, client)
  BY CallersTallied
<1>2. client[c].at = "gate"
  BY DEF Enter
<1>3. PICK call \in Operation : call = client[c].call /\ call.id \in Services
  BY <1>2, CallOf
<1>4. PICK step : step = Reduced(c, call)
  OBVIOUS
<1>5. PICK stage : stage = NextStage(call, step)
  OBVIOUS
<1>6. /\ stage \in {"await", "release", "reserving", "work", "stopping", "done"}
      /\ stage \in {"release", "reserving"} => call.op = "destroy"
      /\ stage = "work" => call.op = "storage"
      /\ stage = "stopping" => call.op = "stop"
  BY <1>5, NextStages
<1>7. CASE stage = "done"
  <2>1. PICK callers : callers = Goes(c, "done")
    OBVIOUS
  <2>2. Tallied(lifecycle, {}, callers) /\ Spoken(callers[c])
    BY <1>2, <2>1, DoneTally DEF Holding, Pending
  <2>3. step \in TalliedSteps(callers)
    BY <1>1, <1>3, <1>4, <2>2, ExplicitKeeps
  <2>4. Dispatch(step, timers, Goes(c, "done"))
    BY <1>3, <1>4, <1>5, <1>7 DEF Enter
  <2> QED
    BY <2>1, <2>3, <2>4, GoneTally
<1>8. CASE stage # "done"
  <2>1. PICK A \in SUBSET Services : A = WaitIds(call)
    <3>1. WaitIds(call) \subseteq Services
      BY <1>3 DEF WaitIds, prerequisiteClosure
    <3> QED
      BY <3>1
  <2>2. PICK b \in BOOLEAN : b = (Rejected(call.id) \in step.out)
    <3>1. (Rejected(call.id) \in step.out) \in BOOLEAN
      OBVIOUS
    <3> QED
      BY <3>1, Zenon
  <2>3. PICK g \in Nat : g = IF stage = "stopping" THEN step.st.services[call.id].phase.generation ELSE 0
    <3>1. step.st \in SoundState
      BY <1>1, <1>3, <1>4, ReducedReduces DEF Reductions
    <3> QED
      BY <1>3, <3>1, SoundFields
  <2>4. PICK r : r = [client[c] EXCEPT !.at = stage, !.awaiting = A, !.failed = b, !.generation = g]
    OBVIOUS
  <2>5. r \in Caller /\ r.call = call /\ r.at = stage /\ r.awaiting = A
    BY <1>1, <1>3, <1>6, <2>4 DEF Caller, Stages
  <2>6. PICK callers : callers = [client EXCEPT ![c] = r]
    OBVIOUS
  <2>7. /\ callers \in [Clients -> Caller] /\ callers[c] = r
        /\ \A d \in Clients \ {c} : callers[d] = client[d]
    BY <1>1, <2>5, <2>6
  <2>8. Dispatch(step, timers, callers)
    BY <1>3, <1>4, <1>5, <1>8, <2>1, <2>2, <2>3, <2>4, <2>6 DEF Enter
  <2>9. Orderly(r)
    BY <1>3, <1>6, <1>8, <2>5 DEF Orderly, Operation
  <2>10. AwaitsItsOwn(r)
    BY <1>6, <2>1, <2>5 DEF AwaitsItsOwn
  <2>11. Remains(client[c], r)
    <3>1. ~Traffic(r.call) /\ r.at # "new"
      BY <1>3, <1>6, <2>5
    <3> QED
      BY <2>10, <3>1, ExplicitRemains
  <2>12. Spoken(r)
    BY <1>3, <1>6, <2>5 DEF Spoken
  <2>13. Remains(client[c], callers[c])
    BY <2>7, <2>11
  <2>14. Tallied(lifecycle, {}, callers)
    BY <1>1, <2>7, <2>13, RemainsKeeps
  <2>15. step \in TalliedSteps(callers)
    BY <1>1, <1>3, <1>4, <2>7, <2>12, <2>14, ExplicitKeeps
  <2> QED
    BY <2>7, <2>8, <2>9, <2>10, <2>15, DispatchTally
<1> QED
  BY <1>7, <1>8

\* At the start nobody waits and nobody holds a lease.
LEMMA InitTally == OrchestratorInit => LeasesAreTallied
<1> SUFFICES ASSUME OrchestratorInit
             PROVE  LeasesAreTallied
  OBVIOUS
<1>1. \A c \in Clients : client[c] = NewCaller
  BY DEF OrchestratorInit
<1>2. \A c \in Clients : AwaitsItsOwn(client[c]) /\ \A s : ~Holding(client[c], s) /\ ~Pending(client[c], s)
  BY <1>1 DEF NewCaller, NoOperation, AwaitsItsOwn, Holding, Pending
<1>3. ASSUME NEW s \in lifecycle.members
      PROVE  TalliedAt(lifecycle.services[s], {}, client, s)
  <2>1. lifecycle.services[s].waiters = {} /\ lifecycle.services[s].leases = 0
    BY DEF OrchestratorInit, initialService
  <2>2. Holders(client, {}, s) = {}
    BY <1>2 DEF Holders
  <2>3. IsFiniteSet(Holders(client, {}, s)) /\ Cardinality(Holders(client, {}, s)) = 0
    BY <2>2, FS_EmptySet
  <2> QED
    BY <2>1, <2>3 DEF TalliedAt, WaitersWait
<1> QED
  BY <1>2, <1>3 DEF LeasesAreTallied, Tallied

\* Every step keeps the tally.
LEMMA NextTally == OwnerInv /\ LeasesAreTallied /\ [Next]_vars => LeasesAreTallied'
<1> SUFFICES ASSUME OwnerInv, LeasesAreTallied, [Next]_vars
             PROVE  LeasesAreTallied'
  OBVIOUS
<1>1. ASSUME UNCHANGED lifecycleVars
      PROVE  LeasesAreTallied'
  BY <1>1 DEF lifecycleVars, LeasesAreTallied
<1>2. CASE \E c \in commands : Begin(c) /\ UNCHANGED lifecycleVars
  BY <1>1, <1>2
<1>3. CASE \E f \in fibers : Run(f) /\ UNCHANGED lifecycleVars
  BY <1>1, <1>3
<1>4. CASE \E f \in fibers : Deliver(f)
  BY <1>4, DeliverTally
<1>5. CASE \E s \in Services : RuntimeExits(s) /\ UNCHANGED lifecycleVars
  BY <1>1, <1>5
<1>6. CASE \/ \E s \in Services : IdleTimerFires(s)
           \/ \E x \in timers.cooldown : CooldownTimerFires(x[1], x[2])
  BY <1>6, TimerTally
<1>7. ASSUME NEW c \in Clients, ClientStep(c)
      PROVE  LeasesAreTallied'
  <2>1. CASE Enter(c)
    BY <2>1, TrafficEnterTally, ExplicitEnterTally
  <2>2. CASE Withdraw(c)
    BY <2>2, ExplicitWithdrawTally, TrafficWithdrawTally
  <2>3. CASE CallerStep(c)
    BY <2>1, <2>2, <2>3, ObserveTally, OwnTally, UnregisterTally, ReleaseTally DEF CallerStep
  <2> QED
    BY <1>7, <2>3, CallTally, OwnTally, CloseTally DEF ClientStep
<1>8. CASE UNCHANGED vars
  BY <1>1, <1>8 DEF vars
<1> QED
  BY <1>2, <1>3, <1>4, <1>5, <1>6, <1>7, <1>8 DEF Next

\* The tally counts the connections that hold a lease.
LEMMA TallyConserves == LeasesAreTallied => LeasesConserved
<1> SUFFICES ASSUME LeasesAreTallied, NEW s \in lifecycle.members
             PROVE  lifecycle.services[s].leases = Cardinality({c \in Clients : HoldsLease(c, s)})
  BY DEF LeasesConserved
<1>1. \A c \in Clients : Holding(client[c], s) <=> HoldsLease(c, s)
  BY DEF Holding, HoldsLease, Unresolved
<1>2. Holders(client, {}, s) = {c \in Clients : HoldsLease(c, s)}
  BY <1>1 DEF Holders
<1> QED
  BY <1>2 DEF LeasesAreTallied, Tallied, TalliedAt

\* In every reachable state a wait in the reducer is one its caller is still at, and a
\* service counts a lease for each connection that was admitted and has not closed, whether
\* or not its caller has looked since (Orchestrator.ts:691-701, Lifecycle.ts:1196-1207).
THEOREM LeasesAlwaysTallied == Spec => []LeasesAreTallied
<1>1. OrchestratorInit => LeasesAreTallied
  BY InitTally
<1>2. OwnerInv /\ LeasesAreTallied /\ [Next]_vars => LeasesAreTallied'
  BY NextTally
<1> QED
  BY <1>1, <1>2, OwnerInvariant, PTL DEF Spec

\* A service counts exactly the connections that hold a lease of it: an admission that
\* races the end of a budget is given back, and given back once (Orchestrator.ts:691-701,
\* Lifecycle.ts:692-697, 1196-1207).
THEOREM LeasesAlwaysConserved == Spec => []LeasesConserved
<1>1. LeasesAreTallied => LeasesConserved
  BY TallyConserves
<1> QED
  BY <1>1, LeasesAlwaysTallied, PTL
-----------------------------------------------------------------------------
(* Whoever holds a lease keeps awake what nobody may stop.                   *)

\* A fiber that goes on without a failure.
LEMMA MovesFaultless ==
  ASSUME Faultless(fibers), NEW f \in fibers, f \in Fiber, NEW at,
         at \notin {"failed", "retained", "stopFailed"}, Moves(f, at)
  PROVE  Faultless(fibers')
<1>1. f.kind # "exit"
  BY DEF Faultless
<1>2. PICK m : m = At(f, at)
  OBVIOUS
<1>3. m.kind = f.kind /\ m.at = at
  BY <1>2 DEF At, Fiber
<1>4. fibers' \subseteq fibers \union {m}
  BY <1>2 DEF Moves
<1> QED
  BY <1>1, <1>3, <1>4 DEF Faultless

\* One that is over.
LEMMA EndsFaultless ==
  ASSUME Faultless(fibers), NEW f \in fibers, Ends(f)
  PROVE  Faultless(fibers')
BY DEF Faultless, Ends

\* A new one.
LEMMA BornFaultless ==
  ASSUME Faultless(fibers), NEW kind, NEW s, NEW g, NEW at, kind # "exit",
         at \notin {"failed", "retained", "stopFailed"},
         fibers' \subseteq fibers \union {NewFiber(kind, s, g, at)}
  PROVE  Faultless(fibers')
<1>1. PICK m : m = NewFiber(kind, s, g, at)
  OBVIOUS
<1>2. m.kind = kind /\ m.at = at
  BY <1>1 DEF NewFiber
<1> QED
  BY <1>1, <1>2 DEF Faultless

\* A command begins: without a failure, none is reported.
LEMMA BeginFaultless ==
  ASSUME failures \in Nat, NEW c \in commands, Begin(c), failures' = 0
  PROVE  failures = 0 /\ (Faultless(fibers) => Faultless(fibers'))
<1>1. CASE BeginLaunch(c)
  <2>1. failures' # failures + 1
    OBVIOUS
  <2>2. /\ failures' = failures
        /\ fibers' = fibers \union {NewFiber("launch", c.id, c.generation, "prepare")}
    BY <1>1, <2>1 DEF BeginLaunch
  <2> QED
    BY <2>2, BornFaultless
<1>2. CASE BeginReprobe(c)
  BY <1>2, BornFaultless DEF BeginReprobe
<1>3. CASE BeginStop(c)
  BY <1>3, BornFaultless DEF BeginStop
<1> QED
  BY <1>1, <1>2, <1>3 DEF Begin

\* Nobody finds a session in its way that is not its own: an acquisition that is
\* not fenced and the session both are of the generation its phase names.
LEMMA AcquisitionFree ==
  ASSUME OwnerInv, NEW f \in fibers, f.kind = "launch", f.at = "acquire", ~Fenced(f)
  PROVE  ~Held(f.id)
<1>1. f \in Fiber /\ f.id \in Services
  BY OwnerParts DEF BoundaryInv, TypeOK, Fiber
<1>2. PICK s \in Services : s = f.id
  BY <1>1
<1>3. PICK g : g = f.generation
  OBVIOUS
<1>4. BoundaryInv(LastGeneration) /\ AccountedFor
  BY OwnerParts
<1>5. g \in 1..LastGeneration[s]
  BY <1>2, <1>3, <1>4 DEF BoundaryInv, KnownGenerations
<1>6. MayAcquire(s, g)
  BY <1>2, <1>3 DEF MayAcquire
<1>7. stoppedThrough[s] < g
  BY <1>1, <1>2, <1>3, <1>4 DEF Fenced, BoundaryInv, TypeOK, Fiber, Generation
<1>8. GenerationOf(s) = g
  BY <1>4, <1>5, <1>6, <1>7 DEF AccountedFor, MayHold
<1>9. ASSUME Held(s)
      PROVE  FALSE
  <2>1. PICK k : k = session[s].generation
    OBVIOUS
  <2>2. k \in 1..LastGeneration[s]
    <3>1. k \in Nat /\ k # 0
      BY <1>4, <1>9, <2>1 DEF Held, BoundaryInv, TypeOK, Session, Generation
    <3>2. k <= LastGeneration[s]
      BY <1>4, <2>1 DEF BoundaryInv, KnownGenerations
    <3>3. LastGeneration[s] \in Int
      BY OwnerParts, SoundFields DEF LastGeneration
    <3> QED
      BY <3>1, <3>2, <3>3
  <2>3. GenerationOf(s) = k
    BY <1>4, <1>9, <2>1, <2>2 DEF AccountedFor, MayHold, Held
  <2>4. ~MayAcquire(s, k)
    BY <1>4, <1>9, <2>1 DEF BoundaryInv, AcquiredOnce
  <2> QED
    BY <1>6, <1>8, <2>3, <2>4
<1> QED
  BY <1>2, <1>9

\* A fiber's own step: without a failure, none is reported.
LEMMA RunFaultless ==
  ASSUME OwnerInv, NEW f \in fibers, Run(f), failures' = 0
  PROVE  failures = 0 /\ (Faultless(fibers) => Faultless(fibers'))
<1>1. failures \in Nat /\ f \in Fiber /\ failures' # failures + 1
  <2>1. failures \in Nat /\ f \in Fiber
    BY OwnerParts DEF BoundaryInv, TypeOK
  <2> QED
    BY <2>1
<1>2. CASE Prepare(f)
  <2>1. failures' = failures /\ Moves(f, "acquire")
    BY <1>1, <1>2 DEF Prepare
  <2> QED
    BY <1>1, <2>1, MovesFaultless
<1>3. CASE Acquire(f)
  <2>1. failures' = failures /\ (Ends(f) \/ Moves(f, "available"))
    BY <1>1, <1>3, AcquisitionFree DEF Acquire
  <2> QED
    BY <1>1, <2>1, MovesFaultless, EndsFaultless
<1>4. CASE Check(f)
  <2>1. PICK at \in {"succeeded", "recovered", "unready"} : failures' = failures /\ Moves(f, at)
    BY <1>1, <1>4 DEF Check
  <2> QED
    BY <1>1, <2>1, MovesFaultless
<1>5. CASE Fence(f)
  BY <1>1, <1>5, MovesFaultless DEF Fence
<1>6. CASE InterruptAttempt(f)
  <2>1. fibers' \subseteq fibers \union {At(f, "clean")} /\ failures' = failures
    BY <1>6 DEF InterruptAttempt
  <2>2. PICK m : m = At(f, "clean")
    OBVIOUS
  <2>3. m.kind = f.kind /\ m.at = "clean"
    BY <1>1, <2>2 DEF At, Fiber
  <2> QED
    BY <1>1, <2>1, <2>2, <2>3 DEF Faultless
<1>7. ASSUME CleanUp(f)
      PROVE  failures = 0 /\ (Faultless(fibers) => Faultless(fibers'))
  <2>1. fibers' \subseteq fibers \union {At(f, "exited")} /\ failures' = failures
    BY <1>1, <1>7 DEF CleanUp
  <2>2. PICK m : m = At(f, "exited")
    OBVIOUS
  <2>3. m.kind = f.kind /\ m.at = "exited"
    BY <1>1, <2>2 DEF At, Fiber
  <2> QED
    BY <1>1, <2>1, <2>2, <2>3 DEF Faultless
<1>8. CASE StopSession(f)
  <2>1. CleanUp(f) \/ (Moves(f, "exited") /\ failures' = failures)
    BY <1>8 DEF StopSession
  <2> QED
    BY <1>1, <1>7, <2>1, MovesFaultless
<1>9. CASE CleanExited(f)
  <2>1. CleanUp(f) \/ (Ends(f) /\ failures' = failures)
    BY <1>9 DEF CleanExited
  <2> QED
    BY <1>1, <1>7, <2>1, EndsFaultless
<1> QED
  BY <1>2, <1>3, <1>4, <1>5, <1>6, <1>8, <1>9 DEF Run

\* Every step of the executions: without a failure, none is reported.
LEMMA OwnFaultless ==
  ASSUME OwnerInv, OwnStep, failures' = 0
  PROVE  failures = 0 /\ (Faultless(fibers) => Faultless(fibers'))
<1>1. failures \in Nat
  BY OwnerParts DEF BoundaryInv, TypeOK
<1>2. CASE \E c \in commands : Begin(c)
  BY <1>1, <1>2, BeginFaultless
<1>3. CASE \E f \in fibers : Run(f)
  BY <1>3, RunFaultless
<1>4. CASE \E s \in Services : RuntimeExits(s) \/ BeginWork(s) \/ EndWork(s)
  BY <1>1, <1>4 DEF RuntimeExits, BeginWork, EndWork
<1> QED
  BY <1>2, <1>3, <1>4 DEF OwnStep

\* An outcome delivered leaves nothing but a check or a cleanup.
LEMMA DeliveredFaultless ==
  ASSUME OwnerInv, NEW f \in fibers, Delivered(f), failures' = 0
  PROVE  failures = 0 /\ (Faultless(fibers) => Faultless(fibers'))
<1>1. f \in Fiber
  BY OwnerParts DEF BoundaryInv, TypeOK
<1>2. Moves(f, "check") \/ Moves(f, "clean") \/ Ends(f)
  BY DEF Delivered
<1>3. failures' = failures
  BY DEF Delivered
<1> QED
  BY <1>1, <1>2, <1>3, MovesFaultless, EndsFaultless
-----------------------------------------------------------------------------
\* Clients make the calls they may.
LEMMA ArriveCalls ==
  ASSUME NEW caller \in Caller, NEW c, NEW at \in Stages, CallsItsOwn(caller, c)
  PROVE  CallsItsOwn(Arrive(caller, at), c)
<1>1. CASE at = "done"
  BY <1>1, DoneCaller DEF CallsItsOwn
<1>2. CASE at # "done"
  BY <1>2, ArriveFields DEF CallsItsOwn
<1> QED
  BY <1>1, <1>2

\* A watcher does not change its call, but by ending it.
LEMMA SeenCalls ==
  ASSUME NEW caller \in Caller, NEW c, NEW st, CallsItsOwn(caller, c)
  PROVE  CallsItsOwn(Seen(caller, st), c)
<1>1. "done" \in Stages
  BY DEF Stages
<1>2. \/ Seen(caller, st) = Arrive(caller, "done")
      \/ Seen(caller, st).call = caller.call
  BY DEF Seen, Caller
<1> QED
  BY <1>1, <1>2, ArriveCalls DEF CallsItsOwn

\* Nor does who gets an answer.
LEMMA ResolvedCalls ==
  ASSUME NEW caller \in Caller, NEW c, NEW step, CallsItsOwn(caller, c)
  PROVE  CallsItsOwn(Resolved(caller, c, step), c)
<1>1. CASE Observes(caller)
  BY <1>1, SeenCalls DEF Resolved
<1>2. CASE ~Observes(caller)
  <2>1. Resolved(caller, c, step).call = caller.call
    BY <1>2 DEF Resolved, Caller
  <2> QED
    BY <2>1 DEF CallsItsOwn
<1> QED
  BY <1>1, <1>2

\* What the gate publishes.
LEMMA PublishCalls ==
  ASSUME NEW step, NEW pending, NEW running, NEW callers \in [Clients -> Caller],
         \A c \in Clients : CallsItsOwn(callers[c], c), Publish(step, pending, running, callers)
  PROVE  \A c \in Clients : CallsItsOwn(client'[c], c)
<1>1. ASSUME NEW c \in Clients
      PROVE  CallsItsOwn(client'[c], c)
  <2>1. client'[c] = Resolved(callers[c], c, step)
    BY DEF Publish
  <2> QED
    BY <2>1, ResolvedCalls
<1> QED
  BY <1>1

\* One caller that moves on.
LEMMA GoesCalls ==
  ASSUME OwnerInv, \A c \in Clients : CallsItsOwn(client[c], c), NEW c \in Clients, NEW at \in Stages
  PROVE  Goes(c, at) \in [Clients -> Caller] /\ \A d \in Clients : CallsItsOwn(Goes(c, at)[d], d)
<1>1. client \in [Clients -> Caller] /\ client[c] \in Caller
  BY OwnerParts
<1>2. PICK callers : callers = Goes(c, at)
  OBVIOUS
<1>3. /\ callers \in [Clients -> Caller] /\ callers[c] = Arrive(client[c], at)
      /\ \A d \in Clients \ {c} : callers[d] = client[d]
  BY <1>1, <1>2, GoesFields
<1>4. CallsItsOwn(callers[c], c)
  BY <1>1, <1>3, ArriveCalls
<1> QED
  BY <1>2, <1>3, <1>4

\* A call that enters keeps its operation, unless it is over.
LEMMA EnterCalls ==
  ASSUME OwnerInv, \A d \in Clients : CallsItsOwn(client[d], d), NEW c \in Clients, Enter(c)
  PROVE  \A d \in Clients : CallsItsOwn(client'[d], d)
<1>1. client \in [Clients -> Caller] /\ lifecycle \in SoundState
  BY OwnerParts
<1>2. PICK call \in Operation : call = client[c].call /\ call.id \in Services
  BY CallOf DEF Enter
<1>3. PICK step : step = Reduced(c, call)
  OBVIOUS
<1>4. PICK stage : stage = NextStage(call, step)
  OBVIOUS
<1>5. stage \in {"await", "release", "reserving", "work", "stopping", "done"}
  BY <1>4, NextStages
<1>6. ASSUME NEW callers \in [Clients -> Caller], \A d \in Clients : CallsItsOwn(callers[d], d),
             Dispatch(step, timers, callers)
      PROVE  \A d \in Clients : CallsItsOwn(client'[d], d)
  <2>1. Publish(step, commands, timers, callers)
    BY <1>6 DEF Dispatch
  <2> QED
    BY <1>6, <2>1, PublishCalls
<1>7. CASE stage = "done"
  <2>1. PICK callers : callers = Goes(c, "done")
    OBVIOUS
  <2>2. "done" \in Stages
    BY DEF Stages
  <2>3. callers \in [Clients -> Caller] /\ \A d \in Clients : CallsItsOwn(callers[d], d)
    BY <2>1, <2>2, GoesCalls
  <2>4. Dispatch(step, timers, callers)
    BY <1>2, <1>3, <1>4, <1>7, <2>1 DEF Enter
  <2> QED
    BY <1>6, <2>3, <2>4
<1>8. CASE stage # "done"
  <2>1. PICK A \in SUBSET Services : A = WaitIds(call)
    <3>1. WaitIds(call) \subseteq Services
      BY <1>2 DEF WaitIds, prerequisiteClosure
    <3> QED
      BY <3>1
  <2>2. PICK b \in BOOLEAN : b = (Rejected(call.id) \in step.out)
    <3>1. (Rejected(call.id) \in step.out) \in BOOLEAN
      OBVIOUS
    <3> QED
      BY <3>1, Zenon
  <2>3. PICK g \in Nat : g = IF stage = "stopping" THEN step.st.services[call.id].phase.generation ELSE 0
    <3>1. step.st \in SoundState
      BY <1>1, <1>2, <1>3, ReducedReduces DEF Reductions
    <3> QED
      BY <1>2, <3>1, SoundFields
  <2>4. PICK r : r = [client[c] EXCEPT !.at = stage, !.awaiting = A, !.failed = b, !.generation = g]
    OBVIOUS
  <2>5. r \in Caller /\ r.call = client[c].call
    BY <1>1, <1>5, <2>4 DEF Caller, Stages
  <2>6. PICK callers : callers = [client EXCEPT ![c] = r]
    OBVIOUS
  <2>7. /\ callers \in [Clients -> Caller] /\ callers[c] = r
        /\ \A d \in Clients \ {c} : callers[d] = client[d]
    BY <1>1, <2>5, <2>6
  <2>8. Dispatch(step, timers, callers)
    BY <1>2, <1>3, <1>4, <1>8, <2>1, <2>2, <2>3, <2>4, <2>6 DEF Enter
  <2>9. \A d \in Clients : CallsItsOwn(callers[d], d)
    BY <2>5, <2>7 DEF CallsItsOwn
  <2> QED
    BY <1>6, <2>7, <2>8, <2>9
<1> QED
  BY <1>7, <1>8

\* Every step: a call is one of those its client may make.
LEMMA NextCalls ==
  ASSUME OwnerInv, \A c \in Clients : CallsItsOwn(client[c], c), [Next]_vars
  PROVE  \A c \in Clients : CallsItsOwn(client'[c], c)
<1>1. client \in [Clients -> Caller]
  BY OwnerParts
<1>2. ASSUME UNCHANGED client
      PROVE  \A c \in Clients : CallsItsOwn(client'[c], c)
  BY <1>2
<1>3. CASE \/ \E c \in commands : Begin(c) /\ UNCHANGED lifecycleVars
           \/ \E f \in fibers : Run(f) /\ UNCHANGED lifecycleVars
           \/ \E s \in Services : RuntimeExits(s) /\ UNCHANGED lifecycleVars
           \/ UNCHANGED vars
  BY <1>2, <1>3 DEF lifecycleVars, vars
<1>4. CASE \/ \E f \in fibers : Deliver(f)
           \/ \E s \in Services : IdleTimerFires(s)
           \/ \E x \in timers.cooldown : CooldownTimerFires(x[1], x[2])
  <2>1. \E step, pending, running : Publish(step, pending, running, client)
    BY <1>4 DEF Deliver, IdleTimerFires, CooldownTimerFires, Dispatch
  <2> QED
    BY <1>1, <2>1, PublishCalls
<1>5. ASSUME NEW c \in Clients, ClientStep(c)
      PROVE  \A d \in Clients : CallsItsOwn(client'[d], d)
  <2>1. ASSUME NEW at \in Stages, client' = Goes(c, at)
        PROVE  \A d \in Clients : CallsItsOwn(client'[d], d)
    BY <2>1, GoesCalls
  <2>2. ASSUME NEW r, CallsItsOwn(r, c), client' = [client EXCEPT ![c] = r]
        PROVE  \A d \in Clients : CallsItsOwn(client'[d], d)
    BY <1>1, <2>2
  <2>3. ASSUME NEW at \in Stages, NEW step, Dispatch(step, timers, Goes(c, at))
        PROVE  \A d \in Clients : CallsItsOwn(client'[d], d)
    <3>1. PICK callers : callers = Goes(c, at)
      OBVIOUS
    <3>2. callers \in [Clients -> Caller] /\ \A d \in Clients : CallsItsOwn(callers[d], d)
      BY <3>1, GoesCalls
    <3>3. Publish(step, commands, timers, callers)
      BY <2>3, <3>1 DEF Dispatch
    <3> QED
      BY <3>2, <3>3, PublishCalls
  <2>4. CASE Call(c)
    <3>1. PICK call \in Operations[c] :
            \/ client' = Goes(c, "done")
            \/ client' = [client EXCEPT ![c] = [NewCaller EXCEPT !.call = call, !.at = "gate"]]
      BY <2>4 DEF Call, Moved
    <3>2. PICK r : r = [NewCaller EXCEPT !.call = call, !.at = "gate"]
      OBVIOUS
    <3>3. CallsItsOwn(r, c)
      BY <3>2 DEF CallsItsOwn, NewCaller
    <3> QED
      BY <2>1, <2>2, <3>1, <3>2, <3>3 DEF Stages
  <2>5. CASE Observe(c)
    <3>1. PICK r : r = Seen(client[c], lifecycle)
      OBVIOUS
    <3>2. CallsItsOwn(r, c)
      BY <1>1, <3>1, SeenCalls
    <3> QED
      BY <2>2, <2>5, <3>1, <3>2 DEF Observe, Moved
  <2>6. CASE Admitted(c) \/ Expires(c) \/ Fails(c)
    <3>1. PICK at : at \in Stages /\ client' = Goes(c, at)
      BY <2>6 DEF Admitted, Expires, Fails, Moved, Stages
    <3> QED
      BY <2>1, <3>1
  <2>7. CASE Cancel(c)
    <3>1. PICK at : at \in Stages /\ client' = Goes(c, at)
      BY <2>7 DEF Cancel, Moved, Stages
    <3> QED
      BY <2>1, <3>1
  <2>8. CASE DataWork(c) \/ DataWorkEnds(c)
    <3>1. PICK at : at \in Stages /\ client' = Goes(c, at)
      BY <2>8 DEF DataWork, DataWorkEnds, Stages
    <3> QED
      BY <2>1, <3>1
  <2>9. CASE Withdraw(c) \/ Close(c) \/ Unregister(c) \/ Release(c)
    <3>1. PICK at, step : at \in Stages /\ Dispatch(step, timers, Goes(c, at))
      BY <2>9 DEF Withdraw, Close, Unregister, Release, Stages
    <3> QED
      BY <2>3, <3>1
  <2>10. CASE Enter(c)
    BY <2>10, EnterCalls
  <2> QED
    BY <1>5, <2>4, <2>5, <2>6, <2>7, <2>8, <2>9, <2>10 DEF ClientStep, CallerStep
<1> QED
  BY <1>3, <1>4, <1>5 DEF Next
-----------------------------------------------------------------------------
\* What an event leaves once it is settled.
LEMMA SettledAwake ==
  ASSUME NEW event, event.st \in SoundState, LeasedRun(event.st, Spared)
  PROVE  LeasedRun(settle(event).st, Spared)
<1>1. Spared \in SUBSET Services
  BY DEF Spared
<1> QED
  BY <1>1, SettleRuns

\* An event that admits nobody, and leaves what runs and is leased.
LEMMA DrainedAwake ==
  ASSUME NEW st \in SoundState, NEW event, event.st \in SoundState, DrainStep(st, event),
         KeepsRunning(st, event.st, Spared), LeasedRun(st, Spared)
  PROVE  LeasedRun(event.st, Spared) /\ LeasedRun(settle(event).st, Spared)
<1>1. PICK new : new = event.st
  OBVIOUS
<1>2. PICK out : out = event.out
  OBVIOUS
<1>3. Spared \in SUBSET Services
  BY DEF Spared
<1>4. LeasedRun(new, Spared)
  BY <1>1, <1>2, <1>3, DrainsRun DEF DrainStep
<1> QED
  BY <1>1, <1>4, SettledAwake

\* What concerns the services concerns those that nobody may stop.
LEMMA KeepsThem ==
  ASSUME NEW st, NEW new, NEW Ss, KeepsRunning(st, new, Ss), Spared \subseteq Ss
  PROVE  KeepsRunning(st, new, Spared)
BY DEF KeepsRunning

\* So it is where no phase changes.
LEMMA PhasesKeep ==
  ASSUME NEW st, NEW new, NEW Ss, SamePhases(st, new, Ss), Spared \subseteq Ss
  PROVE  KeepsRunning(st, new, Spared)
BY SamePhasesRun, KeepsThem

\* An outcome that is no failure.
LEMMA EventRuns ==
  ASSUME lifecycle \in SoundState, NEW f \in Fiber, Reports(f), NEW quiet, f.kind # "exit",
         f.at \notin {"failed", "retained", "stopFailed"},
         f.kind = "stop" => ~UpAt(lifecycle.services[f.id], f.generation)
  PROVE  KeepsRunning(lifecycle, EventOf(f, quiet, lifecycle).st, Spared)
<1>1. f.id \in Services
  BY DEF Fiber
<1>2. f.at \in {"available", "succeeded", "recovered", "unready"} \/ (f.at = "exited" /\ f.kind = "stop")
  BY DEF Fiber, Kinds, Reports, Reporting
<1>3. PICK step : step = EventOf(f, quiet, lifecycle)
  OBVIOUS
<1>4. Spared \subseteq Services
  BY DEF Spared
<1>5. CASE f.at = "available"
  <2>1. step = SessionAvailable(lifecycle, f.id, f.generation)
    BY <1>3, <1>5 DEF EventOf, OutcomeOf
  <2> QED
    BY <1>1, <1>3, <1>4, <2>1, CheckedRuns, KeepsThem
<1>6. CASE f.at = "succeeded"
  <2>1. step = LaunchSucceeded(lifecycle, f.id, f.generation)
    BY <1>3, <1>6 DEF EventOf, OutcomeOf
  <2> QED
    BY <1>1, <1>3, <1>4, <2>1, CheckedRuns, KeepsThem
<1>7. CASE f.at = "recovered"
  <2>1. step = ReadinessRecovered(lifecycle, f.id, f.generation)
    BY <1>3, <1>7 DEF EventOf, OutcomeOf
  <2> QED
    BY <1>1, <1>3, <1>4, <2>1, CheckedRuns, KeepsThem
<1>8. CASE f.at = "unready"
  <2>1. step = ReadinessLost(lifecycle, f.id, f.generation)
    BY <1>3, <1>8 DEF EventOf, OutcomeOf
  <2> QED
    BY <1>1, <1>3, <1>4, <2>1, ReadinessLostRuns, KeepsThem
<1>9. CASE f.at = "exited" /\ f.kind = "stop"
  <2>1. PICK requested : requested = (f.kind = "stop")
    OBVIOUS
  <2>2. step = Exited(lifecycle, f.id, f.generation, requested)
    BY <1>3, <1>9, <2>1 DEF EventOf, OutcomeOf
  <2> QED
    BY <1>1, <1>3, <1>4, <1>9, <2>2, ExitedRuns, KeepsThem
<1> QED
  BY <1>2, <1>5, <1>6, <1>7, <1>8, <1>9

\* An outcome is delivered.
LEMMA DeliverAwake ==
  ASSUME OwnerInv, ExecutionsFollow, NEW f \in fibers, Deliver(f), Faultless(fibers),
         LeasedRun(lifecycle, Spared)
  PROVE  LeasedRun(lifecycle', Spared)
<1>1. lifecycle \in SoundState /\ f \in Fiber
  BY OwnerParts DEF BoundaryInv, TypeOK
<1>2. Reports(f)
  BY DEF Deliver, Delivered
<1>3. PICK quiet \in MayBeQuiet(f) :
        Publish(settle(EventOf(f, quiet, lifecycle)), commands, timers, client)
  BY DEF Deliver
<1>4. PICK event : event = EventOf(f, quiet, lifecycle)
  OBVIOUS
<1>5. event.st \in SoundState
  BY <1>1, <1>2, <1>4, EventQuiet DEF QuietStep, Quiet, Leads
<1>6. DrainStep(lifecycle, event)
  BY <1>1, <1>2, <1>4, EventDrains
<1>7. f.kind = "stop" => ~UpAt(lifecycle.services[f.id], f.generation)
  BY DEF ExecutionsFollow, Coherent, StopsAreDue
<1>8. KeepsRunning(lifecycle, event.st, Spared)
  BY <1>1, <1>2, <1>4, <1>7, EventRuns DEF Faultless
<1>9. lifecycle' = settle(event).st
  BY <1>3, <1>4 DEF Publish
<1> QED
  BY <1>1, <1>5, <1>6, <1>8, <1>9, DrainedAwake

\* A timer fires.
LEMMA TimerAwake ==
  ASSUME OwnerInv, LeasedRun(lifecycle, Spared),
         \/ \E s \in Services : IdleTimerFires(s)
         \/ \E x \in timers.cooldown : CooldownTimerFires(x[1], x[2])
  PROVE  LeasedRun(lifecycle', Spared)
<1>1. lifecycle \in SoundState /\ timers \in TimersType /\ Spared \subseteq Services
  BY OwnerParts DEF Spared
<1>2. ASSUME NEW s \in Services, IdleTimerFires(s)
      PROVE  LeasedRun(lifecycle', Spared)
  <2>1. PICK g : g = timers.idle[s].generation
    OBVIOUS
  <2>2. PICK epoch : epoch = timers.idle[s].epoch
    OBVIOUS
  <2>3. PICK event : event = IdleElapsed(lifecycle, s, g, epoch)
    OBVIOUS
  <2>4. lifecycle' = settle(event).st
    BY <1>2, <2>1, <2>2, <2>3 DEF IdleTimerFires, Dispatch, Publish
  <2>5. QuietStep(lifecycle, event, {}) /\ DrainStep(lifecycle, event)
    BY <1>1, <2>3, IdleElapsedQuiet, TimersDrain
  <2>6. KeepsRunning(lifecycle, event.st, Spared)
    BY <1>1, <2>3, IdleElapsedRuns, KeepsThem
  <2> QED
    BY <1>1, <2>4, <2>5, <2>6, DrainedAwake DEF QuietStep, Quiet, Leads
<1>3. ASSUME NEW x \in timers.cooldown, CooldownTimerFires(x[1], x[2])
      PROVE  LeasedRun(lifecycle', Spared)
  <2>1. PICK s : s = x[1]
    OBVIOUS
  <2>2. PICK g : g = x[2]
    OBVIOUS
  <2>3. PICK event : event = CooldownElapsed(lifecycle, s, g)
    OBVIOUS
  <2>4. lifecycle' = settle(event).st
    BY <1>3, <2>1, <2>2, <2>3 DEF CooldownTimerFires, Dispatch, Publish
  <2>5. s \in Services
    BY <1>1, <2>1 DEF TimersType
  <2>6. QuietStep(lifecycle, event, {}) /\ DrainStep(lifecycle, event)
    BY <1>1, <2>3, <2>5, CooldownElapsedQuiet, TimersDrain
  <2>7. KeepsRunning(lifecycle, event.st, Spared)
    BY <1>1, <2>3, CooldownElapsedPhases, PhasesKeep
  <2> QED
    BY <1>1, <2>4, <2>6, <2>7, DrainedAwake DEF QuietStep, Quiet, Leads
<1> QED
  BY <1>2, <1>3

\* A lease is given back.
LEMMA CloseAwake ==
  ASSUME OwnerInv, LeasedRun(lifecycle, Spared), NEW c \in Clients, Close(c)
  PROVE  LeasedRun(lifecycle', Spared)
<1>1. lifecycle \in SoundState /\ Spared \in SUBSET Services
  BY OwnerParts DEF Spared
<1>2. PICK s \in Services : s = client[c].call.id
  BY CallOf DEF Close
<1>3. PICK event : event = ConnectionClosed(lifecycle, s)
  OBVIOUS
<1>4. event.st \in SoundState
  BY <1>1, <1>3, ConnectionClosedQuiet DEF QuietStep, Quiet, Leads
<1>5. LeasedRun(event.st, Spared)
  BY <1>1, <1>3, ClosedRuns
<1>6. lifecycle' = settle(event).st
  BY <1>2, <1>3 DEF Close, Dispatch, Publish
<1> QED
  BY <1>4, <1>5, <1>6, SettledAwake

\* A reservation ends.
LEMMA ReleaseAwake ==
  ASSUME OwnerInv, LeasedRun(lifecycle, Spared), NEW c \in Clients, Release(c)
  PROVE  LeasedRun(lifecycle', Spared)
<1>1. lifecycle \in SoundState /\ Spared \subseteq Services
  BY OwnerParts DEF Spared
<1>2. PICK s \in Services : s = client[c].call.id
  BY CallOf DEF Release
<1>3. PICK event : event = IF client[c].call.op = "destroy" THEN DestroyReleased(lifecycle, s)
                                                            ELSE StorageReleased(lifecycle, s)
  OBVIOUS
<1>4. DrainStep(lifecycle, event) /\ event.st \in SoundState
      /\ SamePhases(lifecycle, event.st, Services)
  <2>1. CASE event = DestroyReleased(lifecycle, s)
    BY <1>1, <2>1, ReleasesDrain, DestroyReleasedStep, StoragePhases DEF StorageStep, Leads
  <2>2. CASE event = StorageReleased(lifecycle, s)
    BY <1>1, <2>2, ReleasesDrain, StorageReleasedStep, StoragePhases DEF StorageStep, Leads
  <2> QED
    BY <1>3, <2>1, <2>2
<1>5. KeepsRunning(lifecycle, event.st, Spared)
  BY <1>1, <1>4, PhasesKeep
<1>6. lifecycle' = settle(event).st
  BY <1>2, <1>3 DEF Release, Dispatch, Publish
<1> QED
  BY <1>1, <1>4, <1>5, <1>6, DrainedAwake

\* What a client asked to stop is none of those that nobody may stop.
LEMMA StoppedNotSpared ==
  ASSUME NEW caller, NEW c \in Clients, CallsItsOwn(caller, c),
         caller.call.op \in {"stop", "restart", "destroy"}
  PROVE  caller.call.id \notin Spared
<1>1. caller.call \in Operations[c]
  BY DEF CallsItsOwn, NoOperation
<1> QED
  BY <1>1 DEF Spared, NeverStopped

\* A service leaves the graph: it is none of those.
LEMMA UnregisterAwake ==
  ASSUME OwnerInv, LeasedRun(lifecycle, Spared), NEW c \in Clients, Unregister(c),
         CallsItsOwn(client[c], c)
  PROVE  LeasedRun(lifecycle', Spared)
<1>1. lifecycle \in SoundState
  BY OwnerParts
<1>2. PICK s \in Services : s = client[c].call.id
  BY CallOf DEF Unregister
<1>3. Spared \subseteq Services \ {s} /\ Spared \subseteq Services
  <2>1. client[c].call.op = "destroy"
    BY CallOf DEF Unregister, Orderly
  <2>2. s \notin Spared
    BY <1>2, <2>1, StoppedNotSpared
  <2> QED
    BY <2>2 DEF Spared
<1>4. PICK event : event = GraphUpdated(lifecycle, s)
  OBVIOUS
<1>5. DrainStep(lifecycle, event) /\ event.st \in SoundState
  BY <1>1, <1>4, GraphUpdatedDrains, GraphUpdatedStep DEF StorageStep, Leads
<1>6. KeepsRunning(lifecycle, event.st, Spared)
  BY <1>1, <1>3, <1>4, GraphUpdatedRuns, KeepsThem
<1>7. PICK removed : removed = settle(event)
  OBVIOUS
<1>8. PICK st : st = removed.st
  OBVIOUS
<1>9. LeasedRun(st, Spared)
  BY <1>1, <1>5, <1>6, <1>7, <1>8, DrainedAwake
<1>10. st \in SoundState
  BY <1>5, <1>7, <1>8, SettleAdvances DEF Advances
<1>11. PICK release : release = DestroyReleased(st, s)
  OBVIOUS
<1>12. DrainStep(st, release) /\ release.st \in SoundState /\ SamePhases(st, release.st, Services)
  BY <1>10, <1>11, ReleasesDrain, DestroyReleasedStep, StoragePhases DEF StorageStep, Leads
<1>13. LeasedRun(release.st, Spared)
  BY <1>3, <1>9, <1>10, <1>12, PhasesKeep, DrainedAwake
<1>14. PICK whole : whole = Also(release, removed.out)
  OBVIOUS
<1>15. whole.st = release.st
  BY <1>14 DEF Also, Step
<1>16. LeasedRun(settle(whole).st, Spared)
  BY <1>12, <1>13, <1>15, SettledAwake
<1>17. lifecycle' = settle(whole).st
  BY <1>2, <1>4, <1>7, <1>8, <1>11, <1>14 DEF Unregister, Dispatch, Publish
<1> QED
  BY <1>16, <1>17
-----------------------------------------------------------------------------
\* A request: what it stops is none of those that nobody may stop.
LEMMA RequestRuns ==
  ASSUME NEW st \in SoundState, NEW call \in Operation,
         call.op \in {"stop", "restart", "destroy"} => call.id \notin Spared
  PROVE  KeepsRunning(st, Requested(st, call).st, Spared)
<1>1. call.op \in {"connect", "inspect", "start", "ready", "compose", "restart", "arm", "stop",
                   "storage", "destroy"}
  BY DEF Operation
<1>2. PICK s \in Services : s = call.id
  BY DEF Operation
<1>3. Spared \subseteq Services
  BY DEF Spared
<1>4. PICK step : step = Requested(st, call)
  OBVIOUS
<1>5. CASE call.op \in {"start", "compose"}
  <2>1. step = StartRequested(st, s)
    BY <1>2, <1>4, <1>5 DEF Requested
  <2> QED
    BY <1>3, <1>4, <2>1, StartRequestedPhases, PhasesKeep
<1>6. CASE call.op = "arm"
  <2>1. step = ArmRequested(st, s)
    BY <1>2, <1>4, <1>6 DEF Requested
  <2> QED
    BY <1>3, <1>4, <2>1, ArmRequestedPhases, PhasesKeep
<1>7. CASE call.op = "storage"
  <2>1. step = StorageReserved(st, s)
    BY <1>2, <1>4, <1>7 DEF Requested
  <2> QED
    BY <1>3, <1>4, <2>1, StoragePhases, PhasesKeep
<1>8. CASE call.op \in {"connect", "inspect", "ready"}
  <2>1. step = Ignored(st)
    BY <1>4, <1>8 DEF Requested
  <2> QED
    BY <1>3, <1>4, <2>1, StillPhases, PhasesKeep
<1>9. CASE call.op \in {"stop", "restart", "destroy"}
  <2>1. Spared \subseteq Services \ {s}
    BY <1>2, <1>3, <1>9
  <2>2. CASE call.op = "stop"
    <3>1. step = StopRequested(st, s)
      BY <1>2, <1>4, <2>2 DEF Requested
    <3> QED
      BY <1>4, <2>1, <3>1, StopRequestedPhases, PhasesKeep
  <2>3. CASE call.op = "restart"
    <3>1. step = RestartRequested(st, s)
      BY <1>2, <1>4, <2>3 DEF Requested
    <3> QED
      BY <1>4, <2>1, <3>1, RestartRequestedPhases, PhasesKeep
  <2>4. CASE call.op = "destroy"
    <3>1. step = DestroyRequested(st, s)
      BY <1>2, <1>4, <2>4 DEF Requested
    <3> QED
      BY <1>4, <2>1, <3>1, DestroyRequestedPhases, PhasesKeep
  <2> QED
    BY <1>9, <2>2, <2>3, <2>4
<1> QED
  BY <1>1, <1>5, <1>6, <1>7, <1>8, <1>9

\* Where reduced events leave those that nobody may stop awake.
AwakeSteps ==
  {x \in [st : SoundState, out : SUBSET LifecycleCommands] : LeasedRun(x.st, Spared)}

\* The request of a call.
LEMMA FirstAwake ==
  ASSUME lifecycle \in SoundState, NEW call \in Operation, LeasedRun(lifecycle, Spared),
         call.op \in {"stop", "restart", "destroy"} => call.id \notin Spared
  PROVE  FirstReduced(call) \in AwakeSteps
<1>1. FirstReduced(call) \in [st : SoundState, out : SUBSET LifecycleCommands]
  BY FirstReduces DEF Reductions
<1>2. CASE Traffic(call) \/ call.op = "ready"
  <2>1. FirstReduced(call) = Ignored(lifecycle)
    BY <1>2 DEF FirstReduced
  <2>2. Ignored(lifecycle).st = lifecycle
    BY StepFields DEF Ignored
  <2> QED
    BY <1>1, <2>1, <2>2 DEF AwakeSteps
<1>3. CASE ~(Traffic(call) \/ call.op = "ready")
  <2>1. PICK step : step = Requested(lifecycle, call)
    OBVIOUS
  <2>2. FirstReduced(call) = settle(step)
    BY <1>3, <2>1 DEF FirstReduced
  <2>3. step.st \in SoundState
    BY <2>1, RequestedReduces DEF StorageStep, Leads
  <2>4. DrainStep(lifecycle, step)
    BY <2>1, RequestDrains
  <2>5. KeepsRunning(lifecycle, step.st, Spared)
    BY <2>1, RequestRuns
  <2>6. LeasedRun(settle(step).st, Spared)
    BY <2>3, <2>4, <2>5, DrainedAwake
  <2> QED
    BY <1>1, <2>2, <2>6 DEF AwakeSteps
<1> QED
  BY <1>2, <1>3

\* One wait after another is opened.
LEMMA ReducedAwake ==
  ASSUME lifecycle \in SoundState, NEW c \in Clients, NEW call \in Operation,
         LeasedRun(lifecycle, Spared),
         call.op \in {"stop", "restart", "destroy"} => call.id \notin Spared
  PROVE  Reduced(c, call) \in AwakeSteps
<1>1. PICK g : AwaitsAlong(g, c, call) /\ Reduced(c, call) = g[Len(Order)]
  BY ReducedWalk
<1>2. PICK n \in Nat : n = Len(Order)
  BY OrderAssumption
<1>3. PICK X : X = AwakeSteps
  OBVIOUS
<1>4. g[0] \in X
  BY <1>1, <1>3, FirstAwake DEF AwaitsAlong
<1>5. ASSUME NEW i \in 1..n, g[i - 1] \in X
      PROVE  g[i] \in X
  <2>1. g[i] \in [st : SoundState, out : SUBSET LifecycleCommands]
    <3>1. i \in 0..n
      OBVIOUS
    <3> QED
      BY <1>1, <1>2, <3>1 DEF AwaitsAlong, Reductions
  <2>2. CASE Order[i] \notin WaitIds(call)
    BY <1>1, <1>2, <1>5, <2>2 DEF AwaitsAlong
  <2>3. CASE Order[i] \in WaitIds(call)
    <3>1. PICK s \in Services : s = Order[i]
      BY <1>2, OrderAssumption
    <3>2. PICK st \in SoundState : st = g[i - 1].st
      BY <1>3, <1>5 DEF AwakeSteps
    <3>3. PICK out : out = g[i - 1].out
      OBVIOUS
    <3>4. PICK step : step = Awaited(st, c, call, s)
      OBVIOUS
    <3>5. step = Step(step.st, step.out) /\ step.st \in SoundState
      BY <3>2, <3>4, AwaitedQuiet DEF QuietStep, Quiet, Leads
    <3>6. PICK b \in BOOLEAN : b = RequiresReady(call, s)
      BY DEF RequiresReady
    <3>7. LeasedRun(step.st, Spared)
      <4>1. Spared \in SUBSET Services /\ LeasedRun(st, Spared)
        BY <1>3, <1>5, <3>2 DEF Spared, AwakeSteps
      <4>2. PICK kind \in {"traffic", "explicit"} : step = openWaiter(st, s, c, b, kind)
        BY <3>4, <3>6 DEF Awaited, ReadinessAwaited, ConnectionOpened
      <4> QED
        BY <4>1, <4>2, OpenWaiterRuns
    <3>8. PICK whole : whole = Also(step, out)
      OBVIOUS
    <3>9. whole.st = step.st
      <4>1. Also(Step(step.st, step.out), out) = Step(step.st, step.out \union out)
        BY AlsoFields
      <4> QED
        BY <3>5, <3>8, <4>1, StepFields
    <3>10. LeasedRun(settle(whole).st, Spared)
      BY <3>5, <3>7, <3>9, SettledAwake
    <3>11. g[i] = settle(whole)
      BY <1>1, <1>2, <2>3, <3>1, <3>2, <3>3, <3>4, <3>8 DEF AwaitsAlong
    <3> QED
      BY <1>3, <2>1, <3>10, <3>11 DEF AwakeSteps
  <2> QED
    BY <2>2, <2>3
<1>6. \A i \in 0..n : g[i] \in X
  BY <1>4, <1>5, Along
<1> QED
  BY <1>1, <1>2, <1>3, <1>6

\* One wait after another is withdrawn.
LEMMA WithdrawnAwake ==
  ASSUME lifecycle \in SoundState, NEW c, NEW call, LeasedRun(lifecycle, Spared)
  PROVE  Withdrawn(c, call) \in AwakeSteps
<1>1. PICK g : CancelsAlong(g, c, call) /\ Withdrawn(c, call) = g[Len(Order)]
  BY WithdrawnWalk
<1>2. PICK n \in Nat : n = Len(Order)
  BY OrderAssumption
<1>3. PICK X : X = AwakeSteps
  OBVIOUS
<1>4. \A i \in 0..n : g[i] \in [st : SoundState, out : SUBSET LifecycleCommands]
  BY <1>1, <1>2 DEF CancelsAlong, Reductions
<1>5. g[0] \in X
  <2>1. g[0].st = lifecycle
    BY <1>1, StepFields DEF CancelsAlong, Ignored
  <2> QED
    BY <1>3, <1>4, <2>1 DEF AwakeSteps
<1>6. ASSUME NEW i \in 1..n, g[i - 1] \in X
      PROVE  g[i] \in X
  <2>1. CASE Order[i] \notin WaitIds(call)
    BY <1>1, <1>2, <1>6, <2>1 DEF CancelsAlong
  <2>2. CASE Order[i] \in WaitIds(call)
    <3>1. PICK s \in Services : s = Order[i]
      BY <1>2, OrderAssumption
    <3>2. PICK st \in SoundState : st = g[i - 1].st
      BY <1>3, <1>6 DEF AwakeSteps
    <3>3. PICK out : out = g[i - 1].out
      OBVIOUS
    <3>4. PICK step : step = WaiterCancelled(st, s, c)
      OBVIOUS
    <3>5. step = Step(step.st, step.out)
      BY <3>4, StepFields DEF WaiterCancelled
    <3>6. step.st \in SoundState
      BY <3>4, WaiterCancelledQuiet DEF QuietStep, Quiet, Leads
    <3>7. LeasedRun(step.st, Spared)
      <4>1. Spared \subseteq Services /\ LeasedRun(st, Spared)
        BY <1>3, <1>6, <3>2 DEF Spared, AwakeSteps
      <4>2. KeepsRunning(st, step.st, Spared)
        BY <3>4, <4>1, WaiterCancelledPhases, PhasesKeep
      <4>3. DrainStep(st, step)
        BY <3>4, WaiterCancelledDrains
      <4> QED
        BY <3>6, <4>1, <4>2, <4>3, DrainedAwake
    <3>8. PICK whole : whole = Also(step, out)
      OBVIOUS
    <3>9. whole.st = step.st
      <4>1. Also(Step(step.st, step.out), out) = Step(step.st, step.out \union out)
        BY AlsoFields
      <4> QED
        BY <3>5, <3>8, <4>1, StepFields
    <3>10. LeasedRun(settle(whole).st, Spared)
      BY <3>6, <3>7, <3>9, SettledAwake
    <3>11. g[i] = settle(whole)
      BY <1>1, <1>2, <2>2, <3>1, <3>2, <3>3, <3>4, <3>8 DEF CancelsAlong
    <3>12. i \in 0..n
      OBVIOUS
    <3> QED
      BY <1>3, <1>4, <3>10, <3>11, <3>12 DEF AwakeSteps
  <2> QED
    BY <2>1, <2>2
<1>7. \A i \in 0..n : g[i] \in X
  BY <1>5, <1>6, Along
<1> QED
  BY <1>1, <1>2, <1>3, <1>7

\* A call enters, or withdraws its waits.
LEMMA WalksAwake ==
  ASSUME OwnerInv, LeasedRun(lifecycle, Spared), NEW c \in Clients, CallsItsOwn(client[c], c),
         Enter(c) \/ Withdraw(c)
  PROVE  LeasedRun(lifecycle', Spared)
<1>1. lifecycle \in SoundState
  BY OwnerParts
<1>2. PICK call \in Operation : call = client[c].call
  BY CallOf DEF Enter, Withdraw
<1>3. CASE Enter(c)
  <2>1. PICK step : step = Reduced(c, call)
    OBVIOUS
  <2>2. lifecycle' = step.st
    BY <1>2, <1>3, <2>1 DEF Enter, Dispatch, Publish
  <2>3. call.op \in {"stop", "restart", "destroy"} => call.id \notin Spared
    BY <1>2, StoppedNotSpared
  <2>4. step \in AwakeSteps
    BY <1>1, <2>1, <2>3, ReducedAwake
  <2> QED
    BY <2>2, <2>4 DEF AwakeSteps
<1>4. CASE Withdraw(c)
  <2>1. PICK step : step = Withdrawn(c, call)
    OBVIOUS
  <2>2. lifecycle' = step.st
    BY <1>2, <1>4, <2>1 DEF Withdraw, Dispatch, Publish
  <2>3. step \in AwakeSteps
    BY <1>1, <2>1, WithdrawnAwake
  <2> QED
    BY <2>2, <2>3 DEF AwakeSteps
<1> QED
  BY <1>3, <1>4
-----------------------------------------------------------------------------
\* At the start nobody has called, nothing has failed, and no lease is held.
LEMMA InitAwake == OrchestratorInit => LeasesKeepAwake
<1> SUFFICES ASSUME OrchestratorInit
             PROVE  LeasesKeepAwake
  OBVIOUS
<1>1. \A c \in Clients : CallsItsOwn(client[c], c)
  BY DEF OrchestratorInit, NewCaller, CallsItsOwn
<1>2. Faultless(fibers)
  BY DEF OrchestratorInit, Init, Faultless
<1>3. LeasedRun(lifecycle, Spared)
  <2>1. Spared \subseteq Services
    BY DEF Spared
  <2>2. ASSUME NEW s \in Services
        PROVE  s \in lifecycle.members /\ lifecycle.services[s].leases = 0
    BY DEF OrchestratorInit, initialService
  <2> QED
    BY <2>1, <2>2 DEF LeasedRun
<1> QED
  BY <1>1, <1>2, <1>3 DEF LeasesKeepAwake

\* What a caller does.
LEMMA ClientAwake ==
  ASSUME OwnerInv, LeasedRun(lifecycle, Spared), NEW c \in Clients, CallsItsOwn(client[c], c),
         ClientStep(c)
  PROVE  LeasedRun(lifecycle', Spared)
<1>1. CASE UNCHANGED lifecycle
  BY <1>1
<1>2. CASE Enter(c) \/ Withdraw(c)
  BY <1>2, WalksAwake
<1>3. CASE Unregister(c) \/ Release(c) \/ Close(c)
  BY <1>3, UnregisterAwake, ReleaseAwake, CloseAwake
<1>4. \/ UNCHANGED lifecycle
      \/ Enter(c) \/ Withdraw(c) \/ Unregister(c) \/ Release(c) \/ Close(c)
  <2>1. CASE Call(c) \/ Expires(c) \/ Cancel(c)
    BY <2>1 DEF Call, Expires, Cancel, Moved
  <2>2. CASE CallerStep(c)
    BY <2>2 DEF CallerStep, Observe, Admitted, Fails, DataWork, DataWorkEnds, Moved
  <2>3. CASE Close(c)
    BY <2>3
  <2> QED
    BY <2>1, <2>2, <2>3 DEF ClientStep
<1> QED
  BY <1>1, <1>2, <1>3, <1>4

\* A client's step reports no failure.
LEMMA ClientFaultless ==
  ASSUME OwnerInv, NEW c \in Clients, ClientStep(c), failures' = 0
  PROVE  failures = 0 /\ (Faultless(fibers) => Faultless(fibers'))
<1>1. UNCHANGED <<fibers, failures>>
  <2>1. CASE Call(c) \/ Expires(c) \/ Cancel(c) \/ Close(c)
    BY <2>1 DEF Call, Expires, Cancel, Close, Moved, Dispatch, serviceVars
  <2>2. CASE Enter(c) \/ Withdraw(c) \/ Unregister(c) \/ Release(c)
    BY <2>2 DEF Enter, Withdraw, Unregister, Release, Dispatch
  <2>3. CASE Observe(c) \/ Admitted(c) \/ Fails(c)
    BY <2>3 DEF Observe, Admitted, Fails, Moved, serviceVars
  <2>4. CASE DataWork(c) \/ DataWorkEnds(c)
    BY <2>4 DEF DataWork, DataWorkEnds, BeginWork, EndWork
  <2> QED
    BY <2>1, <2>2, <2>3, <2>4 DEF ClientStep, CallerStep
<1> QED
  BY <1>1

\* Every step.
LEMMA NextAwake ==
  OwnerInv /\ ExecutionsFollow /\ LeasesKeepAwake /\ [Next]_vars => LeasesKeepAwake'
<1> SUFFICES ASSUME OwnerInv, ExecutionsFollow, LeasesKeepAwake, [Next]_vars
             PROVE  LeasesKeepAwake'
  OBVIOUS
<1>1. \A c \in Clients : CallsItsOwn(client[c], c)
  BY DEF LeasesKeepAwake
<1>2. \A c \in Clients : CallsItsOwn(client'[c], c)
  BY <1>1, NextCalls
<1>3. ASSUME failures' = 0
      PROVE  Faultless(fibers') /\ LeasedRun(lifecycle', Spared)
  <2>1. CASE \/ \E c \in commands : Begin(c) /\ UNCHANGED lifecycleVars
             \/ \E f \in fibers : Run(f) /\ UNCHANGED lifecycleVars
             \/ \E s \in Services : RuntimeExits(s) /\ UNCHANGED lifecycleVars
    <3>1. OwnStep /\ lifecycle' = lifecycle
      BY <2>1 DEF OwnStep, lifecycleVars
    <3>2. failures = 0 /\ (Faultless(fibers) => Faultless(fibers'))
      BY <1>3, <3>1, OwnFaultless
    <3> QED
      BY <3>1, <3>2 DEF LeasesKeepAwake
  <2>2. ASSUME NEW f \in fibers, Deliver(f)
        PROVE  Faultless(fibers') /\ LeasedRun(lifecycle', Spared)
    <3>1. failures = 0 /\ (Faultless(fibers) => Faultless(fibers'))
      BY <1>3, <2>2, DeliveredFaultless DEF Deliver
    <3> QED
      BY <2>2, <3>1, DeliverAwake DEF LeasesKeepAwake
  <2>3. CASE \/ \E s \in Services : IdleTimerFires(s)
             \/ \E x \in timers.cooldown : CooldownTimerFires(x[1], x[2])
    <3>1. UNCHANGED <<fibers, failures>>
      BY <2>3 DEF IdleTimerFires, CooldownTimerFires, Dispatch
    <3> QED
      BY <1>3, <2>3, <3>1, TimerAwake DEF LeasesKeepAwake
  <2>4. ASSUME NEW c \in Clients, ClientStep(c)
        PROVE  Faultless(fibers') /\ LeasedRun(lifecycle', Spared)
    <3>1. failures = 0 /\ (Faultless(fibers) => Faultless(fibers'))
      BY <1>3, <2>4, ClientFaultless
    <3> QED
      BY <1>1, <2>4, <3>1, ClientAwake DEF LeasesKeepAwake
  <2>5. CASE UNCHANGED vars
    BY <1>3, <2>5 DEF vars, serviceVars, lifecycleVars, LeasesKeepAwake
  <2> QED
    BY <2>1, <2>2, <2>3, <2>4, <2>5 DEF Next
<1> QED
  BY <1>2, <1>3 DEF LeasesKeepAwake

\* A lease that is held is counted, so its service runs, and whatever it needs.
LEMMA AwakeFromLeases ==
  ExecutionsFollow /\ LeasesAreTallied /\ LeasesKeepAwake => LeaseKeepsAwake
<1> SUFFICES ASSUME ExecutionsFollow, LeasesAreTallied, LeasesKeepAwake, failures = 0,
                    NEW c \in Clients, NEW s \in Services, NeverStopped(s), HoldsLease(c, s),
                    NEW p \in prerequisiteClosure[s] \union {s}
             PROVE  PhaseAt(p).tag = "Running"
  BY DEF LeaseKeepsAwake
<1>1. s \in lifecycle.members
      /\ (lifecycle.services[s].leases # 0 => lifecycle.services[s].phase.tag = "Running")
  BY DEF LeasesKeepAwake, LeasedRun, Spared
<1>2. c \in Holders(client, {}, s)
  BY DEF Holders, Holding, HoldsLease, Unresolved
<1>3. lifecycle.services[s].leases # 0
  <2>1. PICK H : H = Holders(client, {}, s)
    OBVIOUS
  <2>2. IsFiniteSet(H) /\ lifecycle.services[s].leases = Cardinality(H)
    BY <1>1, <2>1 DEF LeasesAreTallied, Tallied, TalliedAt
  <2>3. H # {}
    BY <1>2, <2>1
  <2> QED
    BY <2>2, <2>3, FS_EmptySet
<1>4. lifecycle.services[s].phase.tag = "Running"
  BY <1>1, <1>3
<1>5. \A q \in prerequisiteClosure[s] : lifecycle.services[q].phase.tag = "Running"
  BY <1>4 DEF ExecutionsFollow, Coherent, Rooted, Stoppable
<1> QED
  BY <1>4, <1>5 DEF PhaseAt

\* As long as nothing fails, a service that is leased and that no client may stop runs, in
\* every reachable state: a stop asked for another service, an idle timer that is late and a
\* retried launch never end what somebody is connected to (Lifecycle.ts:572-595, 828-849).
THEOREM LeasesAlwaysKeepAwake == Spec => []LeasesKeepAwake
<1>1. OrchestratorInit => LeasesKeepAwake
  BY InitAwake
<1>2. OwnerInv /\ ExecutionsFollow /\ LeasesKeepAwake /\ [Next]_vars => LeasesKeepAwake'
  BY NextAwake
<1> QED
  BY <1>1, <1>2, OwnerInvariant, ExecutionsAlwaysFollow, PTL DEF Spec

\* So it is for every connection that holds a lease, and for whatever its service needs: none
\* of it sleeps, stops or restarts under the connection (Lifecycle.ts:550-595, 828-849).
THEOREM LeaseAlwaysKeepsAwake == Spec => []LeaseKeepsAwake
<1>1. ExecutionsFollow /\ LeasesAreTallied /\ LeasesKeepAwake => LeaseKeepsAwake
  BY AwakeFromLeases
<1> QED
  BY <1>1, ExecutionsAlwaysFollow, LeasesAlwaysTallied, LeasesAlwaysKeepAwake, PTL
=============================================================================
