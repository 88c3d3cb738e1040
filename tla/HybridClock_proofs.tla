------------------------ MODULE HybridClock_proofs ------------------------
(***************************************************************************)
(* For any threads, any stamps witnessed, any scales the calibrations      *)
(* measure, any modulus of the logical counter and any bounds: the clock   *)
(* is well typed, its wall component never goes back, a call that retries  *)
(* loads a larger one, the layers of the profile follow each other, and    *)
(* calls that do not overlap are given stamps in order.                    *)
(***************************************************************************)
EXTENDS HybridClock, TLAPS

\* Modular reduction by a positive number stays below it.
LEMMA ModBelow == ASSUME NEW n \in Nat, NEW m \in Nat \ {0}
                  PROVE  n % m \in 0..(m - 1)
  BY SMT

\* A tick count times a scale is a time.
LEMMA TimesNat == ASSUME NEW a \in Nat, NEW b \in Nat PROVE a * b \in Nat
  BY SMT

\* The physical time is a time: the counter is not behind its base.
LEMMA NowIsNat == ASSUME TypeOK PROVE now_ns \in Nat
<1>1. wall_clock.monon0 \in Nat /\ wall_clock.scale \in Nat
  BY ClockAssumption DEF TypeOK
<1>2. tsc - wall_clock.tsc0 \in Nat
  BY ClockAssumption DEF TypeOK
<1>3. (tsc - wall_clock.tsc0) * wall_clock.scale \in Nat
  BY <1>1, <1>2, TimesNat
<1> QED
  BY <1>1, <1>3 DEF now_ns

\* What a call computes is a stamp, and its wall is not behind the one loaded.
\* The last branch of witness() is never reached: of three numbers one is
\* largest.
LEMMA NextIsAhead ==
  ASSUME NEW physical \in Nat, NEW ts \in Stamps, NEW last_w \in Nat,
         NEW last_l \in 0..(LogicalMod - 1)
  PROVE  /\ NowNext(physical, last_w, last_l) \in Stamps
         /\ NowNext(physical, last_w, last_l).wall >= last_w
         /\ WitnessNext(physical, ts, last_w, last_l) \in Stamps
         /\ WitnessNext(physical, ts, last_w, last_l).wall >= last_w
<1>1. (last_l + 1) % LogicalMod \in 0..(LogicalMod - 1) /\ 0 \in 0..(LogicalMod - 1)
  BY ModBelow, ClockAssumption
<1>2. ts.wall \in Nat
  BY DEF Stamps
<1>3. NowNext(physical, last_w, last_l) \in Stamps
      /\ NowNext(physical, last_w, last_l).wall >= last_w
  BY <1>1 DEF NowNext, Stamps
<1>4. CASE ts.wall > last_w /\ ts.wall > physical
  BY <1>1, <1>2, <1>3, <1>4 DEF WitnessNext, Stamps
<1>5. CASE ~(ts.wall > last_w /\ ts.wall > physical) /\ physical >= last_w /\ physical >= ts.wall
  BY <1>1, <1>2, <1>3, <1>5 DEF WitnessNext, Stamps
<1>6. CASE /\ ~(ts.wall > last_w /\ ts.wall > physical)
           /\ ~(physical >= last_w /\ physical >= ts.wall)
  <2>1. last_w >= physical /\ last_w >= ts.wall
    BY <1>2, <1>6
  <2> QED
    BY <1>1, <1>2, <1>3, <1>6, <2>1 DEF WitnessNext, Stamps
<1> QED
  BY <1>4, <1>5, <1>6

\* The clock, the calls under way and the profile keep their types.
LEMMA TypeKept == TypeOK /\ [Next]_vars => TypeOK'
<1> SUFFICES ASSUME TypeOK, [Next]_vars PROVE TypeOK'
  OBVIOUS
<1> USE ClockAssumption
<1>0. Zero \in Stamps /\ 0 \in Nat /\ 0 \in 0..(LogicalMod - 1)
  BY DEF Zero, Stamps
<1>1. CASE Tick
  BY <1>1 DEF Tick, TypeOK
<1>2. CASE Recalibrate
  <2>1. now_ns \in Nat
    BY NowIsNat
  <2>2. PICK later \in tsc..MaxTsc, scale \in Scales :
          /\ tsc' = later
          /\ wall_clock' = [scale |-> scale, tsc0 |-> later, monon0 |-> now_ns]
    BY <1>2 DEF Recalibrate
  <2>3. tsc' \in 0..MaxTsc /\ wall_clock' \in [scale : Scales, tsc0 : 0..tsc', monon0 : Nat]
    BY <2>1, <2>2 DEF TypeOK
  <2> QED
    BY <1>2, <2>3 DEF Recalibrate, TypeOK
<1>3. ASSUME NEW t \in Threads, Step(t) PROVE TypeOK'
  <2>0. call[t] \in Calls
    BY DEF TypeOK
  <2>1. CASE Now(t) \/ (t # Profiler /\ Witness(t))
    <3>1. PICK op \in {"now", "witness"}, ts \in Stamps : Begin(t, op, ts)
      BY <1>0, <2>1 DEF Now, Witness, Stamps
    <3>2. now_ns \in Nat
      BY NowIsNat
    <3> DEFINE c == [pc |-> "load_wall", op |-> op, physical |-> now_ns, ts |-> ts,
                     last_w |-> 0, last_l |-> 0, next |-> Zero]
    <3>4. c \in Calls
      BY <1>0, <3>2 DEF Calls
    <3>5. call' = [call EXCEPT ![t] = c]
      BY <3>1 DEF Begin
    <3> HIDE DEF c
    <3> QED
      BY <3>1, <3>4, <3>5 DEF Begin, TypeOK
  <2>2. CASE LoadWall(t)
    <3> DEFINE c == [call[t] EXCEPT !.pc = "load_logical", !.last_w = last_wall]
    <3>1. c \in Calls
      BY <2>0 DEF TypeOK, Calls
    <3>2. call' = [call EXCEPT ![t] = c]
      BY <2>2 DEF LoadWall, TypeOK
    <3> HIDE DEF c
    <3>3. call' \in [Threads -> Calls]
      BY <3>1, <3>2 DEF TypeOK
    <3>4. UNCHANGED <<tsc, wall_clock, last_wall, last_logical, given, timing, layers>>
      BY <2>2 DEF LoadWall
    <3> QED
      BY <3>3, <3>4 DEF TypeOK
  <2>3. CASE LoadLogical(t)
    <3>1. NextStamp(call[t], last_logical) \in Stamps
      BY <2>0, NextIsAhead DEF NextStamp, TypeOK, Calls
    <3> DEFINE c == [call[t] EXCEPT !.pc = "swap", !.last_l = last_logical,
                                    !.next = NextStamp(call[t], last_logical)]
    <3>2. c \in Calls
      BY <2>0, <3>1 DEF TypeOK, Calls
    <3>3. call' = [call EXCEPT ![t] = c]
      BY <2>3 DEF LoadLogical, TypeOK
    <3> HIDE DEF c
    <3>4. call' \in [Threads -> Calls]
      BY <3>2, <3>3 DEF TypeOK
    <3>5. UNCHANGED <<tsc, wall_clock, last_wall, last_logical, given, timing, layers>>
      BY <2>3 DEF LoadLogical
    <3> QED
      BY <3>4, <3>5 DEF TypeOK
  <2>4. CASE Swap(t)
    <3>1. call[t].next.wall \in Nat
      BY <2>0 DEF Calls, Stamps
    <3>2. PICK pc \in {"store", "load_wall"} : call' = [call EXCEPT ![t] = [call[t] EXCEPT !.pc = pc]]
      BY <2>4 DEF Swap, TypeOK
    <3>3. [call[t] EXCEPT !.pc = pc] \in Calls
      BY <2>0 DEF Calls
    <3> QED
      BY <2>4, <3>1, <3>2, <3>3 DEF Swap, TypeOK
  <2>5. CASE Store(t)
    <3>1. call[t].next \in Stamps /\ call[t].next.logical \in 0..(LogicalMod - 1)
      BY <2>0 DEF Calls, Stamps
    <3>2. given' \in Seq([by : Threads, stamp : Stamps])
      BY <2>5, <3>1 DEF Store, TypeOK
    <3>3. timing' = timing \/ timing' = NoTiming \/ timing' = BeginLayer(call[t].next)
      BY <2>5 DEF Store, Profile
    <3>4. timing' \in [begun : BOOLEAN, wall_start : Stamps]
      <4>1. NoTiming \in [begun : BOOLEAN, wall_start : Stamps]
        BY <1>0, Zenon DEF NoTiming
      <4>2. BeginLayer(call[t].next) \in [begun : BOOLEAN, wall_start : Stamps]
        BY <3>1, Zenon DEF BeginLayer
      <4> QED
        BY <3>3, <4>1, <4>2, Zenon DEF TypeOK
    <3>5. layers' \in Seq([wall_start : Stamps, wall_end : Stamps, elapsed_ns : Nat])
      <4> DEFINE Layers == [wall_start : Stamps, wall_end : Stamps, elapsed_ns : Nat]
                 new == EndLayer(timing.wall_start, call[t].next)
      <4>1. timing.wall_start \in Stamps /\ timing.wall_start.wall \in Nat /\ call[t].next.wall \in Nat
        BY <3>1 DEF TypeOK, Stamps
      <4>2. new \in Layers
        BY <3>1, <4>1 DEF EndLayer
      <4>3. layers' = layers \/ layers' = Append(layers, new)
        BY <2>5 DEF Store, Profile
      <4>4. layers \in Seq(Layers)
        BY DEF TypeOK
      <4> HIDE DEF Layers, new
      <4>5. layers' \in Seq(Layers)
        BY <4>2, <4>3, <4>4
      <4> QED
        BY <4>5 DEF Layers
    <3>6. call' \in [Threads -> Calls]
      BY <1>0, <2>5 DEF Store, Idle, TypeOK, Calls
    <3> QED
      BY <2>5, <3>1, <3>2, <3>4, <3>5, <3>6 DEF Store, TypeOK
  <2> QED
    BY <1>3, <2>1, <2>2, <2>3, <2>4, <2>5 DEF Step
<1>4. CASE UNCHANGED vars
  BY <1>4 DEF vars, TypeOK
<1> QED
  BY <1>1, <1>2, <1>3, <1>4 DEF Next

\* Every variable has the type its Rust field has, however many threads, calls
\* and calibrations: no reading of the counter lies before its base, and the
\* logical counter stays below its modulus.
THEOREM TypeCorrect == Spec => []TypeOK
<1>1. Init => TypeOK
  BY ClockAssumption DEF Init, TypeOK, Idle, Zero, NoTiming, Stamps, Calls
<1>2. TypeOK /\ [Next]_vars => TypeOK'
  BY TypeKept
<1> QED
  BY <1>1, <1>2, PTL DEF Spec

----------------------------------------------------------------------------

Loaded == {"load_logical", "swap", "store"}

\* What a call under way knows: it loaded a wall that was the clock's, and what
\* it computed from it is not behind it; once swapped in, the clock has it.
CallInv(t) ==
  /\ call[t].pc \in {"swap", "store"} => call[t].last_w <= call[t].next.wall
  /\ call[t].pc \in Loaded => call[t].last_w <= last_wall
  /\ call[t].pc = "store" => call[t].next.wall <= last_wall

ClockInv == TypeOK /\ \A t \in Threads : CallInv(t)

\* A successful exchange finds the wall the call loaded, and what the call
\* computed is not behind that.
LEMMA SwapIsForward ==
  ASSUME ClockInv, NEW t \in Threads, Swap(t)
  PROVE  last_wall' \in Nat /\ last_wall <= last_wall'
<1>1. last_wall \in Nat /\ call[t].next.wall \in Nat
  BY DEF ClockInv, TypeOK, Calls, Stamps
<1>2. CASE last_wall = call[t].last_w
  <2>1. last_wall' = call[t].next.wall
    BY <1>2 DEF Swap
  <2>2. call[t].last_w <= call[t].next.wall
    BY DEF Swap, ClockInv, CallInv
  <2> QED
    BY <1>1, <1>2, <2>1, <2>2
<1>3. CASE last_wall # call[t].last_w
  BY <1>1, <1>3 DEF Swap
<1> QED
  BY <1>2, <1>3

\* Nothing else assigns the wall.
LEMMA StepIsForward ==
  ASSUME ClockInv, [Next]_vars
  PROVE  last_wall' \in Nat /\ last_wall <= last_wall'
<1>0. last_wall \in Nat
  BY DEF ClockInv, TypeOK
<1>1. CASE \E t \in Threads : Swap(t)
  BY <1>1, SwapIsForward
<1>2. CASE ~ \E t \in Threads : Swap(t)
  <2>1. UNCHANGED last_wall
    BY <1>2 DEF Next, Tick, Recalibrate, Step, Now, Witness, Begin, LoadWall, LoadLogical, Store, vars
  <2> QED
    BY <1>0, <2>1
<1> QED
  BY <1>1, <1>2

\* What each step of a call leaves that call with, and that it leaves the other
\* calls alone.
LEMMA StepOfCall ==
  ASSUME TypeOK, NEW t \in Threads, Step(t)
  PROVE  /\ \A u \in Threads \ {t} : call'[u] = call[u]
         /\ \/ call'[t].pc \in {"idle", "load_wall"}
            \/ /\ LoadWall(t)
               /\ call'[t].pc = "load_logical" /\ call'[t].last_w = last_wall
            \/ /\ LoadLogical(t) /\ call[t].pc = "load_logical"
               /\ call'[t].pc = "swap" /\ call'[t].last_w = call[t].last_w
               /\ call[t].last_w <= call'[t].next.wall
            \/ /\ Swap(t) /\ call[t].pc = "swap"
               /\ call'[t].pc = "store" /\ call'[t].last_w = call[t].last_w
               /\ call'[t].next = call[t].next /\ last_wall' = call[t].next.wall
<1>0. call[t] \in Calls /\ call \in [Threads -> Calls]
  BY DEF TypeOK
<1>1. CASE Now(t) \/ Witness(t)
  <2>1. PICK op, ts : Begin(t, op, ts)
    BY <1>1 DEF Now, Witness
  <2>2. call' = [call EXCEPT ![t] = [pc |-> "load_wall", op |-> op, physical |-> now_ns, ts |-> ts,
                                     last_w |-> 0, last_l |-> 0, next |-> Zero]]
    BY <2>1 DEF Begin
  <2> QED
    BY <1>0, <2>2
<1>2. CASE LoadWall(t)
  BY <1>0, <1>2 DEF LoadWall, Calls
<1>3. CASE LoadLogical(t)
  <2>1. call[t].last_w <= NextStamp(call[t], last_logical).wall
    <3>1. NextStamp(call[t], last_logical).wall >= call[t].last_w
      BY <1>0, NextIsAhead DEF NextStamp, TypeOK, Calls
    <3>2. NextStamp(call[t], last_logical) \in Stamps
      BY <1>0, NextIsAhead DEF NextStamp, TypeOK, Calls
    <3> QED
      BY <1>0, <3>1, <3>2 DEF Calls, Stamps
  <2> QED
    BY <1>0, <1>3, <2>1 DEF LoadLogical, Calls
<1>4. CASE Swap(t)
  <2>1. call[t].pc = "swap"
    BY <1>4 DEF Swap
  <2>2. CASE last_wall # call[t].last_w
    BY <1>0, <1>4, <2>2 DEF Swap, Calls
  <2>3. CASE last_wall = call[t].last_w
    <3>1. last_wall' = call[t].next.wall
      BY <1>4, <2>3 DEF Swap
    <3>2. call' = [call EXCEPT ![t] = [call[t] EXCEPT !.pc = "store"]]
      BY <1>0, <1>4, <2>3 DEF Swap
    <3>3. /\ call'[t].pc = "store" /\ call'[t].last_w = call[t].last_w
          /\ call'[t].next = call[t].next
      BY <1>0, <3>2 DEF Calls
    <3>4. \A u \in Threads \ {t} : call'[u] = call[u]
      BY <1>0, <3>2
    <3> QED
      BY <1>4, <2>1, <3>1, <3>3, <3>4
  <2> QED
    BY <2>2, <2>3
<1>5. CASE Store(t)
  <2>1. call' = [call EXCEPT ![t] = Idle]
    BY <1>5 DEF Store
  <2> QED
    BY <1>0, <2>1 DEF Idle
<1> QED
  BY <1>1, <1>2, <1>3, <1>4, <1>5 DEF Step

\* Every step of every thread keeps what each call knows.
LEMMA ClockInvKept == ClockInv /\ [Next]_vars => ClockInv'
<1> SUFFICES ASSUME ClockInv, [Next]_vars PROVE ClockInv'
  OBVIOUS
<1>1. TypeOK /\ TypeOK'
  BY TypeKept DEF ClockInv
<1>2. last_wall \in Nat /\ last_wall' \in Nat /\ last_wall <= last_wall'
  BY StepIsForward DEF ClockInv, TypeOK
<1>3. \A u \in Threads : /\ call[u].last_w \in Nat /\ call[u].next.wall \in Nat
                         /\ call'[u].last_w \in Nat /\ call'[u].next.wall \in Nat
  BY <1>1 DEF TypeOK, Calls, Stamps
<1>4. ASSUME NEW u \in Threads, call'[u] = call[u] PROVE CallInv(u)'
  <2>1. CallInv(u)
    BY DEF ClockInv
  <2> QED
    BY <1>2, <1>3, <1>4, <2>1 DEF CallInv
<1>5. CASE Tick \/ Recalibrate \/ UNCHANGED vars
  <2>1. call' = call
    BY <1>5 DEF Tick, Recalibrate, vars
  <2> QED
    BY <1>1, <1>4, <2>1 DEF ClockInv
<1>6. ASSUME NEW t \in Threads, Step(t) PROVE ClockInv'
  <2>1. \A u \in Threads \ {t} : call'[u] = call[u]
    BY <1>1, <1>6, StepOfCall
  <2>2. CallInv(t)
    BY DEF ClockInv
  <2>3. CallInv(t)'
    <3>1. CASE call'[t].pc \in {"idle", "load_wall"}
      BY <3>1 DEF CallInv, Loaded
    <3>2. CASE call'[t].pc = "load_logical" /\ call'[t].last_w = last_wall
      BY <1>2, <3>2 DEF CallInv, Loaded
    <3>3. CASE /\ call[t].pc = "load_logical"
               /\ call'[t].pc = "swap" /\ call'[t].last_w = call[t].last_w
               /\ call[t].last_w <= call'[t].next.wall
      BY <1>2, <1>3, <2>2, <3>3 DEF CallInv, Loaded
    <3>4. CASE /\ call[t].pc = "swap"
               /\ call'[t].pc = "store" /\ call'[t].last_w = call[t].last_w
               /\ call'[t].next = call[t].next /\ last_wall' = call[t].next.wall
      BY <1>2, <1>3, <2>2, <3>4 DEF CallInv, Loaded
    <3> QED
      BY <1>1, <1>6, <3>1, <3>2, <3>3, <3>4, StepOfCall
  <2> QED
    BY <1>1, <1>4, <2>1, <2>3 DEF ClockInv
<1> QED
  BY <1>5, <1>6 DEF Next

\* So the clock begins, with no call under way.
LEMMA ClockInvInit == Init => ClockInv
<1> SUFFICES ASSUME Init PROVE ClockInv
  OBVIOUS
<1>1. TypeOK
  BY ClockAssumption DEF Init, TypeOK, Idle, Zero, NoTiming, Stamps, Calls
<1>2. \A t \in Threads : call[t].pc = "idle"
  BY DEF Init, Idle
<1> QED
  BY <1>1, <1>2 DEF ClockInv, CallInv, Loaded

\* However the calls of any number of threads interleave, and whatever stamps
\* they witness, the wall component of the clock never goes back.
THEOREM WallNeverGoesBack == Spec => WallNeverBack
<1>1. ClockInv /\ [Next]_vars => [last_wall' >= last_wall]_vars
  BY StepIsForward DEF ClockInv, TypeOK
<1> QED
  BY ClockInvInit, ClockInvKept, <1>1, PTL DEF Spec, WallNeverBack

\* A call that tries again has been overtaken by a larger wall: what it loads
\* next is past what it loaded before, for any threads and whatever they witness.
THEOREM RetriesAlwaysClimb == Spec => RetriesClimb
<1> DEFINE Climb == \A t \in Threads :
                      call[t].pc = "swap" /\ call'[t].pc = "load_wall" =>
                        call[t].last_w < last_wall
<1>1. ClockInv /\ [Next]_vars => [Climb]_vars
  <2> SUFFICES ASSUME ClockInv, [Next]_vars, NEW t \in Threads,
                      call[t].pc = "swap", call'[t].pc = "load_wall"
               PROVE  call[t].last_w < last_wall
    OBVIOUS
  <2>1. TypeOK /\ last_wall \in Nat /\ call[t] \in Calls /\ call[t].last_w \in Nat
    BY DEF ClockInv, TypeOK, Calls
  <2>2. call[t].last_w <= last_wall
    BY DEF ClockInv, CallInv, Loaded
  <2>3. call' # call
    OBVIOUS
  <2>4. PICK u \in Threads : Step(u)
    BY <2>3 DEF Next, Tick, Recalibrate, vars
  <2>5. u = t
    BY <2>1, <2>4, StepOfCall
  <2>6. Swap(t)
    BY <2>4, <2>5 DEF Step, Now, Witness, Begin, LoadWall, LoadLogical, Store
  <2>7. CASE last_wall = call[t].last_w
    <3>1. call' = [call EXCEPT ![t].pc = "store"]
      BY <2>6, <2>7 DEF Swap
    <3>2. call'[t].pc = "store"
      BY <2>1, <3>1 DEF TypeOK, Calls
    <3> QED
      BY <3>2
  <2>8. CASE last_wall # call[t].last_w
    BY <2>1, <2>2, <2>8
  <2> QED
    BY <2>7, <2>8
<1> QED
  BY ClockInvInit, ClockInvKept, <1>1, PTL DEF Spec, RetriesClimb, Climb

----------------------------------------------------------------------------

\* The last wall the profile has seen: of the layer begun, or the end of the
\* last one.
LastEnd == IF layers = <<>> THEN 0 ELSE layers[Len(layers)].wall_end.wall
Latest == IF timing.begun THEN timing.wall_start.wall ELSE LastEnd

\* The profile is behind the clock, and behind what the profiler's call loaded.
ProfileInv ==
  /\ LastEnd <= Latest
  /\ Latest <= last_wall
  /\ call[Profiler].pc \in Loaded => Latest <= call[Profiler].last_w
  /\ LayersAreATimeline

TimelineInv == ClockInv /\ ProfileInv

\* The last walls the profile has seen are times.
LEMMA ProfileTypes == ASSUME TypeOK PROVE LastEnd \in Nat /\ Latest \in Nat
<1>1. LastEnd \in Nat
  <2>1. CASE layers = <<>>
    BY <2>1 DEF LastEnd
  <2>2. CASE layers # <<>>
    <3>1. Len(layers) \in 1..Len(layers)
      BY <2>2 DEF TypeOK
    <3> DEFINE Layers == [wall_start : Stamps, wall_end : Stamps, elapsed_ns : Nat]
    <3>2. layers \in Seq(Layers)
      BY DEF TypeOK
    <3> HIDE DEF Layers
    <3>3. layers[Len(layers)] \in Layers
      BY <3>1, <3>2
    <3> USE DEF Layers
    <3> QED
      BY <2>2, <3>3 DEF LastEnd, Stamps
  <2> QED
    BY <2>1, <2>2
<1> QED
  BY <1>1 DEF Latest, TypeOK, Stamps

\* A step that leaves the profile alone.
LEMMA ProfileKept ==
  ASSUME TimelineInv, [Next]_vars, TypeOK', UNCHANGED <<timing, layers>>
  PROVE  ProfileInv'
<1>1. LastEnd' = LastEnd /\ Latest' = Latest /\ (LayersAreATimeline' <=> LayersAreATimeline)
  BY DEF LastEnd, Latest, LayersAreATimeline
<1>2. LastEnd \in Nat /\ Latest \in Nat
  BY ProfileTypes DEF TimelineInv, ClockInv
<1>3. last_wall \in Nat /\ last_wall' \in Nat /\ last_wall <= last_wall'
  BY StepIsForward DEF TimelineInv, ClockInv, TypeOK
<1>4. LastEnd <= Latest /\ Latest <= last_wall /\ LayersAreATimeline
  BY DEF TimelineInv, ProfileInv
<1>5. call'[Profiler].pc \in Loaded => Latest <= call'[Profiler].last_w
  <2>1. CASE call'[Profiler] = call[Profiler]
    BY <2>1 DEF TimelineInv, ProfileInv
  <2>2. CASE Step(Profiler)
    BY <1>2, <1>3, <1>4, <2>2, StepOfCall, ClockAssumption
       DEF TimelineInv, ClockInv, ProfileInv, Loaded
  <2>3. CASE \E t \in Threads \ {Profiler} : Step(t)
    <3>1. call'[Profiler] = call[Profiler]
      BY <2>3, StepOfCall, ClockAssumption DEF TimelineInv, ClockInv
    <3> QED
      BY <2>1, <3>1
  <2>4. CASE Tick \/ Recalibrate \/ UNCHANGED vars
    BY <2>1, <2>4 DEF Tick, Recalibrate, vars
  <2> QED
    BY <2>2, <2>3, <2>4 DEF Next
<1> QED
  BY <1>1, <1>2, <1>3, <1>4, <1>5 DEF ProfileInv

\* The profiler's call returns: it begins a layer, or ends the one begun, and
\* its stamp is behind neither the last layer nor the start of this one.
LEMMA ProfileExtended ==
  ASSUME TimelineInv, TypeOK', Store(Profiler)
  PROVE  ProfileInv'
<1> DEFINE stamp == call[Profiler].next
<1>1. TypeOK /\ ProfileInv
  BY DEF TimelineInv, ClockInv
<1>2. LastEnd \in Nat /\ Latest \in Nat /\ last_wall \in Nat /\ stamp.wall \in Nat
      /\ call[Profiler].last_w \in Nat /\ timing.wall_start.wall \in Nat
  BY <1>1, ProfileTypes, ClockAssumption DEF TypeOK, Calls, Stamps
<1>3. Latest <= stamp.wall /\ stamp.wall <= last_wall
  <2>1. call[Profiler].pc = "store" /\ CallInv(Profiler)
    BY ClockAssumption DEF Store, TimelineInv, ClockInv
  <2> QED
    BY <1>1, <1>2, <2>1 DEF CallInv, ProfileInv, Loaded
<1>4. last_wall' = last_wall /\ call'[Profiler].pc \notin Loaded
  BY <1>1, ClockAssumption DEF Store, TypeOK, Idle, Loaded
<1>5. CASE ~timing.begun
  <2>1. timing' = BeginLayer(stamp) /\ layers' = layers
    BY <1>5 DEF Store, Profile
  <2>2. LastEnd' = LastEnd /\ Latest' = stamp.wall /\ LayersAreATimeline'
    BY <1>1, <2>1 DEF LastEnd, Latest, BeginLayer, LayersAreATimeline, ProfileInv
  <2>3. Latest = LastEnd
    BY <1>5 DEF Latest
  <2> QED
    BY <1>2, <1>3, <1>4, <2>2, <2>3 DEF ProfileInv
<1>6. CASE timing.begun
  <2> DEFINE new == EndLayer(timing.wall_start, stamp)
             Layers == [wall_start : Stamps, wall_end : Stamps, elapsed_ns : Nat]
  <2>1. timing' = NoTiming /\ layers' = Append(layers, new)
    BY <1>6 DEF Store, Profile
  <2>2. Latest = timing.wall_start.wall
    BY <1>6 DEF Latest
  <2>3. /\ new.wall_start.wall = Latest /\ new.wall_end.wall = stamp.wall
        /\ new.wall_end.wall = new.wall_start.wall + new.elapsed_ns
    BY <1>2, <1>3, <2>2 DEF EndLayer
  <2>4. layers \in Seq(Layers) /\ layers' \in Seq(Layers)
    BY <1>1 DEF TypeOK
  <2> HIDE DEF new, Layers
  <2>5. /\ Len(layers') = Len(layers) + 1 /\ layers'[Len(layers')] = new
        /\ \A k \in 1..Len(layers) : layers'[k] = layers[k]
        /\ layers' # <<>> /\ Len(layers) \in Nat
    BY <2>1, <2>4
  <2>6. LastEnd' = stamp.wall /\ Latest' = stamp.wall
    BY <2>1, <2>3, <2>5 DEF LastEnd, Latest, NoTiming
  <2>7. LayersAreATimeline'
    <3>1. LayersAreATimeline /\ DOMAIN layers = 1..Len(layers) /\ DOMAIN layers' = 1..Len(layers')
      BY <1>1, <2>4 DEF ProfileInv
    <3>2. ASSUME NEW k \in 1..Len(layers')
          PROVE  layers'[k].wall_end.wall = layers'[k].wall_start.wall + layers'[k].elapsed_ns
      BY <2>3, <2>5, <3>1, <3>2 DEF LayersAreATimeline
    <3>3. ASSUME NEW k \in 1..Len(layers'), k > 1
          PROVE  layers'[k - 1].wall_end.wall <= layers'[k].wall_start.wall
      <4>1. CASE k \in 1..Len(layers)
        BY <2>5, <3>1, <3>3, <4>1 DEF LayersAreATimeline
      <4>2. CASE k = Len(layers')
        <5>1. k - 1 = Len(layers) /\ layers # <<>> /\ Len(layers) \in 1..Len(layers)
          BY <2>4, <2>5, <3>3, <4>2
        <5>2. layers'[k - 1].wall_end.wall = LastEnd
          BY <2>5, <5>1 DEF LastEnd
        <5> QED
          BY <1>1, <2>3, <2>5, <4>2, <5>2 DEF ProfileInv
      <4> QED
        BY <2>5, <4>1, <4>2
    <3> QED
      BY <3>1, <3>2, <3>3 DEF LayersAreATimeline
  <2> QED
    BY <1>2, <1>3, <1>4, <2>6, <2>7 DEF ProfileInv
<1> QED
  BY <1>5, <1>6

\* Only the return of the profiler's own calls changes the profile.
LEMMA TimelineInvKept == TimelineInv /\ [Next]_vars => TimelineInv'
<1> SUFFICES ASSUME TimelineInv, [Next]_vars PROVE TimelineInv'
  OBVIOUS
<1>1. ClockInv' /\ TypeOK'
  BY ClockInvKept DEF TimelineInv, ClockInv
<1>2. CASE Store(Profiler)
  BY <1>1, <1>2, ProfileExtended DEF TimelineInv
<1>3. CASE ~Store(Profiler)
  <2>1. UNCHANGED <<timing, layers>>
    BY <1>3 DEF Next, Tick, Recalibrate, Step, Now, Witness, Begin, LoadWall, LoadLogical, Swap,
                Store, Profile, vars
  <2> QED
    BY <1>1, <2>1, ProfileKept DEF TimelineInv
<1> QED
  BY <1>2, <1>3

\* The profile is a timeline while any number of other threads use the clock:
\* each layer ends where its elapsed time says, and before the next begins.
THEOREM ProfileIsATimeline == Spec => []LayersAreATimeline
<1>1. Init => TimelineInv
  <2> SUFFICES ASSUME Init PROVE TimelineInv
    OBVIOUS
  <2>1. LastEnd = 0 /\ Latest = 0 /\ last_wall = 1 /\ LayersAreATimeline
    BY DEF Init, LastEnd, Latest, NoTiming, LayersAreATimeline
  <2>2. call[Profiler].pc \notin Loaded
    BY ClockAssumption DEF Init, Idle, Loaded
  <2> QED
    BY <2>1, <2>2, ClockInvInit DEF TimelineInv, ProfileInv
<1>2. TimelineInv => LayersAreATimeline
  BY DEF TimelineInv, ProfileInv
<1> QED
  BY <1>1, <1>2, TimelineInvKept, PTL DEF Spec

-----------------------------------------------------------------------------
(* Calls that do not overlap, of a clock nobody hands a stamp to.          *)

Alone == ~overlapped /\ ~witnessed

\* What was given comes before a stamp, or before the clock's pair or at it.
Ahead(s) == \A i \in DOMAIN given : HappenedBefore(given[i].stamp, s)

Reached ==
  \A i \in DOMAIN given :
    \/ given[i].stamp.wall < last_wall
    \/ given[i].stamp.wall = last_wall /\ given[i].stamp.logical <= last_logical

Increasing ==
  \A i, j \in DOMAIN given : i < j => HappenedBefore(given[i].stamp, given[j].stamp)

\* No call moves the clock under another, so what it loaded still stands.
Undisturbed ==
  /\ \A t, u \in Threads : call[t].pc # "idle" /\ call[u].pc # "idle" => t = u
  /\ \A t \in Threads :
       /\ call[t].pc # "idle" => call[t].op = "now"
       /\ call[t].pc \in {"load_logical", "swap"} => call[t].last_w = last_wall
       /\ call[t].pc = "store" => call[t].next.wall = last_wall

\* The logical counter counts at most the calls, so what a call computes before
\* the counter comes round is after all that was given.
Ordered ==
  /\ Len(given) < LogicalMod =>
       /\ Increasing
       /\ last_logical <= Len(given)
       /\ (\A t \in Threads : call[t].pc # "store") => Reached
  /\ \A t \in Threads :
       call[t].pc \in {"swap", "store"} /\ Len(given) + 1 < LogicalMod =>
         Ahead(call[t].next) /\ call[t].next.logical <= Len(given) + 1

StrictInv == TypeOK /\ (Alone => Undisturbed /\ Ordered)

\* Below the modulus a number is its own remainder.
LEMMA ModSmall == ASSUME NEW n \in Nat, NEW m \in Nat \ {0}, n < m PROVE n % m = n
  BY SMT

\* The history is a sequence of stamps.
LEMMA GivenStamps ==
  ASSUME TypeOK
  PROVE  /\ Len(given) \in Nat /\ DOMAIN given = 1..Len(given)
         /\ \A i \in DOMAIN given : given[i].stamp \in Stamps
<1> DEFINE Entry == [by : Threads, stamp : Stamps]
<1>1. given \in Seq(Entry)
  BY DEF TypeOK
<1> HIDE DEF Entry
<1>2. /\ Len(given) \in Nat /\ DOMAIN given = 1..Len(given)
      /\ \A i \in DOMAIN given : given[i] \in Entry
  BY <1>1
<1> USE DEF Entry
<1> QED
  BY <1>2

\* A step that leaves the clock's pair, the calls and the history alone.
LEMMA SameOrder ==
  ASSUME StrictInv, TypeOK', Alone',
         UNCHANGED <<last_wall, last_logical, call, given, overlapped, witnessed>>
  PROVE  Undisturbed' /\ Ordered'
<1>1. Undisturbed /\ Ordered
  BY DEF StrictInv, Alone
<1> QED
  BY <1>1 DEF Undisturbed, Ordered, Increasing, Reached, Ahead, HappenedBefore

\* A call that begins finds every other thread idle.
LEMMA BeginInOrder ==
  ASSUME StrictInv, TypeOK', Alone', NEW t \in Threads, NEW op, NEW ts, Begin(t, op, ts)
  PROVE  Undisturbed' /\ Ordered'
<1>1. /\ Alone /\ op # "witness" /\ \A u \in Threads \ {t} : call[u].pc = "idle"
      /\ call[t].pc = "idle"
      /\ UNCHANGED <<last_wall, last_logical, given>>
      /\ call \in [Threads -> Calls] /\ call' \in [Threads -> Calls]
  BY Zenon DEF Begin, Alone, StrictInv, TypeOK
<1>2. Undisturbed /\ Ordered
  BY <1>1 DEF StrictInv
<1>3. /\ call'[t].pc = "load_wall" /\ call'[t].op = op
      /\ \A u \in Threads \ {t} : call'[u] = call[u]
  BY <1>1 DEF Begin
<1>4. op = "now"
  BY <1>1, <1>3 DEF Calls
<1>5. Undisturbed'
  BY <1>1, <1>3, <1>4 DEF Undisturbed
<1>6. \A u \in Threads : call[u].pc # "store" /\ call'[u].pc \notin {"swap", "store"}
  BY <1>1, <1>3
<1> QED
  BY <1>1, <1>2, <1>5, <1>6 DEF Ordered, Increasing, Reached

\* The call loads the clock's wall.
LEMMA LoadWallInOrder ==
  ASSUME StrictInv, TypeOK', Alone', NEW t \in Threads, LoadWall(t)
  PROVE  Undisturbed' /\ Ordered'
<1>1. /\ UNCHANGED <<last_wall, last_logical, given, overlapped, witnessed>>
      /\ call[t].pc = "load_wall"
      /\ call \in [Threads -> Calls]
  BY DEF LoadWall, StrictInv, TypeOK
<1>2. Undisturbed /\ Ordered
  BY <1>1 DEF StrictInv, Alone
<1>3. /\ call'[t].pc = "load_logical" /\ call'[t].op = call[t].op /\ call'[t].last_w = last_wall
      /\ \A u \in Threads \ {t} : call'[u] = call[u]
  BY <1>1 DEF LoadWall, Calls
<1>4. \A u \in Threads \ {t} : call[u].pc = "idle"
  BY <1>1, <1>2 DEF Undisturbed
<1>5. Undisturbed'
  BY <1>1, <1>2, <1>3, <1>4 DEF Undisturbed
<1>6. \A u \in Threads : call[u].pc # "store" /\ call'[u].pc \notin {"swap", "store"}
  BY <1>1, <1>3, <1>4
<1> QED
  BY <1>1, <1>2, <1>5, <1>6 DEF Ordered, Increasing, Reached

\* What now() computes is after the clock's pair while the counter does not
\* come round, and so after all that was given.
LEMMA NowIsAfter ==
  ASSUME TypeOK, Reached, NEW physical \in Nat,
         last_logical <= Len(given), Len(given) + 1 < LogicalMod
  PROVE  /\ Ahead(NowNext(physical, last_wall, last_logical))
         /\ NowNext(physical, last_wall, last_logical).logical <= Len(given) + 1
<1>1. /\ last_wall \in Nat /\ last_logical \in Nat /\ LogicalMod \in Nat \ {0}
      /\ Len(given) \in Nat
      /\ \A i \in DOMAIN given : given[i].stamp.wall \in Nat /\ given[i].stamp.logical \in Nat
  <2>1. last_wall \in Nat /\ last_logical \in Nat /\ LogicalMod \in Nat \ {0}
    BY ClockAssumption DEF TypeOK
  <2>2. Len(given) \in Nat /\ \A i \in DOMAIN given : given[i].stamp \in Stamps
    BY GivenStamps
  <2>3. \A s \in Stamps : s.wall \in Nat /\ s.logical \in Nat
    BY ClockAssumption DEF Stamps
  <2> QED
    BY <2>1, <2>2, <2>3
<1>2. (last_logical + 1) % LogicalMod = last_logical + 1
  BY <1>1, ModSmall
<1>3. CASE physical > last_wall
  BY <1>1, <1>3 DEF NowNext, Ahead, Reached, HappenedBefore
<1>4. CASE ~(physical > last_wall)
  BY <1>1, <1>2, <1>4 DEF NowNext, Ahead, Reached, HappenedBefore
<1> QED
  BY <1>3, <1>4

\* The call loads the clock's logical counter too, and computes its stamp.
LEMMA LoadLogicalInOrder ==
  ASSUME StrictInv, TypeOK', Alone', NEW t \in Threads, LoadLogical(t)
  PROVE  Undisturbed' /\ Ordered'
<1>1. /\ UNCHANGED <<last_wall, last_logical, given, overlapped, witnessed>>
      /\ call[t].pc = "load_logical" /\ TypeOK
      /\ call \in [Threads -> Calls] /\ call[t].physical \in Nat
  BY DEF LoadLogical, StrictInv, TypeOK, Calls
<1>2. Undisturbed /\ Ordered
  BY <1>1 DEF StrictInv, Alone
<1>3. call[t].op = "now" /\ call[t].last_w = last_wall
  BY <1>1, <1>2 DEF Undisturbed
<1>4. /\ call'[t].pc = "swap" /\ call'[t].op = call[t].op /\ call'[t].last_w = call[t].last_w
      /\ call'[t].next = NextStamp(call[t], last_logical)
      /\ \A u \in Threads \ {t} : call'[u] = call[u]
  BY <1>1 DEF LoadLogical, Calls
<1>5. \A u \in Threads \ {t} : call[u].pc = "idle"
  BY <1>1, <1>2 DEF Undisturbed
<1>6. Undisturbed'
  BY <1>1, <1>3, <1>4, <1>5 DEF Undisturbed
<1>7. \A u \in Threads : call[u].pc # "store" /\ call'[u].pc # "store"
  BY <1>1, <1>4, <1>5
<1>8. call'[t].next = NowNext(call[t].physical, last_wall, last_logical)
  BY <1>3, <1>4 DEF NextStamp
<1>9. Len(given) + 1 < LogicalMod =>
        Ahead(call'[t].next) /\ call'[t].next.logical <= Len(given) + 1
  <2> SUFFICES ASSUME Len(given) + 1 < LogicalMod
               PROVE  Ahead(call'[t].next) /\ call'[t].next.logical <= Len(given) + 1
    OBVIOUS
  <2>1. Len(given) < LogicalMod
    BY <1>1, GivenStamps, ClockAssumption
  <2>2. Reached /\ last_logical <= Len(given)
    BY <1>2, <1>7, <2>1 DEF Ordered
  <2> QED
    BY <1>1, <1>8, <2>2, NowIsAfter
<1>10. Ahead(call'[t].next) => Ahead(call[t].next)'
  BY <1>1 DEF Ahead, HappenedBefore
<1>11. (Increasing' <=> Increasing) /\ (Reached' <=> Reached)
  BY <1>1 DEF Increasing, Reached, HappenedBefore
<1> QED
  BY <1>1, <1>2, <1>4, <1>5, <1>6, <1>7, <1>9, <1>10, <1>11 DEF Ordered

\* Nobody has moved the wall, so the exchange succeeds.
LEMMA SwapInOrder ==
  ASSUME StrictInv, TypeOK', Alone', NEW t \in Threads, Swap(t)
  PROVE  Undisturbed' /\ Ordered'
<1>1. /\ UNCHANGED <<last_logical, given, overlapped, witnessed>>
      /\ call[t].pc = "swap" /\ call \in [Threads -> Calls]
  BY DEF Swap, StrictInv, TypeOK
<1>2. Undisturbed /\ Ordered
  BY <1>1 DEF StrictInv, Alone
<1>3. call[t].op = "now" /\ call[t].last_w = last_wall
  BY <1>1, <1>2 DEF Undisturbed
<1>4. last_wall' = call[t].next.wall /\ call' = [call EXCEPT ![t].pc = "store"]
  BY <1>3 DEF Swap
<1>5. /\ call'[t].pc = "store" /\ call'[t].op = call[t].op /\ call'[t].next = call[t].next
      /\ \A u \in Threads \ {t} : call'[u] = call[u]
  BY <1>1, <1>4 DEF Calls
<1>6. \A u \in Threads \ {t} : call[u].pc = "idle"
  BY <1>1, <1>2 DEF Undisturbed
<1>7. Undisturbed'
  BY <1>3, <1>4, <1>5, <1>6 DEF Undisturbed
<1>8. (Increasing' <=> Increasing) /\ (Ahead(call[t].next) => Ahead(call[t].next)')
  BY <1>1, <1>5 DEF Increasing, Ahead, HappenedBefore
<1> QED
  BY <1>1, <1>2, <1>5, <1>6, <1>7, <1>8 DEF Ordered

\* The call returns: its stamp comes last, and the clock's pair is that stamp.
LEMMA StoreInOrder ==
  ASSUME StrictInv, TypeOK', Alone', NEW t \in Threads, Store(t)
  PROVE  Undisturbed' /\ Ordered'
<1> DEFINE stamp == call[t].next
           entry == [by |-> t, stamp |-> stamp]
<1>1. /\ UNCHANGED <<last_wall, overlapped, witnessed>> /\ last_logical' = stamp.logical
      /\ given' = Append(given, entry) /\ call' = [call EXCEPT ![t] = Idle]
      /\ call[t].pc = "store" /\ call \in [Threads -> Calls] /\ TypeOK
  BY DEF Store, StrictInv, TypeOK
<1>2. Undisturbed /\ Ordered
  BY <1>1 DEF StrictInv, Alone
<1>3. \A u \in Threads : call'[u].pc = "idle"
  BY <1>1, <1>2 DEF Undisturbed, Idle
<1>4. Undisturbed'
  BY <1>3 DEF Undisturbed
<1>5. stamp.wall = last_wall /\ stamp \in Stamps
  BY <1>1, <1>2 DEF Undisturbed, Calls
<1>6. /\ Len(given) \in Nat /\ Len(given') = Len(given) + 1
      /\ DOMAIN given = 1..Len(given) /\ DOMAIN given' = 1..Len(given')
      /\ given'[Len(given) + 1] = entry
      /\ \A i \in DOMAIN given : given'[i] = given[i]
  <2> DEFINE Entry == [by : Threads, stamp : Stamps]
  <2>1. given \in Seq(Entry) /\ entry \in Entry
    BY <1>1, <1>5 DEF TypeOK
  <2> HIDE DEF Entry, entry
  <2> QED
    BY <1>1, <2>1
<1>7. Len(given') < LogicalMod => Increasing' /\ Reached' /\ last_logical' <= Len(given')
  <2> SUFFICES ASSUME Len(given') < LogicalMod
               PROVE  Increasing' /\ Reached' /\ last_logical' <= Len(given')
    OBVIOUS
  <2>1. Len(given) < LogicalMod /\ Len(given) + 1 < LogicalMod
    BY <1>6, ClockAssumption
  <2>2. Increasing /\ Ahead(stamp) /\ stamp.logical <= Len(given) + 1
    BY <1>1, <1>2, <2>1 DEF Ordered
  <2>3. \A i \in DOMAIN given : HappenedBefore(given'[i].stamp, stamp)
    BY <1>6, <2>2 DEF Ahead
  <2>4. given'[Len(given) + 1].stamp = stamp
    BY <1>6
  <2> HIDE DEF stamp, entry
  <2>5. Increasing'
    <3> SUFFICES ASSUME NEW i \in DOMAIN given', NEW j \in DOMAIN given', i < j
                 PROVE  HappenedBefore(given'[i].stamp, given'[j].stamp)
      BY DEF Increasing, HappenedBefore
    <3>1. i \in DOMAIN given
      BY <1>6
    <3>2. CASE j \in DOMAIN given
      BY <1>6, <2>2, <3>1, <3>2 DEF Increasing
    <3>3. CASE j = Len(given) + 1
      BY <2>3, <2>4, <3>1, <3>3
    <3> QED
      BY <1>6, <3>2, <3>3
  <2>6. Reached'
    <3> SUFFICES ASSUME NEW i \in DOMAIN given'
                 PROVE  \/ given'[i].stamp.wall < last_wall'
                        \/ /\ given'[i].stamp.wall = last_wall'
                           /\ given'[i].stamp.logical <= last_logical'
      BY DEF Reached
    <3>1. last_wall' = stamp.wall /\ last_logical' = stamp.logical /\ stamp.logical \in Nat
      BY <1>1, <1>5, ClockAssumption DEF stamp, Stamps
    <3>2. CASE i \in DOMAIN given
      <4>1. given[i].stamp \in Stamps /\ given'[i] = given[i]
        BY <1>1, <1>6, <3>2, GivenStamps
      <4>2. given'[i].stamp.logical \in Nat
        BY <4>1, ClockAssumption DEF Stamps
      <4> QED
        BY <2>3, <3>1, <3>2, <4>2 DEF HappenedBefore
    <3>3. CASE i = Len(given) + 1
      BY <2>4, <3>1, <3>3
    <3> QED
      BY <1>6, <3>2, <3>3
  <2> QED
    BY <1>1, <1>6, <2>2, <2>5, <2>6 DEF stamp
<1> QED
  BY <1>3, <1>4, <1>7 DEF Ordered

\* Every step keeps the order of calls that do not overlap.
LEMMA StrictKept == StrictInv /\ [Next]_vars => StrictInv'
<1> SUFFICES ASSUME StrictInv, [Next]_vars PROVE StrictInv'
  OBVIOUS
<1>1. TypeOK'
  BY TypeKept DEF StrictInv
<1> SUFFICES ASSUME Alone' PROVE Undisturbed' /\ Ordered'
  BY <1>1 DEF StrictInv
<1>2. CASE Tick \/ Recalibrate \/ UNCHANGED vars
  BY <1>1, <1>2, SameOrder DEF Tick, Recalibrate, vars
<1>3. ASSUME NEW t \in Threads, Step(t) PROVE Undisturbed' /\ Ordered'
  BY <1>1, <1>3, BeginInOrder, LoadWallInOrder, LoadLogicalInOrder, SwapInOrder, StoreInOrder
  DEF Step, Now, Witness
<1> QED
  BY <1>2, <1>3 DEF Next

\* As long as calls do not overlap, nothing was witnessed and the logical
\* counter has not come round, every stamp is after all the earlier ones:
\* however often the clock is recalibrated meanwhile, and however slow it ticks.
THEOREM SequentialCallsAreStrict == Spec => []StrictWhenSequential
<1>1. Init => StrictInv
  <2> SUFFICES ASSUME Init PROVE StrictInv
    OBVIOUS
  <2>1. TypeOK
    BY ClockInvInit DEF ClockInv
  <2>2. /\ given = <<>> /\ last_logical = 0 /\ \A t \in Threads : call[t].pc = "idle"
    BY DEF Init, Idle
  <2> QED
    BY <2>1, <2>2, ClockAssumption DEF StrictInv, Undisturbed, Ordered, Increasing, Reached
<1>2. StrictInv => StrictWhenSequential
  BY DEF StrictInv, Alone, Ordered, Increasing, StrictWhenSequential
<1> QED
  BY <1>1, <1>2, StrictKept, PTL DEF Spec
====
