---------------------------- MODULE HybridClock ----------------------------
(***************************************************************************)
(* src/swamp-engine/src/hlc.rs: the TSC wall clock, the hybrid logical     *)
(* clock on top of it, and the profiler that stamps layers with it.        *)
(*                                                                         *)
(* HybridClock keeps last_wall and last_logical in two atomics.  now() and *)
(* witness() load both, swap last_wall by compare-exchange and store       *)
(* last_logical afterwards, so a call is five steps that other threads     *)
(* interleave with.                                                        *)
(***************************************************************************)
EXTENDS Naturals, Sequences, FiniteSets

CONSTANTS
    Threads,      \* threads that share the clock
    Profiler,     \* the thread that owns the ProfileSink
    Witnessed,    \* stamps a caller may hand to witness()
    Scales,       \* nanoseconds per tick the calibration may measure
    LogicalMod,   \* the logical counter wraps here (2^32 in the code)
    MaxTsc,       \* bound: the time-stamp counter stops here
    MaxCalls,     \* bound: calls in all
    MaxCalibrations \* bound: calibrations after the first

ASSUME ClockAssumption ==
    /\ Profiler \in Threads
    /\ MaxTsc \in Nat
    /\ Scales \subseteq Nat
    /\ LogicalMod \in Nat \ {0}
    /\ Witnessed \subseteq [wall : Nat, logical : 0..(LogicalMod - 1)]

VARIABLES
    tsc,          \* the counter rdtsc() reads
    wall_clock,   \* [scale, tsc0, monon0] of the WallClock
    last_wall,
    last_logical,
    call,         \* the call each thread is in
    given,        \* history: [by, stamp] of the calls, in the order they returned
    overlapped,   \* history: two calls were under way at once
    witnessed,    \* history: witness() was called
    calibrations,
    timing,       \* the LayerTiming begin_layer returned, till end_layer takes it
    layers        \* ProfileSink::layers: [wall_start, wall_end, elapsed_ns]

vars == <<tsc, wall_clock, last_wall, last_logical, call, given, overlapped,
          witnessed, calibrations, timing, layers>>

Zero == [wall |-> 0, logical |-> 0]
Idle == [pc |-> "idle", op |-> "now", physical |-> 0, ts |-> Zero,
         last_w |-> 0, last_l |-> 0, next |-> Zero]

HappenedBefore(a, b) ==
    a.wall < b.wall \/ (a.wall = b.wall /\ a.logical < b.logical)

NoTiming == [begun |-> FALSE, wall_start |-> Zero]

\* rdtsc() never reads below tsc0 here, so saturating_sub is subtraction.
now_ns == wall_clock.monon0 + (tsc - wall_clock.tsc0) * wall_clock.scale

Init ==
    /\ tsc = 0
    /\ wall_clock \in [scale : Scales, tsc0 : {0}, monon0 : {1}]
    /\ last_wall = 1
    /\ last_logical = 0
    /\ call = [t \in Threads |-> Idle]
    /\ given = <<>>
    /\ overlapped = FALSE
    /\ witnessed = FALSE
    /\ calibrations = 0
    /\ timing = NoTiming
    /\ layers = <<>>

Tick ==
    /\ tsc < MaxTsc
    /\ tsc' = tsc + 1
    /\ UNCHANGED <<wall_clock, last_wall, last_logical, call, given,
                   overlapped, witnessed, calibrations, timing, layers>>

\* recalibrate() takes &mut self: no call is under way, but time passes
\* (measure_scale sleeps) between the old reading and the new base.
Recalibrate ==
    /\ \A t \in Threads : call[t].pc = "idle"
    /\ calibrations < MaxCalibrations
    /\ calibrations' = calibrations + 1
    /\ \E later \in tsc..MaxTsc, scale \in Scales :
         /\ tsc' = later
         /\ wall_clock' = [scale |-> scale, tsc0 |-> later, monon0 |-> now_ns]
    /\ UNCHANGED <<last_wall, last_logical, call, given, overlapped,
                   witnessed, timing, layers>>

\* Mutant: the logical counter starts again when the wall stands still.
NowNext_Restarted(physical, last_w, last_l) ==
    IF physical >= last_w
    THEN [wall |-> physical, logical |-> 0]
    ELSE [wall |-> last_w, logical |-> (last_l + 1) % LogicalMod]

\* Mutant: the clock follows a physical time behind it.
NowNext_Behind(physical, last_w, last_l) ==
    IF physical # last_w
    THEN [wall |-> physical, logical |-> 0]
    ELSE [wall |-> last_w, logical |-> (last_l + 1) % LogicalMod]

\* The pair the code computes from what it loaded.
NowNext(physical, last_w, last_l) ==
    IF physical > last_w
    THEN [wall |-> physical, logical |-> 0]
    ELSE [wall |-> last_w, logical |-> (last_l + 1) % LogicalMod]

WitnessNextMaxed(physical, ts, last_w, last_l) ==
    IF ts.wall = physical \/ ts.wall = last_w
    THEN [wall |-> ts.wall,
          logical |-> ((IF last_l > ts.logical THEN last_l ELSE ts.logical) + 1)
                        % LogicalMod]
    ELSE [wall |-> ts.wall, logical |-> 0]

\* The branches of witness(), in the order it tries them.
WitnessNext(physical, ts, last_w, last_l) ==
    IF ts.wall > last_w /\ ts.wall > physical
    THEN [wall |-> ts.wall, logical |-> 0]
    ELSE IF physical >= last_w /\ physical >= ts.wall
    THEN [wall |-> physical, logical |-> 0]
    ELSE IF last_w >= physical /\ last_w >= ts.wall
    THEN [wall |-> last_w, logical |-> (last_l + 1) % LogicalMod]
    ELSE WitnessNextMaxed(physical, ts, last_w, last_l)

\* The call reads the physical time first, outside the loop.
Begin(t, op, ts) ==
    /\ call[t].pc = "idle"
    /\ Len(given) + Cardinality({u \in Threads : call[u].pc # "idle"}) < MaxCalls
    /\ call' = [call EXCEPT ![t] =
          [pc |-> "load_wall", op |-> op, physical |-> now_ns, ts |-> ts,
           last_w |-> 0, last_l |-> 0, next |-> Zero]]
    /\ overlapped' = (overlapped \/ \E u \in Threads \ {t} : call[u].pc # "idle")
    /\ witnessed' = (witnessed \/ op = "witness")
    /\ UNCHANGED <<tsc, wall_clock, last_wall, last_logical, given,
                   calibrations, timing, layers>>

Now(t) == Begin(t, "now", Zero)
Witness(t) == \E ts \in Witnessed : Begin(t, "witness", ts)

LoadWall(t) ==
    /\ call[t].pc = "load_wall"
    /\ call' = [call EXCEPT ![t].pc = "load_logical", ![t].last_w = last_wall]
    /\ UNCHANGED <<tsc, wall_clock, last_wall, last_logical, given,
                   overlapped, witnessed, calibrations, timing, layers>>

NextStamp(c, last_l) ==
    IF c.op = "now"
    THEN NowNext(c.physical, c.last_w, last_l)
    ELSE WitnessNext(c.physical, c.ts, c.last_w, last_l)

LoadLogical(t) ==
    /\ call[t].pc = "load_logical"
    /\ call' = [call EXCEPT ![t].pc = "swap", ![t].last_l = last_logical,
                            ![t].next = NextStamp(call[t], last_logical)]
    /\ UNCHANGED <<tsc, wall_clock, last_wall, last_logical, given,
                   overlapped, witnessed, calibrations, timing, layers>>

\* Mutant: last_wall is stored, whatever it has become.
Swap_Stored(t) ==
    /\ call[t].pc = "swap"
    /\ last_wall' = call[t].next.wall
    /\ call' = [call EXCEPT ![t].pc = "store"]
    /\ UNCHANGED <<tsc, wall_clock, last_logical, given, overlapped,
                   witnessed, calibrations, timing, layers>>

\* The exchange compares last_wall alone: a call that only moved the logical
\* counter has not changed it.
Swap(t) ==
    /\ call[t].pc = "swap"
    /\ IF last_wall = call[t].last_w
       THEN /\ last_wall' = call[t].next.wall
            /\ call' = [call EXCEPT ![t].pc = "store"]
       ELSE /\ call' = [call EXCEPT ![t].pc = "load_wall"]
            /\ UNCHANGED last_wall
    /\ UNCHANGED <<tsc, wall_clock, last_logical, given, overlapped,
                   witnessed, calibrations, timing, layers>>

\* begin_layer leaves the stamp in the LayerTiming it returns, and end_layer
\* finds it there: the profiler's calls are the one and the other by turns.
BeginLayer(start) == [begun |-> TRUE, wall_start |-> start]

\* Mutant: the end is taken from the start.
EndLayer_Swapped(start, end) ==
    [wall_start |-> start, wall_end |-> end,
     elapsed_ns |-> IF start.wall > end.wall THEN start.wall - end.wall ELSE 0]

EndLayer(start, end) ==
    [wall_start |-> start, wall_end |-> end,
     elapsed_ns |-> IF end.wall > start.wall THEN end.wall - start.wall ELSE 0]

\* What the profile makes of the stamp a call returns.
Profile(t, stamp) ==
    \/ /\ t # Profiler
       /\ UNCHANGED <<timing, layers>>
    \/ /\ t = Profiler /\ ~timing.begun
       /\ timing' = BeginLayer(stamp)
       /\ UNCHANGED layers
    \/ /\ t = Profiler /\ timing.begun
       /\ layers' = Append(layers, EndLayer(timing.wall_start, stamp))
       /\ timing' = NoTiming

Store(t) ==
    /\ call[t].pc = "store"
    /\ last_logical' = call[t].next.logical
    /\ given' = Append(given, [by |-> t, stamp |-> call[t].next])
    /\ Profile(t, call[t].next)
    /\ call' = [call EXCEPT ![t] = Idle]
    /\ UNCHANGED <<tsc, wall_clock, last_wall, overlapped, witnessed,
                   calibrations>>

\* The ProfileSink only ever calls now().
Step(t) ==
    \/ Now(t)
    \/ t # Profiler /\ Witness(t)
    \/ LoadWall(t)
    \/ LoadLogical(t)
    \/ Swap(t)
    \/ Store(t)

Next == Tick \/ Recalibrate \/ \E t \in Threads : Step(t)

Spec == Init /\ [][Next]_vars
-----------------------------------------------------------------------------
Stamps == [wall : Nat, logical : 0..(LogicalMod - 1)]

Calls == [pc : {"idle", "load_wall", "load_logical", "swap", "store"},
          op : {"now", "witness"}, physical : Nat, ts : Stamps,
          last_w : Nat, last_l : 0..(LogicalMod - 1), next : Stamps]

\* Every variable has the type its Rust field has.
TypeOK ==
    /\ tsc \in 0..MaxTsc
    /\ wall_clock \in [scale : Scales, tsc0 : 0..tsc, monon0 : Nat]
    /\ last_wall \in Nat
    /\ last_logical \in 0..(LogicalMod - 1)
    /\ call \in [Threads -> Calls]
    /\ given \in Seq([by : Threads, stamp : Stamps])
    /\ timing \in [begun : BOOLEAN, wall_start : Stamps]
    /\ layers \in Seq([wall_start : Stamps, wall_end : Stamps, elapsed_ns : Nat])

\* However the threads interleave, and whatever stamps they witness, the wall
\* component of the clock never goes back: the compare-exchange of now() and
\* witness() only ever replaces it by a value at least as large.
WallNeverBack == [][last_wall' >= last_wall]_vars

\* A call that tries again does so because another has moved the wall past what
\* it had loaded: it never loads that wall again, so that no exchange succeeds
\* on a wall that went away and came back, and a call retries at most once for
\* each value the wall takes.
RetriesClimb ==
    [][\A t \in Threads :
          call[t].pc = "swap" /\ call'[t].pc = "load_wall" =>
              call[t].last_w < last_wall]_vars

\* What now() promises ("> any previous timestamp from this clock instance")
\* holds as long as calls do not overlap, nothing was witnessed and the logical
\* counter has not come round: the way ProfileSink uses the clock.
StrictWhenSequential ==
    ~overlapped /\ ~witnessed /\ Len(given) < LogicalMod =>
        \A i, j \in DOMAIN given :
            i < j => HappenedBefore(given[i].stamp, given[j].stamp)

\* The profile is a timeline even while other threads use the clock: each layer
\* ends before the next begins, so the layers' times never add up to more than
\* the time that passed (report() sums them).
LayersAreATimeline ==
    /\ \A k \in DOMAIN layers :
          layers[k].wall_end.wall = layers[k].wall_start.wall + layers[k].elapsed_ns
    /\ \A k \in DOMAIN layers :
          k > 1 => layers[k - 1].wall_end.wall <= layers[k].wall_start.wall
=============================================================================
