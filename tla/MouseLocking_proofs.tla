------------------------- MODULE MouseLocking_proofs -------------------------
(***************************************************************************)
(* The keys of action.c whose effect builds up at the host.  What TLC      *)
(* checks of MouseKey for a few keys and a short clock, proved for every   *)
(* set of keys, every speed and every delay that MouseAssumption admits;   *)
(* and what it checks of Locking, for any set of locks.                    *)
(***************************************************************************)
EXTENDS MouseKey, HostLocks, TLAPS

-----------------------------------------------------------------------------
(* Arithmetic                                                              *)

LEMMA DivAtLeast ==
    ASSUME NEW x \in Nat, NEW t \in Nat \ {0}, NEW k \in Nat, x >= k * t
    PROVE  x \div t \in Nat /\ x \div t >= k
<1>1. x \div t \in Int /\ x % t \in 0 .. t - 1 /\ x = t * (x \div t) + (x % t)
  OBVIOUS
<1> DEFINE q == x \div t
<1>2. q >= k
  <2> HIDE DEF q
  <2>1. SUFFICES ASSUME q < k PROVE FALSE
    BY <1>1, SMT DEF q
  <2>2. q \in Int /\ q + 1 <= k
    BY <1>1, <2>1, SMT DEF q
  <2>3. t * (q + 1) <= k * t
    BY <2>2, SMT
  <2>4. x < t * (q + 1)
    BY <1>1, SMT DEF q
  <2> QED  BY <2>2, <2>3, <2>4, SMT
<1> QED  BY <1>1, <1>2, SMT

LEMMA ModSmall ==
    ASSUME NEW x \in Nat, NEW m \in Nat \ {0}, x < m
    PROVE  x % m = x /\ (x - m) % m = x
OBVIOUS

(* A key belongs to an axis and points in one of its two directions.       *)
LEMMA Directions ==
    \A code \in MoveCodes : Move[code][1] \in Axes /\ Move[code][2] \in {-1, 1}
BY DEF MoveCodes, Move, Axes

(* A movement is never slower than 2, so that a diagonal leaves at least 1 *)
(* of it; a wheel never stands still.                                      *)
LEMMA InRangeRange ==
    ASSUME NEW unit \in Nat
    PROVE  InRange(unit) \in 1 .. SPEED_MAX /\ (unit >= 2 => InRange(unit) >= 2)
BY MouseAssumption, SMT DEF InRange

LEMMA UnitRange ==
    ASSUME NEW delta \in Nat, NEW max \in Nat, NEW time \in Nat \ {0},
           NEW repeat \in Nat
    PROVE  /\ Unit(delta, max, time, repeat) \in 1 .. SPEED_MAX
           /\ delta >= 2 /\ delta * max >= 8 /\ delta * max >= 2 * time =>
                  Unit(delta, max, time, repeat) >= 2
<1> DEFINE p == delta * max
<1>1. p \in Nat /\ p * repeat \in Nat
  BY SMT
<1> HIDE DEF p
<1>2. /\ p \div 4 \in Nat /\ p \div 2 \in Nat
      /\ p >= 8 => p \div 4 >= 2 /\ p \div 2 >= 2
  BY <1>1, SMT
<1>3. (p * repeat) \div time \in Nat
  BY <1>1, DivAtLeast, SMT
<1>4. ASSUME p >= 2 * time, repeat # 0
      PROVE  (p * repeat) \div time >= 2
  <2>1. p * repeat >= 2 * time
    BY <1>1, <1>4, SMT
  <2> QED  BY <1>1, <2>1, DivAtLeast, SMT
<1>5. PICK unit \in Nat :
          /\ Unit(delta, max, time, repeat) = InRange(unit)
          /\ delta >= 2 /\ p >= 8 /\ p >= 2 * time => unit >= 2
  <2>1. CASE "ACCEL0" \in mousekey_accel
    BY <1>1, <1>2, <2>1 DEF Unit, p
  <2>2. CASE "ACCEL0" \notin mousekey_accel /\ "ACCEL1" \in mousekey_accel
    BY <1>1, <1>2, <2>2 DEF Unit, p
  <2>3. CASE "ACCEL0" \notin mousekey_accel /\ "ACCEL1" \notin mousekey_accel
    BY <1>1, <1>3, <1>4, <2>3 DEF Unit, p
  <2> QED  BY <2>1, <2>2, <2>3
<1> QED  BY <1>5, InRangeRange DEF p

LEMMA UnitOfRange ==
    ASSUME NEW a \in Axes, NEW repeat \in Nat
    PROVE  /\ UnitOf(a, repeat) \in 1 .. SPEED_MAX
           /\ a \in {"x", "y"} => UnitOf(a, repeat) >= 2
<1>1. /\ MOVE_DELTA \in Nat /\ MAX_SPEED \in Nat /\ TIME_TO_MAX \in Nat \ {0}
      /\ MOVE_DELTA >= 2 /\ MOVE_DELTA * MAX_SPEED >= 8
      /\ MOVE_DELTA * MAX_SPEED >= 2 * TIME_TO_MAX
      /\ WHEEL_DELTA \in Nat /\ WHEEL_MAX_SPEED \in Nat /\ WHEEL_TIME_TO_MAX \in Nat \ {0}
  BY MouseAssumption DEF MouseAssumption
<1>2. move_unit(repeat) \in 1 .. SPEED_MAX /\ move_unit(repeat) >= 2
  BY <1>1, UnitRange, Zenon DEF move_unit
<1>3. wheel_unit(repeat) \in 1 .. SPEED_MAX
  BY <1>1, UnitRange, Zenon DEF wheel_unit
<1> QED  BY <1>2, <1>3 DEF UnitOf

-----------------------------------------------------------------------------
(* Types and directions                                                    *)

LEMMA TypeInit == Init => TypeOK /\ MovesAsHeld
<1> SUFFICES ASSUME Init PROVE TypeOK /\ MovesAsHeld
  OBVIOUS
<1>1. /\ 0 \in -SPEED_MAX .. SPEED_MAX /\ 0 \in 0 .. TimeMod - 2
      /\ 0 \in 0 .. UINT8_MAX /\ 0 \in 0 .. Delay + MaxPass + 1
      /\ MinPass \in 0 .. MaxPass
  BY MouseAssumption, SMT DEF MouseAssumption
<1>2. TypeOK
  BY <1>1 DEF Init, TypeOK, Still
<1>3. MovesAsHeld
  BY SMT DEF Init, MovesAsHeld, Still, Sign
<1> QED  BY <1>2, <1>3

LEMMA PressMoves ==
    ASSUME TypeOK, MovesAsHeld, NEW code \in Codes, Press(code)
    PROVE  TypeOK' /\ MovesAsHeld'
<1>1. CASE code \in MoveCodes
  <2> DEFINE a == Move[code][1]
             d == Move[code][2]
             unit == UnitOf(a, mousekey_repeat)
  <2>1. a \in Axes /\ d \in {-1, 1}
    BY <1>1, Directions
  <2>2. unit \in 1 .. SPEED_MAX
    BY <2>1, UnitOfRange DEF TypeOK
  <2>3. /\ speed' = [speed EXCEPT ![a] = d * unit]
        /\ wanted' = [wanted EXCEPT ![a] = d]
        /\ held' = held \cup {code}
        /\ buttons' = buttons \cup ({code} \cap ButtonCodes)
        /\ mousekey_accel' = mousekey_accel \cup ({code} \cap AccelCodes)
        /\ since' = 0 /\ last_timer' = now
        /\ UNCHANGED <<mousekey_repeat, now, idle>>
    BY <1>1 DEF Press, mousekey_on, mousekey_send
  <2> HIDE DEF a, d, unit
  <2>4. d * unit \in -SPEED_MAX .. SPEED_MAX /\ Sign(d * unit) = d
    BY <2>1, <2>2, MouseAssumption, SMT DEF Sign
  <2>5. TypeOK'
    BY <2>1, <2>3, <2>4, MouseAssumption, SMT DEF TypeOK
  <2>6. MovesAsHeld'
    BY <2>1, <2>3, <2>4 DEF TypeOK, MovesAsHeld
  <2> QED  BY <2>5, <2>6
<1>2. CASE code \notin MoveCodes
  <2>1. /\ speed' = speed /\ wanted' = wanted
        /\ held' = held \cup {code}
        /\ buttons' = buttons \cup ({code} \cap ButtonCodes)
        /\ mousekey_accel' = mousekey_accel \cup ({code} \cap AccelCodes)
        /\ since' = 0 /\ last_timer' = now
        /\ UNCHANGED <<mousekey_repeat, now, idle>>
    BY <1>2 DEF Press, mousekey_on, mousekey_send
  <2>2. TypeOK'
    BY <2>1, MouseAssumption, SMT DEF TypeOK
  <2> QED  BY <2>1, <2>2 DEF MovesAsHeld
<1> QED  BY <1>1, <1>2

LEMMA ReleaseMoves ==
    ASSUME TypeOK, MovesAsHeld, NEW code \in Codes, Release(code)
    PROVE  TypeOK' /\ MovesAsHeld'
<1>1. /\ held' = held \ {code}
      /\ buttons' = buttons \ {code}
      /\ mousekey_accel' = mousekey_accel \ {code}
      /\ mousekey_repeat' = IF speed' = Still THEN 0 ELSE mousekey_repeat
      /\ since' = 0 /\ last_timer' = now
      /\ UNCHANGED <<now, idle>>
  BY DEF Release, mousekey_off, mousekey_send
<1>2. mousekey_repeat' \in 0 .. UINT8_MAX
  BY <1>1, MouseAssumption, SMT DEF TypeOK
<1>3. CASE code \in MoveCodes /\ Sign(speed[Move[code][1]]) = Move[code][2]
  <2> DEFINE a == Move[code][1]
  <2>1. a \in Axes
    BY <1>3, Directions
  <2>2. /\ speed' = [speed EXCEPT ![a] = 0]
        /\ wanted' = [wanted EXCEPT ![a] = 0]
    BY <1>3, <2>1 DEF Release, mousekey_off, MovesAsHeld
  <2> HIDE DEF a
  <2>3. TypeOK'
    BY <1>1, <1>2, <2>1, <2>2, MouseAssumption, SMT DEF TypeOK
  <2>4. MovesAsHeld'
    BY <2>1, <2>2, SMT DEF TypeOK, MovesAsHeld, Sign
  <2> QED  BY <2>3, <2>4
<1>4. CASE ~(code \in MoveCodes /\ Sign(speed[Move[code][1]]) = Move[code][2])
  <2>1. speed' = speed /\ wanted' = wanted
    BY <1>4, Directions DEF Release, mousekey_off, MovesAsHeld
  <2>2. TypeOK'
    BY <1>1, <1>2, <2>1, MouseAssumption, SMT DEF TypeOK
  <2> QED  BY <2>1, <2>2 DEF MovesAsHeld
<1> QED  BY <1>3, <1>4

LEMMA ClearMoves ==
    ASSUME TypeOK, MovesAsHeld, Clear
    PROVE  TypeOK' /\ MovesAsHeld'
BY MouseAssumption, SMT DEF Clear, mousekey_send, TypeOK, MovesAsHeld, Still, Sign

(* The accelerated speed of an axis has the sign of the old one.           *)
LEMMA AcceleratedRange ==
    ASSUME TypeOK, NEW a \in Axes
    PROVE  /\ Accelerated(a) \in -SPEED_MAX .. SPEED_MAX
           /\ Sign(Accelerated(a)) = Sign(speed[a])
<1> DEFINE unit == UnitOf(a, Repeated)
           n == IF a \in {"x", "y"} /\ speed.x # 0 /\ speed.y # 0
                THEN Diagonal(unit) ELSE unit
<1>1. Repeated \in Nat
  BY MouseAssumption, SMT DEF TypeOK, Repeated
<1>2. unit \in 1 .. SPEED_MAX /\ (a \in {"x", "y"} => unit >= 2)
  BY <1>1, UnitOfRange
<1>3. Accelerated(a) = Sign(speed[a]) * n
  BY DEF Accelerated
<1> HIDE DEF unit
<1>4. n \in 1 .. SPEED_MAX
  BY <1>2, MouseAssumption, SMT DEF Diagonal
<1> HIDE DEF n
<1>5. Sign(speed[a]) \in {-1, 0, 1}
  BY DEF Sign
<1> QED  BY <1>3, <1>4, <1>5, MouseAssumption, SMT DEF Sign

LEMMA TaskMovesMoves ==
    ASSUME TypeOK, MovesAsHeld, TaskMoves
    PROVE  TypeOK' /\ MovesAsHeld'
<1>1. /\ idle' = 0
      /\ mousekey_repeat' = Repeated
      /\ speed' = [a \in Axes |-> Accelerated(a)]
      /\ since' = 0 /\ last_timer' = now
      /\ UNCHANGED <<buttons, mousekey_accel, now, held, wanted>>
  BY DEF TaskMoves, mousekey_send
<1>2. Repeated \in 0 .. UINT8_MAX
  BY MouseAssumption, SMT DEF TypeOK, Repeated
<1>3. /\ speed' \in [Axes -> -SPEED_MAX .. SPEED_MAX] /\ 0 \in 0 .. MaxPass
      /\ 0 \in 0 .. Delay + MaxPass + 1
  BY <1>1, AcceleratedRange, MouseAssumption, SMT DEF MouseAssumption
<1>4. TypeOK'
  BY <1>1, <1>2, <1>3 DEF TypeOK
<1>5. MovesAsHeld'
  BY <1>1, AcceleratedRange DEF MovesAsHeld
<1> QED  BY <1>4, <1>5

LEMMA TickMoves ==
    ASSUME TypeOK, MovesAsHeld, Tick
    PROVE  TypeOK' /\ MovesAsHeld'
<1>1. now' \in 0 .. TimeMod - 2
  BY MouseAssumption, SMT DEF MouseAssumption, Tick, TypeOK
<1>2. since' \in 0 .. Delay + MaxPass + 1 /\ idle' \in 0 .. MaxPass
  BY MouseAssumption, SMT DEF MouseAssumption, Tick, TypeOK
<1>3. TypeOK'
  BY <1>1, <1>2 DEF Tick, TypeOK
<1> QED  BY <1>3 DEF Tick, MovesAsHeld

LEMMA TypeStep ==
    ASSUME TypeOK, MovesAsHeld, [Next]_vars
    PROVE  TypeOK' /\ MovesAsHeld'
<1>1. CASE \E code \in Codes : Press(code) \/ Release(code)
  BY <1>1, PressMoves, ReleaseMoves
<1>2. CASE Clear
  BY <1>2, ClearMoves
<1>3. CASE TaskMoves
  BY <1>3, TaskMovesMoves
<1>4. CASE TaskRests
  <2>1. 0 \in 0 .. MaxPass
    BY MouseAssumption, SMT DEF MouseAssumption
  <2> QED  BY <1>4, <2>1 DEF TaskRests, TypeOK, MovesAsHeld
<1>5. CASE Tick
  BY <1>5, TickMoves
<1>6. CASE UNCHANGED vars
  BY <1>6 DEF vars, TypeOK, MovesAsHeld
<1> QED  BY <1>1, <1>2, <1>3, <1>4, <1>5, <1>6 DEF Next

(* The speeds stay in the range of an int8_t, mousekey_repeat in that of   *)
(* its byte, whatever is pressed and however long it is held.              *)
THEOREM TypeCorrect == Spec => []TypeOK
<1>1. Init => TypeOK /\ MovesAsHeld
  BY TypeInit
<1>2. TypeOK /\ MovesAsHeld /\ [Next]_vars => TypeOK' /\ MovesAsHeld'
  BY TypeStep
<1> QED  BY <1>1, <1>2, PTL DEF Spec

(* The pointer moves along an axis exactly as long as the key last pressed *)
(* for it is down.                                                         *)
THEOREM FollowsTheKeys == Spec => []MovesAsHeld
<1>1. Init => TypeOK /\ MovesAsHeld
  BY TypeInit
<1>2. TypeOK /\ MovesAsHeld /\ [Next]_vars => TypeOK' /\ MovesAsHeld'
  BY TypeStep
<1> QED  BY <1>1, <1>2, PTL DEF Spec

-----------------------------------------------------------------------------
(* Repetition                                                              *)

(* The clock shows how long ago the last report was, for as long as the    *)
(* pass that repeats it may have to wait.                                  *)
Clock ==
    since <= Delay + MaxPass =>
        now = IF last_timer + since < TimeMod - 1 THEN last_timer + since
              ELSE last_timer + since - (TimeMod - 1)

Timing == TypeOK /\ MovesAsHeld /\ RestsSlow /\ Clock /\ NeverStalls

(* The time that TIMER_DIFF_16 measures is right, or a tick too long if    *)
(* the clock has turned in between.                                        *)
LEMMA Elapsed ==
    ASSUME TypeOK, Clock, since <= Delay + MaxPass
    PROVE  TIMER_DIFF_16(now, last_timer) \in {since, since + 1}
<1>1. /\ last_timer \in Nat /\ since \in Nat /\ Delay \in Nat /\ MaxPass \in Nat
      /\ TimeMod \in Nat \ {0} /\ TimeMod > Delay + MaxPass + 2
  BY MouseAssumption, SMT DEF MouseAssumption, TypeOK
<1>2. CASE last_timer + since < TimeMod - 1
  <2>1. now - last_timer = since /\ since < TimeMod
    BY <1>1, <1>2, SMT DEF Clock
  <2>2. since % TimeMod = since
    BY <1>1, <2>1, ModSmall
  <2> QED  BY <2>1, <2>2 DEF TIMER_DIFF_16
<1>3. CASE ~(last_timer + since < TimeMod - 1)
  <2>1. now - last_timer = (since + 1) - TimeMod /\ since + 1 < TimeMod
    BY <1>1, <1>3, SMT DEF Clock
  <2>2. ((since + 1) - TimeMod) % TimeMod = since + 1
    BY <1>1, <2>1, ModSmall
  <2> QED  BY <2>1, <2>2 DEF TIMER_DIFF_16
<1> QED  BY <1>2, <1>3

LEMMA ThresholdRange ==
    /\ Threshold \in Nat \ {0} /\ Threshold <= Delay
BY MouseAssumption, SMT DEF MouseAssumption, Threshold

(* A report just sent sets the clock.                                      *)
LEMMA JustSent ==
    ASSUME TypeOK, TypeOK', mousekey_send, now' = now
    PROVE  Clock' /\ NeverStalls'
<1>1. /\ since' = 0 /\ last_timer' = now' /\ now' \in 0 .. TimeMod - 2
      /\ idle' \in 0 .. MaxPass
  BY DEF mousekey_send, TypeOK
<1>2. Threshold' \in Nat \ {0}
  BY MouseAssumption, SMT DEF MouseAssumption, Threshold
<1>3. Clock'
  BY <1>1, MouseAssumption, SMT DEF MouseAssumption, Clock
<1>4. since' < Threshold' + idle'
  <2>1. \A t \in Nat \ {0}, i \in Nat : 0 < t + i
    OBVIOUS
  <2>2. idle' \in Nat
    BY <1>1, MouseAssumption, SMT DEF MouseAssumption
  <2> QED  BY <1>1, <1>2, <2>1, <2>2, Zenon
<1>5. NeverStalls'
  BY <1>4 DEF NeverStalls
<1> QED  BY <1>3, <1>5

LEMMA TimingInit == Init => Timing
<1> SUFFICES ASSUME Init PROVE Timing
  OBVIOUS
<1>1. TypeOK /\ MovesAsHeld
  BY TypeInit
<1>2. RestsSlow /\ NeverStalls
  BY DEF Init, RestsSlow, NeverStalls, Moving
<1>3. Clock
  BY MouseAssumption, SMT DEF MouseAssumption, Init, Clock
<1> QED  BY <1>1, <1>2, <1>3 DEF Timing

(* The pointer moves when a direction is wanted.                           *)
LEMMA MovingIsWanted ==
    ASSUME NEW s \in [Axes -> -SPEED_MAX .. SPEED_MAX], NEW w,
           \A a \in Axes : Sign(s[a]) = w[a]
    PROVE  s # Still <=> \E a \in Axes : w[a] # 0
<1>1. \A a \in Axes : s[a] \in Int
  BY MouseAssumption, SMT DEF MouseAssumption
<1>2. \A n \in Int : Sign(n) = 0 <=> n = 0
  BY SMT DEF Sign
<1>3. s = Still <=> \A a \in Axes : s[a] = 0
  BY DEF Still
<1> QED  BY <1>1, <1>2, <1>3

LEMMA PressTiming ==
    ASSUME Timing, NEW code \in Codes, Press(code)
    PROVE  Timing'
<1>1. TypeOK' /\ MovesAsHeld'
  BY PressMoves DEF Timing
<1>2. Clock' /\ NeverStalls'
  BY <1>1, JustSent DEF Timing, Press
<1>3. RestsSlow'
  <2>1. ASSUME Moving PROVE Moving'
    <3>1. PICK a \in Axes : wanted[a] # 0
      BY <2>1, MovingIsWanted DEF Timing, TypeOK, MovesAsHeld, Moving
    <3>2. wanted'[a] # 0
      <4>1. CASE code \in MoveCodes
        BY <3>1, <4>1, Directions, SMT DEF Press, Timing, TypeOK
      <4>2. CASE code \notin MoveCodes
        BY <3>1, <4>2 DEF Press
      <4> QED  BY <4>1, <4>2
    <3> QED  BY <1>1, <3>2, MovingIsWanted DEF TypeOK, MovesAsHeld, Moving
  <2> QED  BY <2>1 DEF Timing, RestsSlow, Press, mousekey_on
<1> QED  BY <1>1, <1>2, <1>3 DEF Timing

LEMMA ReleaseTiming ==
    ASSUME Timing, NEW code \in Codes, Release(code)
    PROVE  Timing'
<1>1. TypeOK' /\ MovesAsHeld'
  BY ReleaseMoves DEF Timing
<1>2. Clock' /\ NeverStalls'
  BY <1>1, JustSent DEF Timing, Release
<1>3. RestsSlow'
  BY DEF RestsSlow, Moving, Release, mousekey_off
<1> QED  BY <1>1, <1>2, <1>3 DEF Timing

LEMMA ClearTiming ==
    ASSUME Timing, Clear
    PROVE  Timing'
<1>1. TypeOK' /\ MovesAsHeld'
  BY ClearMoves DEF Timing
<1>2. Clock' /\ NeverStalls'
  BY <1>1, JustSent DEF Timing, Clear
<1>3. RestsSlow'
  BY DEF RestsSlow, Moving, Clear
<1> QED  BY <1>1, <1>2, <1>3 DEF Timing

LEMMA TaskMovesTiming ==
    ASSUME Timing, TaskMoves
    PROVE  Timing'
<1>1. TypeOK' /\ MovesAsHeld'
  BY TaskMovesMoves DEF Timing
<1>2. Clock' /\ NeverStalls'
  BY <1>1, JustSent DEF Timing, TaskMoves
<1>3. RestsSlow'
  <2>1. PICK a \in Axes : wanted[a] # 0
    BY MovingIsWanted DEF Timing, TypeOK, MovesAsHeld, Moving, TaskMoves
  <2>2. wanted' = wanted
    BY DEF TaskMoves
  <2> QED  BY <1>1, <2>1, <2>2, MovingIsWanted DEF TypeOK, MovesAsHeld, RestsSlow, Moving
<1> QED  BY <1>1, <1>2, <1>3 DEF Timing

LEMMA TaskRestsTiming ==
    ASSUME Timing, TaskRests
    PROVE  Timing'
<1>1. UNCHANGED <<speed, buttons, mousekey_repeat, mousekey_accel, last_timer, now,
                  held, since, wanted>> /\ idle' = 0 /\ ~(Due /\ Moving)
  BY DEF TaskRests
<1>2. TypeOK' /\ MovesAsHeld' /\ RestsSlow' /\ Clock'
  BY <1>1, MouseAssumption, SMT
     DEF MouseAssumption, Timing, TypeOK, MovesAsHeld, RestsSlow, Clock, Moving
<1>3. ASSUME Moving PROVE since < Threshold
  <2>1. /\ since < Threshold + idle /\ Threshold \in Nat /\ Threshold <= Delay
        /\ since \in Nat /\ idle \in 0 .. MaxPass /\ MaxPass \in Nat /\ Delay \in Nat
    BY <1>3, ThresholdRange, MouseAssumption, SMT DEF MouseAssumption, Timing, NeverStalls, TypeOK
  <2>2. TIMER_DIFF_16(now, last_timer) \in {since, since + 1}
    BY <2>1, Elapsed, SMT DEF Timing
  <2>3. ~(TIMER_DIFF_16(now, last_timer) >= Threshold)
    BY <1>1, <1>3 DEF Due
  <2> QED  BY <2>1, <2>2, <2>3, SMT
<1>4. NeverStalls'
  BY <1>1, <1>3, ThresholdRange, MouseAssumption, SMT
     DEF MouseAssumption, NeverStalls, Moving, Threshold, Timing, TypeOK
<1> QED  BY <1>2, <1>4 DEF Timing

LEMMA TickTiming ==
    ASSUME Timing, Tick
    PROVE  Timing'
<1>1. TypeOK' /\ MovesAsHeld'
  BY TickMoves DEF Timing
<1>2. /\ idle' = idle + 1
      /\ since' = IF since > Delay + MaxPass THEN since ELSE since + 1
      /\ now' = (now + 1) % (TimeMod - 1)
      /\ UNCHANGED <<speed, mousekey_repeat, last_timer>>
  BY DEF Tick
<1>3. RestsSlow'
  BY <1>2 DEF Timing, RestsSlow, Moving
<1>4. NeverStalls'
  <2>1. Threshold' = Threshold /\ (Moving' <=> Moving)
    BY <1>2 DEF Threshold, Moving
  <2>2. ASSUME Moving PROVE since' < Threshold + idle'
    <3>1. since < Threshold + idle
      BY <2>2 DEF Timing, NeverStalls
    <3> QED  BY <1>2, <3>1, ThresholdRange, MouseAssumption, SMT
             DEF MouseAssumption, Timing, TypeOK
  <2> QED  BY <2>1, <2>2 DEF NeverStalls
<1>5. Clock'
  <2> DEFINE m == TimeMod - 1
  <2>1. SUFFICES ASSUME since' <= Delay + MaxPass
        PROVE  now' = IF last_timer + since' < m THEN last_timer + since'
                      ELSE last_timer + since' - m
    BY <1>2 DEF Clock
  <2>2. /\ since \in Nat /\ since' = since + 1 /\ since <= Delay + MaxPass
        /\ last_timer \in 0 .. m - 1 /\ now \in 0 .. m - 1
        /\ m \in Nat \ {0} /\ m > Delay + MaxPass + 1
        /\ Delay \in Nat /\ MaxPass \in Nat
    BY <1>2, <2>1, MouseAssumption, SMT DEF MouseAssumption, Timing, TypeOK
  <2>3. now = IF last_timer + since < m THEN last_timer + since ELSE last_timer + since - m
    BY <2>2 DEF Timing, Clock
  <2> HIDE DEF m
  <2>4. CASE now + 1 < m
    <3>1. (now + 1) % m = now + 1
      BY <2>2, <2>4, ModSmall, SMT
    <3> QED  BY <1>2, <2>2, <2>3, <2>4, <3>1, SMT DEF m
  <2>5. CASE now + 1 = m
    <3>1. (now + 1) % m = 0
      BY <2>2, <2>5, SMT
    <3> QED  BY <1>2, <2>2, <2>3, <2>5, <3>1, SMT DEF m
  <2> QED  BY <2>2, <2>4, <2>5, SMT
<1> QED  BY <1>1, <1>3, <1>4, <1>5 DEF Timing

LEMMA TimingStep ==
    ASSUME Timing, [Next]_vars
    PROVE  Timing'
<1>1. CASE \E code \in Codes : Press(code) \/ Release(code)
  BY <1>1, PressTiming, ReleaseTiming
<1>2. CASE Clear
  BY <1>2, ClearTiming
<1>3. CASE TaskMoves
  BY <1>3, TaskMovesTiming
<1>4. CASE TaskRests
  BY <1>4, TaskRestsTiming
<1>5. CASE Tick
  BY <1>5, TickTiming
<1>6. CASE UNCHANGED vars
  BY <1>6 DEF vars, Timing, TypeOK, MovesAsHeld, RestsSlow, Clock, NeverStalls,
              Moving, Threshold
<1> QED  BY <1>1, <1>2, <1>3, <1>4, <1>5, <1>6 DEF Next

(* Acceleration starts from the beginning with each movement.              *)
THEOREM StartsSlow == Spec => []RestsSlow
<1>1. Timing /\ [Next]_vars => Timing'
  BY TimingStep
<1>2. Timing => RestsSlow
  BY DEF Timing
<1> QED  BY TimingInit, <1>1, <1>2, PTL DEF Spec

(* A movement is repeated in the first pass after it is due, wherever the  *)
(* clock wraps and whatever the time between the passes.                   *)
THEOREM RepeatsInTime == Spec => []NeverStalls
<1>1. Timing /\ [Next]_vars => Timing'
  BY TimingStep
<1>2. Timing => NeverStalls
  BY DEF Timing
<1> QED  BY TimingInit, <1>1, <1>2, PTL DEF Spec

(* And never before it is due, but for the tick the clock skips.           *)
THEOREM RepeatsNoSooner == Spec => NeverHastens
<1>1. Timing /\ [Next]_vars => Timing'
  BY TimingStep
<1>2. Timing /\ [Next]_vars => [TaskMoves => since >= Threshold - 1]_vars
  <2> SUFFICES ASSUME Timing, TaskMoves PROVE since >= Threshold - 1
    OBVIOUS
  <2>1. /\ Threshold \in Nat /\ Threshold <= Delay /\ since \in Nat /\ Delay \in Nat
        /\ MaxPass \in Nat
    BY ThresholdRange, MouseAssumption, SMT DEF MouseAssumption, Timing, TypeOK
  <2>2. CASE since <= Delay + MaxPass
    <3>1. TIMER_DIFF_16(now, last_timer) \in {since, since + 1}
      BY <2>2, Elapsed DEF Timing
    <3>2. TIMER_DIFF_16(now, last_timer) >= Threshold
      BY DEF TaskMoves, Due
    <3> QED  BY <2>1, <3>1, <3>2, SMT
  <2>3. CASE ~(since <= Delay + MaxPass)
    BY <2>1, <2>3, SMT
  <2> QED  BY <2>2, <2>3
<1> QED  BY TimingInit, <1>1, <1>2, PTL DEF Spec, NeverHastens

-----------------------------------------------------------------------------
(* Locking keys                                                            *)

VARIABLES down, plain, call         \* those of Locking beside HostLocks

K == INSTANCE Locking

(* The locks the host has still to change are the keys that are in the     *)
(* report and that it has not seen.                                        *)
Pending == clear => expected = K!Toggled(on, report \ seen)

LEMMA PendingInit == K!Init => Pending
BY DEF K!Init, Pending, K!Toggled

LEMMA PendingStep == Pending /\ [K!Next]_(K!vars) => Pending'
<1> SUFFICES ASSUME Pending, [K!Next]_(K!vars) PROVE Pending'
  OBVIOUS
<1>type. ASSUME NEW c \in Locks, K!Type(c) PROVE Pending'
  <2>1. CASE report = seen
    BY <1>type, <2>1 DEF Pending, K!Type, K!Toggled
  <2>2. CASE report # seen /\ clear'
    <3>1. clear /\ c \notin report /\ c \notin seen /\ on' = on /\ seen' = seen
      BY <1>type, <2>2 DEF K!Type
    <3>2. report' \ seen' = (report \ seen) \cup {c}
      BY <1>type, <3>1 DEF K!Type
    <3>3. expected' = K!Toggled(K!Toggled(on, report \ seen), {c})
      BY <1>type, <2>2, <3>1 DEF K!Type, Pending
    <3> QED BY <3>1, <3>2, <3>3 DEF Pending, K!Toggled
  <2>3. CASE ~clear'
    BY <2>3 DEF Pending
  <2> QED BY <2>1, <2>2, <2>3
<1>1. ASSUME NEW c \in Locks, K!Press(c) PROVE Pending'
  BY <1>1, <1>type DEF K!Press, K!Ignore, Pending, K!Toggled
<1>2. ASSUME NEW c \in Locks, K!Release(c) PROVE Pending'
  BY <1>2, <1>type DEF K!Release, K!Ignore, Pending, K!Toggled
<1>3. ASSUME NEW c \in Locks, K!Plain(c) PROVE Pending'
  BY <1>3 DEF K!Plain, Pending
<1>4. CASE K!EndWait
  BY <1>4 DEF K!EndWait, Pending, K!Toggled
<1>5. CASE K!HostLooks
  BY <1>5 DEF K!HostLooks, K!Look, Pending, K!Toggled
<1>6. CASE UNCHANGED K!vars
  BY <1>6 DEF K!vars, Pending, K!Toggled
<1> QED BY <1>1, <1>2, <1>3, <1>4, <1>5, <1>6 DEF K!Next

(* What a locking key types changes its lock at the host exactly once.     *)
THEOREM LocksFollow == K!Spec => []TypedOnce
<1>1. Pending => TypedOnce
  BY DEF Pending, TypedOnce, K!Toggled
<1> QED BY <1>1, PendingInit, PendingStep, PTL DEF K!Spec
=============================================================================
