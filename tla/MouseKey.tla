------------------------------- MODULE MouseKey -------------------------------
(***************************************************************************)
(* Mouse keys: TMK/mousekey.c, with its callers process_action and         *)
(* clear_keyboard (TMK/action.c) and keyboard_task (TMK/keyboard.c).       *)
(*                                                                         *)
(* The report keeps a signed speed for every axis.  A key sets the speed   *)
(* of its axis, its release clears it if it still has the sign of the key, *)
(* and mousekey_task, once in every pass of the keyboard thread, repeats   *)
(* and accelerates the movement when enough time has passed since the last *)
(* report.  Between two passes the thread waits 10 ticks, and longer when  *)
(* a pass itself waits (for a locking key, or between two scans); keys may *)
(* change at any time.  timer_read counts to TimeMod - 2 and TIMER_DIFF_16 *)
(* is modulo TimeMod: every turn of the clock looks one tick longer.       *)
(***************************************************************************)
EXTENDS Integers

CONSTANTS
    Codes,                                  \* bound: the keys there are
    MOVE_DELTA, MAX_SPEED, TIME_TO_MAX,     \* 5, 10, 20
    WHEEL_DELTA, WHEEL_MAX_SPEED, WHEEL_TIME_TO_MAX,    \* 1, 8, 40
    SPEED_MAX,                              \* 127, of the movement and the wheel
    Delay, Interval,                        \* 300 and 50 ticks
    MinPass, MaxPass,                       \* ticks from a pass to the next: 10, and more
    UINT8_MAX,                              \* 255
    TimeMod                                 \* 2^16

Axes == {"x", "y", "v", "h"}

\* the axis and the direction of each key
Move ==
    [UP |-> <<"y", -1>>, DOWN |-> <<"y", 1>>, LEFT |-> <<"x", -1>>, RIGHT |-> <<"x", 1>>,
     WH_UP |-> <<"v", 1>>, WH_DOWN |-> <<"v", -1>>,
     WH_LEFT |-> <<"h", -1>>, WH_RIGHT |-> <<"h", 1>>]
MoveCodes == {"UP", "DOWN", "LEFT", "RIGHT", "WH_UP", "WH_DOWN", "WH_LEFT", "WH_RIGHT"}
ButtonCodes == {"BTN1", "BTN2", "BTN3", "BTN4", "BTN5"}
AccelCodes == {"ACCEL0", "ACCEL1", "ACCEL2"}

\* The speeds are at least 2, so that a diagonal never rounds them to 0.
ASSUME MouseAssumption ==
    /\ Codes \subseteq MoveCodes \cup ButtonCodes \cup AccelCodes
    /\ MOVE_DELTA \in Nat /\ MAX_SPEED \in Nat /\ TIME_TO_MAX \in Nat \ {0}
    /\ WHEEL_DELTA \in Nat /\ WHEEL_MAX_SPEED \in Nat /\ WHEEL_TIME_TO_MAX \in Nat \ {0}
    /\ SPEED_MAX \in Nat /\ SPEED_MAX >= 2
    /\ MOVE_DELTA >= 2 /\ MOVE_DELTA * MAX_SPEED >= 8
    /\ MOVE_DELTA * MAX_SPEED >= 2 * TIME_TO_MAX
    /\ Delay \in Nat /\ Interval \in Nat \ {0} /\ Interval < Delay
    /\ UINT8_MAX \in Nat \ {0}
    /\ MinPass \in Nat \ {0} /\ MaxPass \in Nat /\ MinPass <= MaxPass
    /\ TimeMod \in Nat /\ TimeMod > Delay + MaxPass + 2

VARIABLES
    speed,              \* mouse_report.x, .y, .v, .h
    buttons,            \* mouse_report.buttons
    mousekey_repeat,
    mousekey_accel,
    last_timer,
    now,                \* timer_read()
    idle,               \* ticks since mousekey_task last ran
    held,               \* the keys that are down
    since,              \* history: ticks since the last report
    wanted              \* history: the direction last pressed on each axis, if
                        \* that key is still down

vars == <<speed, buttons, mousekey_repeat, mousekey_accel, last_timer, now, idle,
          held, since, wanted>>

Still == [a \in Axes |-> 0]

Init ==
    /\ speed = Still /\ buttons = {}
    /\ mousekey_repeat = 0 /\ mousekey_accel = {}
    /\ last_timer = 0 /\ now = 0 /\ idle = MinPass
    /\ held = {} /\ since = 0 /\ wanted = Still

-----------------------------------------------------------------------------
(* Speeds                                                                  *)

\* (uint8_t) of move_unit and wheel_unit: never 0, never above the maximum
InRange(unit) == IF unit > SPEED_MAX THEN SPEED_MAX ELSE IF unit = 0 THEN 1 ELSE unit

Unit(delta, max, time, repeat) ==
    InRange(IF "ACCEL0" \in mousekey_accel THEN (delta * max) \div 4
            ELSE IF "ACCEL1" \in mousekey_accel THEN (delta * max) \div 2
            ELSE IF "ACCEL2" \in mousekey_accel \/ repeat >= time THEN delta * max
            ELSE IF repeat = 0 THEN delta
            ELSE (delta * max * repeat) \div time)

move_unit(repeat) == Unit(MOVE_DELTA, MAX_SPEED, TIME_TO_MAX, repeat)
wheel_unit(repeat) == Unit(WHEEL_DELTA, WHEEL_MAX_SPEED, WHEEL_TIME_TO_MAX, repeat)

UnitOf(a, repeat) == IF a \in {"x", "y"} THEN move_unit(repeat) ELSE wheel_unit(repeat)

Sign(n) == IF n > 0 THEN 1 ELSE IF n < 0 THEN -1 ELSE 0
Moving == speed # Still

\* x *= 0.7 in an int8_t: cut off towards 0
Diagonal(n) == (n * 7) \div 10

-----------------------------------------------------------------------------
(* mousekey_send: host_mouse_send(&mouse_report) and the time of it        *)
\* mutant: the time is not taken
mousekey_send_Untimed == since' = 0 /\ UNCHANGED last_timer

mousekey_send == since' = 0 /\ last_timer' = now

mousekey_on(code) ==
    /\ speed' = IF code \in MoveCodes
                THEN LET a == Move[code][1]
                     IN  [speed EXCEPT ![a] = Move[code][2] * UnitOf(a, mousekey_repeat)]
                ELSE speed
    /\ buttons' = buttons \cup ({code} \cap ButtonCodes)
    /\ mousekey_accel' = mousekey_accel \cup ({code} \cap AccelCodes)
    /\ UNCHANGED mousekey_repeat

\* mutant: the axis is stopped whatever its direction
mousekey_off_AnyDirection(code) ==
    /\ speed' = IF code \in MoveCodes THEN [speed EXCEPT ![Move[code][1]] = 0] ELSE speed
    /\ buttons' = buttons \ {code}
    /\ mousekey_accel' = mousekey_accel \ {code}
    /\ mousekey_repeat' = IF speed' = Still THEN 0 ELSE mousekey_repeat

\* mutant: the repetitions are not reset
mousekey_off_KeepsRepeat(code) ==
    /\ speed' = IF code \in MoveCodes /\ Sign(speed[Move[code][1]]) = Move[code][2]
                THEN [speed EXCEPT ![Move[code][1]] = 0]
                ELSE speed
    /\ buttons' = buttons \ {code}
    /\ mousekey_accel' = mousekey_accel \ {code}
    /\ UNCHANGED mousekey_repeat

mousekey_off(code) ==
    /\ speed' = IF code \in MoveCodes /\ Sign(speed[Move[code][1]]) = Move[code][2]
                THEN [speed EXCEPT ![Move[code][1]] = 0]
                ELSE speed
    /\ buttons' = buttons \ {code}
    /\ mousekey_accel' = mousekey_accel \ {code}
    /\ mousekey_repeat' = IF speed' = Still THEN 0 ELSE mousekey_repeat

-----------------------------------------------------------------------------
(* process_action, clear_keyboard                                          *)

Press(code) ==
    /\ code \notin held
    /\ held' = held \cup {code}
    /\ mousekey_on(code)
    /\ mousekey_send
    /\ wanted' = IF code \in MoveCodes THEN [wanted EXCEPT ![Move[code][1]] = Move[code][2]]
                 ELSE wanted
    /\ UNCHANGED <<now, idle>>

Release(code) ==
    /\ code \in held
    /\ held' = held \ {code}
    /\ mousekey_off(code)
    /\ mousekey_send
    /\ wanted' = IF code \in MoveCodes /\ wanted[Move[code][1]] = Move[code][2]
                 THEN [wanted EXCEPT ![Move[code][1]] = 0] ELSE wanted
    /\ UNCHANGED <<now, idle>>

\* mousekey_clear and mousekey_send; the keys stay down
Clear ==
    /\ speed' = Still /\ buttons' = {}
    /\ mousekey_repeat' = 0 /\ mousekey_accel' = {}
    /\ mousekey_send
    /\ wanted' = Still
    /\ UNCHANGED <<now, idle, held>>

-----------------------------------------------------------------------------
(* mousekey_task                                                           *)

TIMER_DIFF_16(a, b) == (a - b) % TimeMod

Threshold == IF mousekey_repeat > 0 THEN Interval ELSE Delay

\* mutant: one tick too late
Due_Late == TIMER_DIFF_16(now, last_timer) > Threshold

Due == TIMER_DIFF_16(now, last_timer) >= Threshold

Repeated == IF mousekey_repeat = UINT8_MAX THEN UINT8_MAX ELSE mousekey_repeat + 1

Accelerated(a) ==
    LET unit == UnitOf(a, Repeated)
        diagonal == a \in {"x", "y"} /\ speed.x # 0 /\ speed.y # 0
    IN  Sign(speed[a]) * (IF diagonal THEN Diagonal(unit) ELSE unit)

TaskMoves ==
    /\ idle >= MinPass /\ idle' = 0
    /\ Due /\ Moving
    /\ mousekey_repeat' = Repeated
    /\ speed' = [a \in Axes |-> Accelerated(a)]
    /\ mousekey_send
    /\ UNCHANGED <<buttons, mousekey_accel, now, held, wanted>>

TaskRests ==
    /\ idle >= MinPass /\ idle' = 0
    /\ ~(Due /\ Moving)
    /\ UNCHANGED <<speed, buttons, mousekey_repeat, mousekey_accel, last_timer, now,
                   held, since, wanted>>

\* wait_ms, and the waits inside a pass: the next pass comes after MaxPass ticks at most
Tick ==
    /\ idle < MaxPass /\ idle' = idle + 1
    /\ now' = (now + 1) % (TimeMod - 1)
    /\ since' = IF since > Delay + MaxPass THEN since ELSE since + 1
    /\ UNCHANGED <<speed, buttons, mousekey_repeat, mousekey_accel, last_timer, held,
                   wanted>>

Next ==
    \/ \E code \in Codes : Press(code) \/ Release(code)
    \/ Clear
    \/ TaskMoves \/ TaskRests
    \/ Tick

Spec == Init /\ [][Next]_vars

-----------------------------------------------------------------------------
TypeOK ==
    /\ speed \in [Axes -> -SPEED_MAX .. SPEED_MAX]
    /\ buttons \subseteq ButtonCodes /\ mousekey_accel \subseteq AccelCodes
    /\ mousekey_repeat \in 0 .. UINT8_MAX
    /\ last_timer \in 0 .. TimeMod - 2 /\ now \in 0 .. TimeMod - 2
    /\ idle \in 0 .. MaxPass
    /\ held \subseteq Codes
    /\ since \in 0 .. Delay + MaxPass + 1
    /\ wanted \in [Axes -> {-1, 0, 1}]

(* The pointer moves along an axis exactly as long as the key last pressed *)
(* for it is down: it never runs on, no rounding stops it, and the release *)
(* of another key leaves it alone (mousekey.c:109-123, 150-157).           *)
MovesAsHeld == \A a \in Axes : Sign(speed[a]) = wanted[a]

(* Acceleration starts from the beginning with each movement: with all     *)
(* axes at rest the count of repetitions is 0 (mousekey.c:167).            *)
RestsSlow == ~Moving => mousekey_repeat = 0

(* A movement is repeated in the first pass after it is due, and so no     *)
(* more than the time of a pass late, whatever was sent between and        *)
(* wherever the clock has wrapped (mousekey.c:99, task_thread.c:27-31).    *)
NeverStalls == Moving => since < Threshold + idle

(* And no sooner: only the turn of the clock shortens the wait, by a tick. *)
NeverHastens ==
    [][TaskMoves => since >= Threshold - 1]_vars
=============================================================================
