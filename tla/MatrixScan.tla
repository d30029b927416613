----------------------------- MODULE MatrixScan -----------------------------
(***************************************************************************)
(* The matrix driver (DRIVERS/keyboard_matrix.c) and the loop over the     *)
(* changed keys in keyboard_task (TMK/keyboard.c).                         *)
(*                                                                         *)
(* A scan reads one row after the other while the contacts go on moving.   *)
(* One counter, debouncing, serves the whole matrix: any reading that      *)
(* differs from the one before restarts it, and the picture of the last    *)
(* scan becomes the matrix when it has counted down to 0.                  *)
(*                                                                         *)
(* Keys are numbered row by row.                                           *)
(***************************************************************************)
EXTENDS Integers

CONSTANTS
    Rows,       \* MATRIX_ROWS
    Cols,       \* MATRIX_COLS
    DEBOUNCE    \* 5 in the zora61 configuration

ASSUME MatrixAssumption ==
    /\ Rows \in Nat \ {0} /\ Cols \in Nat \ {0}
    /\ DEBOUNCE \in 1 .. 255                        \* debouncing is a uint8_t

NumKeys == Rows * Cols
Keys == 1 .. NumKeys
RowKeys(r) == {k \in Keys : (k - 1) \div Cols = r}

VARIABLES
    contact,            \* the contacts that are closed (environment)
    row,                \* the row matrix_scan_kb reads next
    matrix_debouncing,  \* the keys read as closed
    debouncing,
    matrix,             \* the debounced keys
    matrix_prev,        \* the keys handed to action_exec as pressed
    pos,                \* the last key handed over in this pass
    pc,                 \* "scan", "report" or "wait"
    pictures            \* history: the readings of the last DEBOUNCE scans

vars == <<contact, row, matrix_debouncing, debouncing, matrix, matrix_prev,
          pos, pc, pictures>>

Init ==
    /\ contact = {}
    /\ row = 0
    /\ matrix_debouncing = {}
    /\ debouncing = DEBOUNCE
    /\ matrix = {}
    /\ matrix_prev = {}
    /\ pos = 0
    /\ pc = "scan"
    /\ pictures = [i \in 1 .. DEBOUNCE |-> {}]

\* a contact closes, opens or bounces
Move(key) ==
    /\ contact' = (contact \cup {key}) \ (contact \cap {key})
    /\ UNCHANGED <<row, matrix_debouncing, debouncing, matrix, matrix_prev,
                   pos, pc, pictures>>

\* mutant: a running counter is not restarted
ReadRow_NoRestart ==
    /\ pc = "scan" /\ row < Rows
    /\ LET read == (matrix_debouncing \ RowKeys(row)) \cup (contact \cap RowKeys(row))
       IN  /\ matrix_debouncing' = read
           /\ debouncing' = IF read # matrix_debouncing /\ debouncing = 0
                            THEN DEBOUNCE ELSE debouncing
    /\ row' = row + 1
    /\ UNCHANGED <<contact, matrix, matrix_prev, pos, pc, pictures>>

\* mutant: a closed contact restarts the counter like a changed one
ReadRow_ClosedRestarts ==
    /\ pc = "scan" /\ row < Rows
    /\ LET read == (matrix_debouncing \ RowKeys(row)) \cup (contact \cap RowKeys(row))
       IN  /\ matrix_debouncing' = read
           /\ debouncing' = IF read # {} THEN DEBOUNCE ELSE debouncing
    /\ row' = row + 1
    /\ UNCHANGED <<contact, matrix, matrix_prev, pos, pc, pictures>>

ReadRow ==
    /\ pc = "scan" /\ row < Rows
    /\ LET read == (matrix_debouncing \ RowKeys(row)) \cup (contact \cap RowKeys(row))
       IN  /\ matrix_debouncing' = read
           /\ debouncing' = IF read # matrix_debouncing THEN DEBOUNCE ELSE debouncing
    /\ row' = row + 1
    /\ UNCHANGED <<contact, matrix, matrix_prev, pos, pc, pictures>>

\* mutant: the last row is not copied
EndScan_RowForgotten ==
    /\ pc = "scan" /\ row = Rows
    /\ debouncing' = IF debouncing = 0 THEN 0 ELSE debouncing - 1
    /\ matrix' = IF debouncing = 1 THEN matrix_debouncing \ RowKeys(Rows - 1) ELSE matrix
    /\ row' = 0
    /\ pc' = "report"
    /\ UNCHANGED <<contact, matrix_debouncing, matrix_prev, pos, pictures>>

EndScan ==
    /\ pc = "scan" /\ row = Rows
    /\ debouncing' = IF debouncing = 0 THEN 0 ELSE debouncing - 1
    /\ matrix' = IF debouncing = 1 THEN matrix_debouncing ELSE matrix
    /\ row' = 0
    /\ pc' = "report"
    /\ pictures' = [i \in 1 .. DEBOUNCE |->
                    IF i = DEBOUNCE THEN matrix_debouncing ELSE pictures[i+1]]
    /\ UNCHANGED <<contact, matrix_debouncing, matrix_prev, pos>>

Changed == (matrix \cup matrix_prev) \ (matrix \cap matrix_prev)

\* mutant: the change is not noted in matrix_prev
Report_NotNoted ==
    /\ pc = "report" /\ Changed # {}
    /\ pos' = CHOOSE k \in Changed : \A j \in Changed : k <= j
    /\ UNCHANGED <<contact, row, matrix_debouncing, debouncing, matrix,
                   matrix_prev, pc, pictures>>

\* action_exec(e): Event of Tapping
Report ==
    /\ pc = "report" /\ Changed # {}
    /\ LET key == CHOOSE k \in Changed : \A j \in Changed : k <= j
       IN  /\ matrix_prev' = (matrix_prev \cup {key}) \ (matrix_prev \cap {key})
           /\ pos' = key
    /\ UNCHANGED <<contact, row, matrix_debouncing, debouncing, matrix, pc, pictures>>

\* action_exec(TICK): Tick of Tapping
Tick ==
    /\ pc = "report" /\ Changed = {}
    /\ pos' = NumKeys + 1
    /\ pc' = "wait"
    /\ UNCHANGED <<contact, row, matrix_debouncing, debouncing, matrix,
                   matrix_prev, pictures>>

\* the thread's wait_ms, and the next keyboard_task
NextPass ==
    /\ pc = "wait"
    /\ pos' = 0
    /\ pc' = "scan"
    /\ UNCHANGED <<contact, row, matrix_debouncing, debouncing, matrix,
                   matrix_prev, pictures>>

keyboard_task == ReadRow \/ EndScan \/ Report \/ Tick \/ NextPass

Next == keyboard_task \/ \E key \in Keys : Move(key)

Spec == Init /\ [][Next]_vars

FairSpec == Spec /\ WF_vars(keyboard_task)

-----------------------------------------------------------------------------
TypeOK ==
    /\ contact \subseteq Keys
    /\ row \in 0 .. Rows
    /\ matrix_debouncing \subseteq Keys
    /\ debouncing \in 0 .. DEBOUNCE
    /\ matrix \subseteq Keys
    /\ matrix_prev \subseteq Keys
    /\ pos \in 0 .. NumKeys + 1
    /\ pc \in {"scan", "report", "wait"}
    /\ pictures \in [1 .. DEBOUNCE -> SUBSET Keys]

SE == INSTANCE ScanEvents WITH down <- matrix_prev

(* Each debounced change is handed to action_exec once, in the order of    *)
(* the matrix, with alternating directions, and every pass ends in a TICK. *)
RefinesScanEvents == SE!Spec

(* A glitch shorter than DEBOUNCE scans never reaches the matrix: when the *)
(* matrix changes, the last DEBOUNCE scans all read what it becomes.       *)
NoGlitch ==
    [][matrix' # matrix =>
          \A i \in 1 .. DEBOUNCE : pictures'[i] = matrix']_vars

(* Once the counter has run out, nothing that was read is left behind: the *)
(* matrix is the last picture, and a pass ends with every change reported. *)
NothingPending ==
    /\ debouncing = 0 => matrix = matrix_debouncing
    /\ pc = "wait" => matrix_prev = matrix

(* When the contacts come to rest, the keys reported as pressed become     *)
(* those that are closed, however long the others have been bouncing.      *)
SettlesOnContacts ==
    <>[][contact' = contact]_vars => <>[](matrix_prev = contact)
=============================================================================
