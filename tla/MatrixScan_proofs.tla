-------------------------- MODULE MatrixScan_proofs --------------------------
(***************************************************************************)
(* What TLC checks of MatrixScan for two keys, proved for every matrix and *)
(* every DEBOUNCE; and that MatrixScan implements ScanEvents.              *)
(***************************************************************************)
EXTENDS MatrixScan, WellFoundedInduction, TLAPS

(* A non-empty set of keys has a first one in the order of the matrix.     *)
LEMMA FirstKeyExists ==
    ASSUME NEW S, S \subseteq Keys, S # {}
    PROVE  LET key == CHOOSE k \in S : \A j \in S : k <= j
           IN  key \in S /\ \A j \in S : key <= j
<1> DEFINE R == OpToRel(<, Nat)
<1>1. IsWellFoundedOn(R, Nat)
  BY NatLessThanWellFounded
<1>2. S \subseteq Nat
  BY MatrixAssumption, SMT DEF Keys, NumKeys
<1>3. \E n \in S : \A m \in S : <<m, n>> \notin R
  <2> HIDE DEF R
  <2> QED  BY <1>1, <1>2, WFMin, Zenon
<1>4. \A m, n \in Nat : <<m, n>> \notin R => n <= m
  BY SMT DEF OpToRel
<1> HIDE DEF R
<1>5. PICK n \in S : \A m \in S : <<m, n>> \notin R
  BY <1>3, Zenon
<1>6. \A m \in S : n <= m
  BY <1>2, <1>4, <1>5, Zenon
<1> QED  BY <1>6

LEMMA KeysAreNatural ==
    /\ NumKeys \in Nat \ {0}
    /\ \A k \in Keys : k \in Nat /\ 0 < k /\ k <= NumKeys
BY MatrixAssumption, SMT DEF Keys, NumKeys

-----------------------------------------------------------------------------
(* TypeOK                                                                  *)

LEMMA TypeInit == Init => TypeOK
BY MatrixAssumption, KeysAreNatural, SMT DEF Init, TypeOK

LEMMA ReportType ==
    ASSUME TypeOK, Report
    PROVE  TypeOK'
<1> DEFINE key == CHOOSE k \in Changed : \A j \in Changed : k <= j
<1>1. Changed \subseteq Keys /\ Changed # {}
  BY DEF TypeOK, Changed, Report
<1>2. key \in Changed
  <2> HIDE DEF key
  <2> QED  BY <1>1, FirstKeyExists DEF key
<1>3. /\ matrix_prev' = (matrix_prev \cup {key}) \ (matrix_prev \cap {key})
      /\ pos' = key
      /\ UNCHANGED <<contact, row, matrix_debouncing, debouncing, matrix, pc, pictures>>
  BY DEF Report
<1> HIDE DEF key
<1>4. key \in Keys /\ key \in 0 .. NumKeys + 1
  BY <1>1, <1>2, KeysAreNatural, SMT
<1> QED  BY <1>3, <1>4 DEF TypeOK

LEMMA TypeStep ==
    ASSUME TypeOK, [Next]_vars
    PROVE  TypeOK'
<1>1. ASSUME NEW key \in Keys, Move(key) PROVE TypeOK'
  BY <1>1 DEF Move, TypeOK
<1>2. CASE ReadRow
  <2>1. matrix_debouncing' \subseteq Keys
    BY <1>2 DEF ReadRow, TypeOK, RowKeys
  <2>2. debouncing' \in 0 .. DEBOUNCE /\ row' \in 0 .. Rows
    BY <1>2, MatrixAssumption, SMT DEF ReadRow, TypeOK
  <2> QED  BY <1>2, <2>1, <2>2 DEF ReadRow, TypeOK
<1>3. CASE EndScan
  <2>1. debouncing' \in 0 .. DEBOUNCE /\ row' \in 0 .. Rows
    BY <1>3, MatrixAssumption, SMT DEF EndScan, TypeOK
  <2>2. pictures' \in [1 .. DEBOUNCE -> SUBSET Keys]
    <3>1. \A i \in 1 .. DEBOUNCE : i # DEBOUNCE => i + 1 \in 1 .. DEBOUNCE
      BY MatrixAssumption, SMT
    <3>2. \A i \in 1 .. DEBOUNCE :
             (IF i = DEBOUNCE THEN matrix_debouncing ELSE pictures[i+1]) \in SUBSET Keys
      BY <3>1 DEF TypeOK
    <3> QED  BY <1>3, <3>2 DEF EndScan
  <2> QED  BY <1>3, <2>1, <2>2 DEF EndScan, TypeOK
<1>4. CASE Report
  BY <1>4, ReportType
<1>5. CASE Tick
  <2>1. NumKeys + 1 \in 0 .. NumKeys + 1
    BY KeysAreNatural, SMT
  <2> QED  BY <1>5, <2>1 DEF Tick, TypeOK
<1>6. CASE NextPass
  <2>1. 0 \in 0 .. NumKeys + 1
    BY KeysAreNatural, SMT
  <2> QED  BY <1>6, <2>1 DEF NextPass, TypeOK
<1>7. CASE UNCHANGED vars
  BY <1>7 DEF vars, TypeOK
<1> QED  BY <1>1, <1>2, <1>3, <1>4, <1>5, <1>6, <1>7 DEF Next, keyboard_task

(* The driver's variables keep their types for every matrix.               *)
THEOREM TypeCorrect == Spec => []TypeOK
BY TypeInit, TypeStep, PTL DEF Spec

-----------------------------------------------------------------------------
(* Debouncing                                                              *)

(* Every scan since the counter was restarted read the present picture.    *)
CalmPictures ==
    \A i \in 1 .. DEBOUNCE : i > debouncing => pictures[i] = matrix_debouncing

LEMMA CalmInit == Init => CalmPictures
BY MatrixAssumption, SMT DEF Init, CalmPictures

LEMMA CalmStep ==
    ASSUME TypeOK, CalmPictures, [Next]_vars
    PROVE  CalmPictures'
<1>1. CASE ReadRow
  <2>1. CASE matrix_debouncing' = matrix_debouncing
    BY <1>1, <2>1 DEF ReadRow, CalmPictures
  <2>2. CASE matrix_debouncing' # matrix_debouncing
    <3>1. debouncing' = DEBOUNCE
      BY <1>1, <2>2 DEF ReadRow
    <3>2. \A i \in 1 .. DEBOUNCE : ~ (i > DEBOUNCE)
      BY MatrixAssumption, SMT
    <3> QED  BY <3>1, <3>2 DEF CalmPictures
  <2> QED  BY <2>1, <2>2
<1>2. CASE EndScan
  <2> SUFFICES ASSUME NEW i \in 1 .. DEBOUNCE, i > debouncing'
               PROVE  pictures'[i] = matrix_debouncing'
    BY DEF CalmPictures
  <2>1. /\ pictures'[i] = IF i = DEBOUNCE THEN matrix_debouncing ELSE pictures[i+1]
        /\ matrix_debouncing' = matrix_debouncing
        /\ debouncing' = IF debouncing = 0 THEN 0 ELSE debouncing - 1
    BY <1>2 DEF EndScan
  <2>2. CASE i = DEBOUNCE
    BY <2>1, <2>2
  <2>3. CASE i # DEBOUNCE
    <3>1. i + 1 \in 1 .. DEBOUNCE /\ i + 1 > debouncing
      BY <2>1, <2>3, MatrixAssumption, SMT DEF TypeOK
    <3> QED  BY <2>1, <2>3, <3>1 DEF CalmPictures
  <2> QED  BY <2>2, <2>3
<1>3. CASE UNCHANGED <<matrix_debouncing, debouncing, pictures>>
  BY <1>3 DEF CalmPictures
<1> QED  BY <1>1, <1>2, <1>3 DEF Next, keyboard_task, Move, Report, Tick, NextPass, vars

(* When the matrix changes, the last DEBOUNCE scans all read what it       *)
(* becomes, also when a contact moved in the middle of a scan.             *)
THEOREM GlitchesFiltered == Spec => NoGlitch
<1>1. ASSUME TypeOK, CalmPictures, [Next]_vars
      PROVE  [matrix' # matrix =>
                \A i \in 1 .. DEBOUNCE : pictures'[i] = matrix']_vars
  <2> SUFFICES ASSUME matrix' # matrix, NEW i \in 1 .. DEBOUNCE
               PROVE  pictures'[i] = matrix'
    OBVIOUS
  <2>1. EndScan
    BY <1>1 DEF Next, keyboard_task, Move, ReadRow, Report, Tick, NextPass, vars
  <2>2. debouncing = 1 /\ matrix' = matrix_debouncing
    BY <2>1 DEF EndScan
  <2>3. pictures'[i] = IF i = DEBOUNCE THEN matrix_debouncing ELSE pictures[i+1]
    BY <2>1 DEF EndScan
  <2>4. i # DEBOUNCE => i + 1 \in 1 .. DEBOUNCE /\ i + 1 > debouncing
    BY <2>2, MatrixAssumption, SMT
  <2> QED  BY <1>1, <2>2, <2>3, <2>4 DEF CalmPictures
<1> QED  BY <1>1, TypeInit, TypeStep, CalmInit, CalmStep, PTL DEF Spec, NoGlitch

(* Nothing that was read stays behind: the matrix is the last picture once *)
(* the counter has run out, and every pass reports all that changed.       *)
THEOREM NothingLeftPending == Spec => []NothingPending
<1>1. Init => NothingPending
  BY MatrixAssumption, SMT DEF Init, NothingPending
<1>2. ASSUME TypeOK, NothingPending, [Next]_vars PROVE NothingPending'
  <2>1. CASE ReadRow
    <3>1. debouncing' = 0 => debouncing = 0 /\ matrix_debouncing' = matrix_debouncing
      BY <2>1, MatrixAssumption, SMT DEF ReadRow
    <3> QED  BY <1>2, <2>1, <3>1 DEF NothingPending, ReadRow
  <2>2. CASE EndScan
    <3>1. debouncing' = 0 => debouncing = 0 \/ debouncing = 1
      BY <1>2, <2>2, MatrixAssumption, SMT DEF EndScan, TypeOK
    <3>2. debouncing # 1 => matrix' = matrix
      BY <2>2 DEF EndScan
    <3>3. debouncing = 1 => matrix' = matrix_debouncing
      BY <2>2 DEF EndScan
    <3>4. matrix_debouncing' = matrix_debouncing /\ pc' # "wait"
      BY <2>2 DEF EndScan
    <3>5. 0 # 1
      BY SMT
    <3> QED  BY <1>2, <3>1, <3>2, <3>3, <3>4, <3>5 DEF NothingPending
  <2>3. CASE Report
    BY <1>2, <2>3 DEF NothingPending, Report
  <2>4. CASE Tick
    <3>1. matrix_prev = matrix
      BY <1>2, <2>4 DEF Tick, Changed
    <3> QED  BY <1>2, <2>4, <3>1 DEF NothingPending, Tick
  <2>5. CASE UNCHANGED <<debouncing, matrix, matrix_debouncing, matrix_prev>> /\ pc' # "wait"
    BY <1>2, <2>5 DEF NothingPending
  <2>6. CASE UNCHANGED <<debouncing, matrix, matrix_debouncing, matrix_prev, pc>>
    BY <1>2, <2>6 DEF NothingPending
  <2> QED  BY <1>2, <2>1, <2>2, <2>3, <2>4, <2>5, <2>6
           DEF Next, keyboard_task, Move, NextPass, vars
<1> QED  BY <1>1, <1>2, TypeInit, TypeStep, PTL DEF Spec

-----------------------------------------------------------------------------
(* MatrixScan implements ScanEvents                                        *)

(* The loop of keyboard_task never has to go back for a changed key.       *)
PassInv ==
    /\ pc = "scan" => pos = 0
    /\ pc = "report" => pos <= NumKeys /\ \A k \in Changed : pos < k
    /\ pc = "wait" => pos = NumKeys + 1

LEMMA PassInit == Init => PassInv
BY DEF Init, PassInv

(* A step of keyboard_task that reports a key is a report of ScanEvents,   *)
(* and leaves only later keys to report.                                   *)
LEMMA ReportStep ==
    ASSUME TypeOK, PassInv, Report
    PROVE  PassInv' /\ \E key \in Keys : SE!Report(key)
<1> DEFINE key == CHOOSE k \in Changed : \A j \in Changed : k <= j
<1>1. Changed \subseteq Keys /\ Changed # {} /\ pc = "report"
  BY DEF TypeOK, Changed, Report
<1>2. key \in Changed /\ \A j \in Changed : key <= j
  <2> HIDE DEF key
  <2> QED  BY <1>1, FirstKeyExists DEF key
<1>3. /\ matrix_prev' = (matrix_prev \cup {key}) \ (matrix_prev \cap {key})
      /\ pos' = key /\ pc' = pc /\ matrix' = matrix
  BY DEF Report
<1> HIDE DEF key
<1>4. key \in Keys /\ key <= NumKeys /\ pos < key
  BY <1>1, <1>2, KeysAreNatural DEF PassInv
<1>5. Changed' = Changed \ {key}
  BY <1>2, <1>3 DEF Changed
<1>6. \A k \in Changed' : key < k
  <2> SUFFICES ASSUME NEW k \in Changed' PROVE key < k
    OBVIOUS
  <2>1. k \in Keys /\ k # key /\ key <= k
    BY <1>1, <1>2, <1>5
  <2> QED  BY <1>4, <2>1, KeysAreNatural, SMT
<1>7. PassInv'
  BY <1>1, <1>3, <1>4, <1>6 DEF PassInv
<1>8. SE!Report(key)
  BY <1>3, <1>4 DEF SE!Report
<1> QED  BY <1>4, <1>7, <1>8

LEMMA PassStep ==
    ASSUME TypeOK, PassInv, [Next]_vars
    PROVE  PassInv' /\ [SE!Next]_(SE!vars)
<1>1. CASE Report
  <2>1. \E key \in SE!Keys : SE!Report(key)
    BY <1>1, ReportStep DEF Keys, SE!Keys
  <2> QED  BY <1>1, <2>1, ReportStep DEF SE!Next
<1>2. CASE Tick
  <2>1. PassInv'
    BY <1>2 DEF Tick, PassInv
  <2>2. SE!Tick
    BY <1>2 DEF Tick, PassInv, SE!Tick
  <2> QED  BY <2>1, <2>2 DEF SE!Next
<1>3. CASE NextPass
  <2>1. PassInv'
    BY <1>3 DEF NextPass, PassInv
  <2>2. SE!NextPass
    BY <1>3 DEF NextPass, PassInv, SE!NextPass
  <2> QED  BY <2>1, <2>2 DEF SE!Next
<1>4. CASE EndScan
  <2>1. pos = 0 /\ pos' = 0 /\ pc' = "report" /\ matrix_prev' = matrix_prev
    BY <1>4 DEF EndScan, PassInv
  <2>2. Changed' \subseteq Keys
    <3>1. TypeOK'
      BY TypeStep
    <3> QED  BY <3>1 DEF TypeOK, Changed
  <2>3. 0 <= NumKeys /\ \A k \in Changed' : 0 < k
    BY <2>2, KeysAreNatural, SMT
  <2>4. PassInv'
    BY <2>1, <2>3 DEF PassInv
  <2> QED  BY <2>1, <2>4 DEF SE!vars
<1>5. CASE UNCHANGED <<pos, matrix_prev, matrix, pc>>
  BY <1>5 DEF PassInv, Changed, SE!vars
<1> QED  BY <1>1, <1>2, <1>3, <1>4, <1>5
         DEF Next, keyboard_task, Move, ReadRow, vars

(* Every behaviour of the driver is one that the tapping engine expects:   *)
(* each change handed over once, in the order of the matrix, then a TICK.  *)
THEOREM ImplementsScanEvents == Spec => RefinesScanEvents
<1>1. Init => SE!Init
  BY DEF Init, SE!Init
<1> QED  BY <1>1, TypeInit, TypeStep, PassInit, PassStep, PTL
         DEF Spec, RefinesScanEvents, SE!Spec
=============================================================================
