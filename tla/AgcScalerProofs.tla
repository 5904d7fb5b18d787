-------------------------- MODULE AgcScalerProofs --------------------------
(***************************************************************************)
(* Machine-checked facts about AgcScaler: the accounting of machine cycles *)
(* for every instruction mix, every pattern of stolen cycles and every     *)
(* choice of the counter and delay constants.                              *)
(***************************************************************************)
EXTENDS AgcScaler, FiniteSetTheorems, TLAPS

(* How many thirds may be outstanding at each stage.  A step starts from   *)
(* at most 82 (79 and the unserviced MCT of an interrupt entry), passes at *)
(* most five MCTs before its second ready point, and never steals more     *)
(* than four.                                                              *)
Backlog ==
  /\ stage = "idle" => scaler_mcts <= 82 /\ deferred = 0 /\ delay = 0
  /\ stage = "commit" => scaler_mcts <= 79 /\ deferred = 0 /\ delay = 0
  /\ stage = "enter" => scaler_mcts + 3 * deferred <= 82 /\ delay = 0
  /\ stage \in {"fetch", "execute"} => scaler_mcts + 3 * deferred <= 94
  /\ stage \in {"fetch", "execute"} /\ delay > 0 =>
       deferred = 0 /\ scaler_mcts <= 14 /\ delay <= 4

ClockTypes ==
  /\ cycles \in Nat /\ ticks \in Nat /\ scaler_mcts \in Nat
  /\ deferred \in Nat /\ delay \in Nat
  /\ stage \in Stages
  /\ downrupt_due \in Nat \cup {None}

ClockInv == ClockTypes /\ Backlog /\ Conserved /\ DueAhead

(* A tick increments at most three counters.                               *)
LEMMA AtMostThree ==
  ASSUME NEW p
  PROVE  Cardinality(Incremented(p)) \in Nat /\ Cardinality(Incremented(p)) <= 3
<1>1. IsFiniteSet(1 .. 3) /\ Cardinality(1 .. 3) = 3
  <2>1. 1 \in Int /\ 3 \in Int
    OBVIOUS
  <2>2. /\ IsFiniteSet(1 .. 3)
        /\ Cardinality(1 .. 3) = IF 1 > 3 THEN 0 ELSE 3 - 1 + 1
    BY <2>1, FS_Interval, Zenon
  <2>3. QED
    BY <2>2
<1>2. ASSUME NEW S, S \subseteq 1 .. 3
      PROVE  Cardinality(S) \in Nat /\ Cardinality(S) <= 3
  <2>1. S \in SUBSET (1 .. 3)
    BY <1>2
  <2>2. IsFiniteSet(S) /\ Cardinality(S) <= Cardinality(1 .. 3)
    BY <1>1, <2>1, FS_Subset, Zenon
  <2>3. Cardinality(S) \in Nat
    BY <2>2, FS_CardinalityType, Zenon
  <2>4. QED
    BY <1>1, <2>2, <2>3
<1>3. \A t : Cardinality({t}) = 1
  BY FS_Singleton, Zenon
<1>4. CASE Incremented(p) = {4} \/ Incremented(p) = {5}
  <2>1. Cardinality(Incremented(p)) = 1
    BY <1>3, <1>4, Zenon
  <2>2. QED
    BY <2>1
<1>5. CASE ~(Incremented(p) = {4} \/ Incremented(p) = {5})
  <2>1. Incremented(p) \subseteq 1 .. 3
    BY <1>5 DEF Incremented
  <2>2. QED
    BY <1>2, <2>1
<1>6. QED
  BY <1>4, <1>5

(* The clock's own actions keep the accounting.                            *)
LEMMA StepKeeps ==
  ASSUME ClockInv, Step
  PROVE  ClockInv'
<1> USE DEF ClockInv, ClockTypes, Backlog, Conserved, DueAhead, Stages,
            MctGain, TickCost, clock, counters, downlink
<1>1. CASE begin_step
  BY <1>1 DEF begin_step
<1>2. CASE clock_deferred_mct
  <2>1. CASE Due
    BY <1>2, <2>1 DEF clock_deferred_mct, Due
  <2>2. CASE ~Due
    BY <1>2, <2>2, ClockAssumption DEF clock_deferred_mct, Due
  <2>3. QED
    BY <2>1, <2>2
<1>3. CASE tick
  <2>1. delay = 0
    BY <1>3 DEF tick, AtReadyPoint
  <2> DEFINE n == Cardinality(Incremented(NextScaler % Phases))
             e == IF time6_enabled /\ (NextScaler % Phases) % 2 = 1 THEN 1 ELSE 0
  <2>2. n \in Nat /\ n <= 3
    BY AtMostThree
  <2>3. e \in Nat /\ e <= 1
    OBVIOUS
  <2>4. delay' = delay + n + e
    BY <1>3 DEF tick
  <2> HIDE DEF n, e
  <2>5. delay' \in Nat /\ delay' <= 4
    BY <2>1, <2>2, <2>3, <2>4
  <2>6. /\ scaler_mcts >= 80 /\ scaler_mcts' = scaler_mcts - 80
        /\ ticks' = ticks + 1 /\ deferred = 0
        /\ stage \in {"fetch", "execute"}
        /\ UNCHANGED <<cycles, deferred, downrupt_due, stage>>
    BY <1>3 DEF tick, AtReadyPoint, Remainder
  <2>7. QED
    BY <2>5, <2>6
<1>4. CASE steal
  BY <1>4 DEF steal, Serviced, AtReadyPoint
<1>5. CASE accept_interrupt
  BY <1>5 DEF accept_interrupt, Serviced, AtReadyPoint
<1>6. CASE end_entry
  BY <1>6 DEF end_entry
<1>7. ASSUME NEW c \in InstructionCycles, start_execution(c)
      PROVE  ClockInv'
  <2>1. c \in 1 .. 6
    BY ClockAssumption
  <2>2. QED
    BY <1>7, <2>1 DEF start_execution, Serviced, AtReadyPoint
<1>8. CASE end_execution
  BY <1>8 DEF end_execution, Serviced, AtReadyPoint
<1>9. QED
  BY <1>1, <1>2, <1>3, <1>4, <1>5, <1>6, <1>7, <1>8 DEF Step

(* So do the instructions and the peripherals.                             *)
LEMMA OthersKeep ==
  ASSUME ClockInv, Execution \/ Environment
  PROVE  ClockInv'
<1> USE DEF ClockInv, ClockTypes, Backlog, Conserved, DueAhead, Stages,
            MctGain, TickCost, clock, counters, downlink
<1>1. CASE execute_other
  BY <1>1 DEF execute_other, Commit
<1>2. ASSUME NEW t, NEW v, store_timer(t, v) PROVE ClockInv'
  BY <1>2 DEF store_timer, Commit
<1>3. ASSUME NEW enable, NEW arms, write_channel_13(enable, arms) PROVE ClockInv'
  BY <1>3 DEF write_channel_13, Commit
<1>4. ASSUME NEW ch, write_downlink(ch) PROVE ClockInv'
  BY <1>4, ClockAssumption DEF write_downlink, Commit
<1>5. ASSUME NEW inputs, set_inputs(inputs) PROVE ClockInv'
  BY <1>5 DEF set_inputs
<1>6. CASE reset
  BY <1>6 DEF reset
<1>7. QED
  BY <1>1, <1>2, <1>3, <1>4, <1>5, <1>6 DEF Execution, Environment

LEMMA ClockInvariant == Spec => []ClockInv
<1>1. Init => ClockInv
  BY DEF Init, ClockInv, ClockTypes, Backlog, Conserved, DueAhead, Stages,
         MctGain, TickCost
<1>2. ClockInv /\ [Next]_vars => ClockInv'
  <2> SUFFICES ASSUME ClockInv, [Next]_vars PROVE ClockInv'
    OBVIOUS
  <2>1. CASE Next
    BY <2>1, StepKeeps, OthersKeep DEF Next
  <2>2. CASE UNCHANGED vars
    BY <2>2 DEF vars, clock, counters, downlink, ClockInv, ClockTypes, Backlog,
                Conserved, DueAhead
  <2>3. QED
    BY <2>1, <2>2
<1>3. QED
  BY <1>1, <1>2, PTL DEF Spec

(* Every MCT is accounted for, whatever was deferred, stolen or spent on   *)
(* entering interrupts.                                                    *)
THEOREM ClockConserved == Spec => []Conserved
  BY ClockInvariant, PTL DEF ClockInv

(* The scaler never falls two ticks behind.                                *)
THEOREM ClockKeepsUp == Spec => []NeverTwoBehind
<1>1. ClockInv => NeverTwoBehind
  BY DEF ClockInv, ClockTypes, Backlog, Conserved, Stages, NeverTwoBehind,
         MctGain, TickCost
<1>2. QED
  BY <1>1, ClockInvariant, PTL

(* A scheduled DOWNRUPT is never passed over.                              *)
THEOREM DownruptNotMissed == Spec => []DueAhead
  BY ClockInvariant, PTL DEF ClockInv

(* DOWNRUPT comes exactly when it is due.                                  *)
THEOREM DownruptExact == Spec => DownruptOnTime
<1>1. ClockInv /\ [Next]_vars =>
        [(Downrupt \in pending_interrupts' \ pending_interrupts) =>
           (cycles' = 0 \/ cycles = downrupt_due)]_vars
  <2> SUFFICES ASSUME ClockInv, Next,
                      Downrupt \in pending_interrupts' \ pending_interrupts
               PROVE  cycles' = 0 \/ cycles = downrupt_due
    OBVIOUS
  <2> USE DEF clock, counters, downlink
  <2>1. CASE clock_deferred_mct
    <3>1. Due
      BY <2>1 DEF clock_deferred_mct
    <3>2. QED
      BY <3>1 DEF Due, ClockInv, ClockTypes, DueAhead
  <2>2. CASE tick
    <3>1. Downrupt \notin {Request(t) : t \in {u \in Incremented(NextScaler % Phases)
                                                   \cap {3, 4, 5} : Overflowing(u)}}
      BY DEF Request, Downrupt, Time3, Time4, Time5
    <3>2. QED
      BY <2>2, <3>1 DEF tick, Downrupt, Time6, Handrupt
  <2>3. CASE accept_interrupt
    BY <2>3 DEF accept_interrupt
  <2>4. CASE reset
    BY <2>4 DEF reset
  <2>5. CASE begin_step \/ steal \/ end_entry \/ end_execution
    BY <2>5 DEF begin_step, steal, end_entry, end_execution
  <2>6. ASSUME NEW c, start_execution(c) PROVE FALSE
    BY <2>6 DEF start_execution
  <2>7. CASE Execution
    BY <2>7 DEF Execution, execute_other, store_timer, write_channel_13,
                write_downlink, Commit
  <2>8. ASSUME NEW inputs, set_inputs(inputs) PROVE FALSE
    BY <2>8 DEF set_inputs
  <2>9. QED
    BY <2>1, <2>2, <2>3, <2>4, <2>5, <2>6, <2>7, <2>8 DEF Next, Step, Environment
<1>2. QED
  BY <1>1, ClockInvariant, PTL DEF Spec, DownruptOnTime
-----------------------------------------------------------------------------
(***************************************************************************)
(* The counters keep time.                                                 *)
(***************************************************************************)
(* Multiples of n keep the order of their factors, a whole n apart.        *)
LEMMA ProductOrder ==
  ASSUME NEW n \in Nat, n > 0, NEW p \in Int, NEW q \in Int, p < q
  PROVE  n * p + n <= n * q
<1>1. PICK k \in Nat : q = p + 1 + k
  <2>1. q - p - 1 \in Nat
    OBVIOUS
  <2>2. q = p + 1 + (q - p - 1)
    OBVIOUS
  <2>3. QED
    BY <2>1, <2>2
<1>2. n * q = n * p + n + n * k
  BY <1>1
<1>3. n * k >= 0
  OBVIOUS
<1>4. n * p \in Int /\ n * k \in Int
  OBVIOUS
<1>5. QED
  BY <1>2, <1>3, <1>4

(* Division and remainder, for a divisor that is not a constant.           *)
LEMMA Division ==
  ASSUME NEW a \in Nat, NEW n \in Nat, n > 0
  PROVE  /\ a \div n \in Nat /\ a % n \in 0 .. n - 1
         /\ a = n * (a \div n) + (a % n)
  OBVIOUS

(* There is one quotient and one remainder.                                *)
LEMMA DivisionUnique ==
  ASSUME NEW a \in Nat, NEW n \in Nat, n > 0, NEW q \in Int, NEW r \in 0 .. n - 1,
         a = n * q + r
  PROVE  q = a \div n /\ r = a % n
<1> DEFINE d == a \div n
           m == a % n
<1>1. d \in Int /\ m \in 0 .. n - 1 /\ a = n * d + m
  BY Division
<1> HIDE DEF d, m
<1>2. d = q
  <2>1. ~(d < q)
    BY <1>1, ProductOrder
  <2>2. ~(q < d)
    BY <1>1, ProductOrder
  <2>3. QED
    BY <1>1, <2>1, <2>2
<1>3. m = r
  BY <1>1, <1>2
<1>4. QED
  BY <1>2, <1>3 DEF d, m

(* What one more adds to a quotient and to a remainder.                    *)
LEMMA DivisionNext ==
  ASSUME NEW a \in Nat, NEW n \in Nat, n > 0
  PROVE  /\ a % n = n - 1 => (a + 1) \div n = (a \div n) + 1 /\ (a + 1) % n = 0
         /\ a % n # n - 1 => (a + 1) \div n = a \div n /\ (a + 1) % n = (a % n) + 1
<1> DEFINE d == a \div n
           m == a % n
<1>1. d \in Nat /\ m \in 0 .. n - 1 /\ a = n * d + m
  BY Division
<1> HIDE DEF d, m
<1>2. CASE m = n - 1
  <2>1. n * (d + 1) = n * d + n
    BY <1>1
  <2>2. a + 1 = n * (d + 1) + 0
    BY <1>1, <1>2, <2>1
  <2>3. d + 1 = (a + 1) \div n /\ 0 = (a + 1) % n
    BY <1>1, <2>2, DivisionUnique
  <2>4. QED
    BY <1>2, <2>3 DEF d, m
<1>3. CASE m # n - 1
  <2>1. a + 1 = n * d + (m + 1) /\ m + 1 \in 0 .. n - 1
    BY <1>1, <1>3
  <2>2. d = (a + 1) \div n /\ m + 1 = (a + 1) % n
    BY <1>1, <2>1, DivisionUnique
  <2>3. QED
    BY <1>3, <2>2 DEF d, m
<1>4. QED
  BY <1>2, <1>3

(* A cycle of n that starts k late turns when the remainder reaches k.     *)
LEMMA DivisionShifted ==
  ASSUME NEW a \in Nat, NEW n \in Nat, n > 0, NEW k \in 1 .. n - 1
  PROVE  (a + 1 + n - k) \div n =
           ((a + n - k) \div n) + (IF (a + 1) % n = k THEN 1 ELSE 0)
<1> DEFINE d == (a + 1) \div n
           m == (a + 1) % n
           b == a + n - k
<1>1. d \in Int /\ m \in 0 .. n - 1 /\ a + 1 = n * d + m
  BY Division
<1>2. b \in Nat /\ b + 1 \in Nat /\ a + 1 + n - k = b + 1 /\ b = a + n - k
  OBVIOUS
<1> HIDE DEF d, m, b
<1>3. n * (d + 1) = n * d + n
  BY <1>1
<1>4. CASE m >= k
  <2> DEFINE e == d + 1
             r == m - k
  <2>1. b + 1 = n * e + r /\ r \in 0 .. n - 1 /\ e \in Int
    BY <1>1, <1>2, <1>3, <1>4
  <2>2. r = 0 <=> m = k
    BY <1>1
  <2> HIDE DEF e, r
  <2>3. r = (b + 1) % n
    BY <1>2, <2>1, DivisionUnique
  <2>4. QED
    BY <1>2, <2>2, <2>3, DivisionNext, Division DEF m, b
<1>5. CASE m < k
  <2>1. b + 1 = n * d + (m + n - k) /\ m + n - k \in 0 .. n - 1
    BY <1>1, <1>2, <1>5
  <2>2. m + n - k = (b + 1) % n
    BY <1>1, <1>2, <2>1, DivisionUnique
  <2>3. QED
    BY <1>2, <1>5, <2>2, DivisionNext, Division DEF m, b
<1>6. QED
  BY <1>1, <1>4, <1>5

(* A double counter, a the low and b the high part: the carry loses nothing. *)
LEMMA DoubleCount ==
  ASSUME NEW m \in Nat, m > 0, NEW n \in Nat, n > 0,
         NEW a \in 0 .. m - 1, NEW b \in 0 .. n - 1, NEW d \in Nat,
         a + m * b = d % (m * n)
  PROVE  /\ a # m - 1 => a + 1 + m * b = (d + 1) % (m * n)
         /\ a = m - 1 /\ b # n - 1 => m * (b + 1) = (d + 1) % (m * n)
         /\ a = m - 1 /\ b = n - 1 => (d + 1) % (m * n) = 0
<1> DEFINE s == m * n
<1>1. s \in Nat /\ s > 0
  OBVIOUS
<1>2. m * b + m <= s
  <2>1. CASE b + 1 = n
    BY <2>1
  <2>2. CASE b + 1 < n
    <3>1. m * (b + 1) + m <= m * n
      BY <2>2, ProductOrder
    <3>2. m * (b + 1) = m * b + m
      OBVIOUS
    <3>3. QED
      BY <3>1, <3>2
  <2>3. QED
    BY <2>1, <2>2
<1>3. b = n - 1 => m * b + m = s
  OBVIOUS
<1>4. b # n - 1 => m * (b + 1) + m <= s
  <2>1. b # n - 1 => b + 1 < n
    OBVIOUS
  <2>2. QED
    BY <2>1, ProductOrder
<1>5. m * (b + 1) = m * b + m /\ m * b \in Nat
  OBVIOUS
<1> HIDE DEF s
<1>6. a + m * b = d % s
  BY DEF s
<1>7. /\ d % s # s - 1 => (d + 1) % s = (d % s) + 1
      /\ d % s = s - 1 => (d + 1) % s = 0
  BY <1>1, DivisionNext
<1>8. QED
  BY <1>1, <1>2, <1>3, <1>4, <1>5, <1>6, <1>7 DEF s

(* The low part alone follows the count.                                   *)
LEMMA LowPart ==
  ASSUME NEW m \in Nat, m > 0, NEW n \in Nat, n > 0,
         NEW a \in 0 .. m - 1, NEW b \in 0 .. n - 1, NEW d \in Nat,
         a + m * b = d % (m * n)
  PROVE  (a + 1) % m = (d + 1) % m
<1>1. a = d % m
  <2> DEFINE s == m * n
             k == d \div s
  <2>0. s \in Nat /\ s > 0 /\ m * b \in Nat
    OBVIOUS
  <2>1. d = s * k + (d % s) /\ k \in Nat
    BY <2>0, Division
  <2> HIDE DEF k
  <2>2. s * k = m * (n * k) /\ n * k \in Nat
    BY <2>1
  <2>3. m * (n * k) + m * b = m * (n * k + b)
    BY <2>1, <2>2
  <2>4. d = m * (n * k + b) + a
    BY <2>1, <2>2, <2>0, <2>3
  <2>5. n * k + b \in Int
    BY <2>2
  <2>6. QED
    BY <2>4, <2>5, DivisionUnique
<1>2. a = m * 0 + a /\ a \in Nat
  OBVIOUS
<1>3. a = a % m
  BY <1>2, DivisionUnique
<1>4. /\ a % m = m - 1 => (a + 1) % m = 0
      /\ a % m # m - 1 => (a + 1) % m = (a % m) + 1
  BY <1>2, DivisionNext, Zenon
<1>5. /\ d % m = m - 1 => (d + 1) % m = 0
      /\ d % m # m - 1 => (d + 1) % m = (d % m) + 1
  BY DivisionNext, Zenon
<1>6. QED
  BY ONLY <1>1, <1>3, <1>4, <1>5, Zenon

(* A remainder by a multiple of p has the remainder by p that it had.      *)
LEMMA RemainderOfRemainder ==
  ASSUME NEW a \in Nat, NEW s \in Nat, s > 0, NEW p \in Nat, p > 0, s % p = 0
  PROVE  (a % s) % p = a % p
<1> DEFINE d == a \div s
           m == a % s
           k == s \div p
           e == m \div p
           f == m % p
<1>1. d \in Nat /\ m \in Nat /\ a = s * d + m
  BY Division
<1>2. k \in Nat /\ s = p * k
  BY Division
<1> HIDE DEF d, m, k
<1>3. e \in Nat /\ f \in 0 .. p - 1 /\ m = p * e + f
  BY <1>1, Division
<1> HIDE DEF e, f
<1>4. a = p * (k * d + e) + f
  <2>1. s * d = p * (k * d) /\ k * d \in Nat
    BY <1>1, <1>2
  <2>2. p * (k * d + e) = p * (k * d) + p * e
    BY <1>3, <2>1
  <2>3. QED
    BY <1>1, <1>3, <2>1, <2>2
<1>5. k * d + e \in Int
  BY <1>1, <1>2, <1>3
<1>6. f = a % p
  BY <1>3, <1>4, <1>5, DivisionUnique
<1>7. QED
  BY <1>6 DEF f, m

(* The counters hold words, whatever the program stores in them.           *)
CounterTypes == timers \in [Timers -> Word]

(* Counting a word up or towards zero leaves a word; towards zero its      *)
(* magnitude falls by one.                                                 *)
LEMMA CountedWords ==
  ASSUME NEW v \in Word
  PROVE  /\ counter_pinc(v) \in Word
         /\ toward_zero(v) \in Word
         /\ ~is_zero(v) => magnitude(toward_zero(v)) = magnitude(v) - 1
         /\ is_zero(v) => magnitude(v) = 0
<1>1. v \in Nat /\ v <= \o77777
  BY DEF Word
<1>2. counter_pinc(v) \in Word
  BY <1>1, ClockAssumption DEF counter_pinc, Word
<1>3. toward_zero(v) \in Word
  BY <1>1 DEF toward_zero, wrapping_add, is_negative, Word
<1>4. /\ ~is_zero(v) => magnitude(toward_zero(v)) = magnitude(v) - 1
      /\ is_zero(v) => magnitude(v) = 0
  BY <1>1 DEF toward_zero, wrapping_add, is_negative, is_zero, magnitude
<1>5. QED
  BY <1>2, <1>3, <1>4

(* What a tick does to the counters, one by one.                           *)
LEMMA TickCounts ==
  ASSUME CounterTypes, tick, NEW t \in Timers
  PROVE  /\ timers'[t] \in Word
         /\ t \in Incremented(NextScaler % Phases) =>
              t # 6 /\ timers'[t] = counter_pinc(timers[t])
         /\ t \notin Incremented(NextScaler % Phases) /\ t # 6 => timers'[t] = timers[t]
         /\ t = 6 /\ timers'[6] # timers[6] =>
              time6_enabled /\ ~is_zero(timers[6]) /\ timers'[6] = toward_zero(timers[6])
<1> DEFINE inc == Incremented(NextScaler % Phases)
           turn == time6_enabled /\ (NextScaler % Phases) % 2 = 1
           expired == turn /\ is_zero(timers[6])
<1>1. timers' = [u \in Timers |->
                   IF u \in inc THEN counter_pinc(timers[u])
                   ELSE IF u = 6 /\ turn /\ ~expired THEN toward_zero(timers[6])
                   ELSE timers[u]]
  BY DEF tick
<1>2. t \in inc => t # 6
  BY DEF Incremented
<1>3. turn => time6_enabled
  OBVIOUS
<1>4. turn /\ ~expired => ~is_zero(timers[6])
  OBVIOUS
<1> HIDE DEF inc, turn, expired
<1>5. timers'[t] = IF t \in inc THEN counter_pinc(timers[t])
                   ELSE IF t = 6 /\ turn /\ ~expired THEN toward_zero(timers[6])
                   ELSE timers[t]
  BY <1>1
<1>6. timers[t] \in Word /\ timers[6] \in Word
  BY DEF CounterTypes, Timers
<1>7. timers'[t] \in Word
  BY <1>5, <1>6, CountedWords
<1>8. QED
  BY <1>2, <1>3, <1>4, <1>5, <1>7 DEF inc

LEMMA CounterTypesKept == CounterTypes /\ [Next]_vars => CounterTypes'
<1> SUFFICES ASSUME CounterTypes, [Next]_vars PROVE CounterTypes'
  OBVIOUS
<1> USE DEF clock, counters, downlink
<1>1. CASE tick
  <2>1. \A t \in Timers : timers'[t] \in Word
    BY <1>1, TickCounts
  <2>2. timers' = [t \in Timers |-> timers'[t]]
    BY <1>1 DEF tick
  <2>3. QED
    BY <2>1, <2>2 DEF CounterTypes
<1>2. CASE reset
  BY <1>2 DEF reset, CounterTypes, Word
<1>3. ASSUME NEW s \in StoredTimes, store_timer(s[1], s[2]) PROVE CounterTypes'
  <2>1. s \in Timers \X Word
    BY ClockAssumption
  <2>2. s[1] \in Timers /\ s[2] \in Word
    BY <2>1
  <2>3. QED
    BY <1>3, <2>2 DEF store_timer, CounterTypes
<1>4. CASE begin_step \/ clock_deferred_mct \/ steal \/ accept_interrupt \/ end_entry
             \/ end_execution
  BY <1>4 DEF begin_step, clock_deferred_mct, steal, accept_interrupt, end_entry,
              end_execution, CounterTypes
<1>5. ASSUME NEW c, start_execution(c) PROVE CounterTypes'
  BY <1>5 DEF start_execution, CounterTypes
<1>6. ASSUME NEW enable, NEW arms, write_channel_13(enable, arms) PROVE CounterTypes'
  BY <1>6 DEF write_channel_13, CounterTypes
<1>7. ASSUME NEW ch, write_downlink(ch) PROVE CounterTypes'
  BY <1>7 DEF write_downlink, CounterTypes
<1>8. ASSUME NEW inputs, set_inputs(inputs) PROVE CounterTypes'
  BY <1>8 DEF set_inputs, CounterTypes
<1>9. CASE execute_other \/ UNCHANGED vars
  BY <1>9 DEF execute_other, vars, CounterTypes
<1>10. QED
  BY <1>1, <1>2, <1>3, <1>4, <1>5, <1>6, <1>7, <1>8, <1>9
  DEF Next, Step, Execution, Environment

LEMMA CounterTypeInvariant == Spec => []CounterTypes
<1>1. Init => CounterTypes
  BY DEF Init, CounterTypes, Word
<1>2. QED
  BY <1>1, CounterTypesKept, PTL DEF Spec
(* Only a tick of the scaler moves the count of ticks up.                  *)
LEMMA OnlyTick ==
  ASSUME ClockInv, Next, ticks' = ticks + 1
  PROVE  tick
<1> USE DEF clock, counters, downlink
<1>1. ticks \in Nat
  BY DEF ClockInv, ClockTypes
<1>2. ~(begin_step \/ clock_deferred_mct \/ steal \/ accept_interrupt \/ end_entry
          \/ end_execution)
  BY <1>1 DEF begin_step, clock_deferred_mct, steal, accept_interrupt, end_entry,
              end_execution
<1>3. \A c : ~start_execution(c)
  BY <1>1 DEF start_execution
<1>4. ~Execution
  BY <1>1 DEF Execution, execute_other, store_timer, write_channel_13,
              write_downlink, Commit
<1>5. ~Environment
  BY <1>1 DEF Environment, set_inputs, reset
<1>6. QED
  BY <1>2, <1>3, <1>4, <1>5 DEF Next, Step

(* Every armed trap whose input is asserted when the scaler ticks fires,   *)
(* however many there are, and the others stay armed.                      *)
THEOREM EveryTrapFires == Spec => TrapsFire
<1>1. ClockInv /\ [Next]_vars =>
        [ticks' = ticks + 1 =>
           /\ armed' \cap low = {}
           /\ armed \ low \subseteq armed'
           /\ armed \cap low # {} => Handrupt \in pending_interrupts']_vars
  <2> SUFFICES ASSUME ClockInv, Next, ticks' = ticks + 1
               PROVE  /\ armed' \cap low = {}
                      /\ armed \ low \subseteq armed'
                      /\ armed \cap low # {} => Handrupt \in pending_interrupts'
    OBVIOUS
  <2>1. tick
    BY OnlyTick
  <2>2. armed' = armed \ low
    BY <2>1 DEF tick, Disarmed
  <2>3. armed \cap low # {} => Handrupt \in pending_interrupts'
    BY <2>1 DEF tick
  <2>4. QED
    BY <2>2, <2>3
<1>2. QED
  BY <1>1, ClockInvariant, PTL DEF Spec, TrapsFire

(* TIME6 counts down in either sign and, at zero, asks for its interrupt   *)
(* once and stops, whatever the program stores in it and whenever it is    *)
(* enabled.                                                                *)
THEOREM Time6Exact == Spec => Time6CountsDown
<1>1. ClockInv /\ CounterTypes /\ [Next]_vars =>
        [ticks' = ticks + 1 =>
           /\ timers'[6] # timers[6] =>
                time6_enabled /\ magnitude(timers'[6]) = magnitude(timers[6]) - 1
           /\ (Time6 \in pending_interrupts' \ pending_interrupts) =>
                time6_enabled /\ ~time6_enabled' /\ magnitude(timers[6]) = 0]_vars
  <2> SUFFICES ASSUME ClockInv, CounterTypes, Next, ticks' = ticks + 1
               PROVE  /\ timers'[6] # timers[6] =>
                           time6_enabled
                             /\ magnitude(timers'[6]) = magnitude(timers[6]) - 1
                      /\ (Time6 \in pending_interrupts' \ pending_interrupts) =>
                           time6_enabled /\ ~time6_enabled' /\ magnitude(timers[6]) = 0
    OBVIOUS
  <2>1. tick
    BY OnlyTick
  <2>2. 6 \in Timers /\ timers[6] \in Word
    BY DEF Timers, CounterTypes
  <2>3. timers'[6] # timers[6] =>
          time6_enabled /\ magnitude(timers'[6]) = magnitude(timers[6]) - 1
    BY <2>1, <2>2, TickCounts, CountedWords
  <2>4. ASSUME Time6 \in pending_interrupts' \ pending_interrupts
        PROVE  time6_enabled /\ ~time6_enabled' /\ magnitude(timers[6]) = 0
    <3> DEFINE expired == /\ time6_enabled /\ (NextScaler % Phases) % 2 = 1
                          /\ is_zero(timers[6])
    <3>1. Time6 \notin {Request(t) : t \in {u \in Incremented(NextScaler % Phases)
                                                \cap {3, 4, 5} : Overflowing(u)}}
      BY DEF Request, Time6, Time3, Time4, Time5
    <3>2. expired
      BY <2>1, <2>4, <3>1 DEF tick, Time6, Handrupt
    <3>3. time6_enabled' = (time6_enabled /\ ~expired)
      BY <2>1 DEF tick
    <3>4. QED
      BY <2>2, <3>2, <3>3, CountedWords
  <2>5. QED
    BY <2>3, <2>4
<1>2. QED
  BY <1>1, ClockInvariant, CounterTypeInvariant, PTL DEF Spec, Time6CountsDown

(* The counters of time, strengthened: none is past its last value, and    *)
(* the scaler holds a value of its width.                                  *)
SinglesTell == \A t \in {3, 4, 5} : timers[t] = TimesDue(t) % (CounterMax + 1)
DoubleTells ==
  timers[1] + (CounterMax + 1) * timers[2] =
    TimesDue(1) % ((CounterMax + 1) * (CounterMax + 1))
ScalerTells == scaler + ScalerSize * scaler2 = ticks % (ScalerSize * \o100000)
TimeInv ==
  /\ \A t \in 1 .. 5 : timers[t] \in 0 .. CounterMax
  /\ scaler \in 0 .. ScalerSize - 1
  /\ scaler2 \in Nat /\ scaler2 < \o100000
  /\ SinglesTell /\ DoubleTells /\ ScalerTells

(* The phase of the next tick, counted from reset.                         *)
LEMMA NextPhase ==
  ASSUME ClockInv, TimeInv
  PROVE  NextScaler % Phases = (ticks + 1) % Phases
<1> DEFINE W == \o100000
<1>1. ticks \in Nat /\ ScalerSize \in Nat /\ ScalerSize > 0 /\ W \in Nat /\ W > 0
  BY ClockAssumption DEF ClockInv, ClockTypes
<1>2. /\ scaler \in 0 .. ScalerSize - 1 /\ scaler2 \in 0 .. W - 1
      /\ scaler + ScalerSize * scaler2 = ticks % (ScalerSize * W)
  <2>1. /\ scaler \in 0 .. ScalerSize - 1
        /\ scaler2 \in Nat /\ scaler2 < W /\ ScalerTells
    BY DEF TimeInv
  <2>2. scaler + ScalerSize * scaler2 = ticks % (ScalerSize * W)
    BY <2>1 DEF ScalerTells
  <2> HIDE DEF W
  <2>3. scaler2 \in 0 .. W - 1
    BY ONLY <1>1, <2>1
  <2>4. QED
    BY <2>1, <2>2, <2>3
<1> HIDE DEF W
<1>3. (scaler + 1) % ScalerSize = (ticks + 1) % ScalerSize
  BY ONLY <1>1, <1>2, LowPart, Zenon
<1>4. ((ticks + 1) % ScalerSize) % Phases = (ticks + 1) % Phases
  <2>1. ticks + 1 \in Nat
    BY <1>1
  <2>2. Phases \in Nat /\ Phases > 0 /\ ScalerSize % Phases = 0
    BY ClockAssumption
  <2>3. QED
    BY ONLY <1>1, <2>1, <2>2, RemainderOfRemainder, Zenon
<1>5. QED
  BY <1>3, <1>4 DEF NextScaler

(* One more tick makes exactly the counters of its phase due once more.    *)
LEMMA DueNext ==
  ASSUME ticks \in Nat, ticks' = ticks + 1, NEW t \in {1, 3, 4, 5}
  PROVE  /\ TimesDue(t) \in Nat
         /\ TimesDue(t)' =
              TimesDue(t) + (IF t \in Incremented((ticks + 1) % Phases) THEN 1 ELSE 0)
<1> DEFINE p == (ticks + 1) % Phases
           quarter == Phases \div 4
           half == Phases \div 2
<1>1. /\ Phases \in Nat /\ Phases > 0
      /\ quarter \in 1 .. Phases - 1 /\ half \in 1 .. Phases - 1 /\ quarter # half
  BY ClockAssumption
<1>2. t \in Incremented(p) <=>
        p = IF t = 5 THEN 0 ELSE IF t = 4 THEN quarter ELSE half
  BY <1>1 DEF Incremented
<1> HIDE DEF p, quarter, half
<1>3. /\ (ticks + 1) \div Phases = (ticks \div Phases) + (IF p = 0 THEN 1 ELSE 0)
      /\ ticks \div Phases \in Nat
  BY <1>1, DivisionNext, Division DEF p
<1>4. ASSUME NEW k \in 1 .. Phases - 1
      PROVE  /\ (ticks + 1 + Phases - k) \div Phases =
                  ((ticks + Phases - k) \div Phases) + (IF p = k THEN 1 ELSE 0)
             /\ (ticks + Phases - k) \div Phases \in Nat
  <2>1. ticks + Phases - k \in Nat
    BY <1>1
  <2>2. (ticks + Phases - k) \div Phases \in Nat
    BY <1>1, <2>1, Division
  <2>3. (ticks + 1 + Phases - k) \div Phases =
          ((ticks + Phases - k) \div Phases) + (IF (ticks + 1) % Phases = k THEN 1 ELSE 0)
    BY ONLY <1>1, ticks \in Nat, DivisionShifted
  <2>4. QED
    BY ONLY <2>2, <2>3 DEF p
<1>5. CASE t = 5
  BY <1>2, <1>3, <1>5 DEF TimesDue, p
<1>6. CASE t = 4
  BY <1>1, <1>2, <1>4, <1>6 DEF TimesDue, p, quarter
<1>7. CASE t \in {1, 3}
  BY <1>1, <1>2, <1>4, <1>7 DEF TimesDue, p, half
<1>8. QED
  BY <1>5, <1>6, <1>7
(* Counting up follows the count of the times due.                         *)
LEMMA CounterNext ==
  ASSUME NEW v \in 0 .. CounterMax, NEW d \in Nat, v = d % (CounterMax + 1)
  PROVE  counter_pinc(v) = (d + 1) % (CounterMax + 1)
<1>1. CounterMax \in Nat /\ CounterMax < \o40000
  BY ClockAssumption
<1> DEFINE m == CounterMax + 1
<1>2. m \in Nat /\ m > 0 /\ m - 1 = CounterMax
  BY <1>1
<1>3. counter_pinc(v) = IF v = CounterMax THEN 0 ELSE v + 1
  BY <1>1 DEF counter_pinc
<1> HIDE DEF m
<1>4. /\ d % m = m - 1 => (d + 1) % m = 0
      /\ d % m # m - 1 => (d + 1) % m = (d % m) + 1
  BY <1>2, DivisionNext, Zenon
<1>5. QED
  BY <1>2, <1>3, <1>4 DEF m

(* A tick keeps the counters in step with the ticks counted.               *)
LEMMA TickKeepsTime ==
  ASSUME ClockInv, CounterTypes, TimeInv, tick
  PROVE  TimeInv'
<1> DEFINE inc == Incremented((ticks + 1) % Phases)
<1>1. /\ ticks \in Nat /\ ticks' = ticks + 1 /\ ticks + 1 \in Nat
      /\ inc = Incremented(NextScaler % Phases)
      /\ CounterMax \in Nat /\ CounterMax < \o40000
  BY NextPhase, ClockAssumption DEF tick, ClockInv, ClockTypes
<1>2. ASSUME NEW t \in 1 .. 5
      PROVE  /\ timers[t] \in 0 .. CounterMax
             /\ timers'[t] = IF t \in inc THEN counter_pinc(timers[t]) ELSE timers[t]
             /\ timers'[t] \in 0 .. CounterMax
  <2>1. timers[t] \in 0 .. CounterMax /\ t \in Timers /\ t # 6
    BY DEF TimeInv, Timers
  <2>2. timers'[t] = IF t \in inc THEN counter_pinc(timers[t]) ELSE timers[t]
    BY <1>1, <2>1, TickCounts
  <2>3. counter_pinc(timers[t]) \in 0 .. CounterMax
    BY <1>1, <2>1 DEF counter_pinc
  <2>4. QED
    BY <2>1, <2>2, <2>3
<1>3. ASSUME NEW t \in {1, 3, 4, 5}
      PROVE  /\ TimesDue(t) \in Nat
             /\ TimesDue(t)' = IF t \in inc THEN TimesDue(t) + 1 ELSE TimesDue(t)
  <2>1. /\ TimesDue(t) \in Nat
        /\ TimesDue(t)' = TimesDue(t) + (IF t \in inc THEN 1 ELSE 0)
    BY <1>1, DueNext
  <2> HIDE DEF inc
  <2>2. QED
    BY <2>1
<1>4. /\ 1 \in inc <=> 3 \in inc
      /\ 2 \in inc <=> 1 \in inc /\ timers[1] = CounterMax
  BY DEF Incremented, Overflowing
<1> HIDE DEF inc
<1>5. ASSUME NEW t \in {3, 4, 5}
      PROVE  timers'[t] = TimesDue(t)' % (CounterMax + 1)
  <2>1. timers[t] = TimesDue(t) % (CounterMax + 1)
    BY DEF TimeInv, SinglesTell
  <2>2. t \in inc => timers'[t] = (TimesDue(t) + 1) % (CounterMax + 1)
    BY <1>2, <1>3, <2>1, CounterNext
  <2>3. QED
    BY <1>2, <1>3, <2>1, <2>2
<1>6. timers'[1] + (CounterMax + 1) * timers'[2] =
        TimesDue(1)' % ((CounterMax + 1) * (CounterMax + 1))
  <2> DEFINE m == CounterMax + 1
             a == timers[1]
             b == timers[2]
             d == TimesDue(1)
  <2>1. /\ m \in Nat /\ m > 0 /\ m - 1 = CounterMax
        /\ a \in 0 .. m - 1 /\ b \in 0 .. m - 1 /\ d \in Nat
        /\ a + m * b = d % (m * m)
    <3>1. a + m * b = d % (m * m)
      BY DEF TimeInv, DoubleTells
    <3>2. a \in 0 .. CounterMax /\ b \in 0 .. CounterMax /\ d \in Nat
      BY <1>2, <1>3
    <3> HIDE DEF a, b, d
    <3>3. /\ m \in Nat /\ m > 0 /\ m - 1 = CounterMax
          /\ a \in 0 .. m - 1 /\ b \in 0 .. m - 1
      BY ONLY <1>1, <3>2
    <3> HIDE DEF m
    <3>4. QED
      BY <3>1, <3>2, <3>3
  <2>2. /\ timers'[1] = IF 1 \in inc THEN counter_pinc(a) ELSE a
        /\ timers'[2] = IF 2 \in inc THEN counter_pinc(b) ELSE b
        /\ TimesDue(1)' = IF 1 \in inc THEN d + 1 ELSE d
        /\ 2 \in inc <=> 1 \in inc /\ a = m - 1
    BY <1>2, <1>3, <1>4, <2>1
  <2>3. /\ counter_pinc(a) = IF a = m - 1 THEN 0 ELSE a + 1
        /\ counter_pinc(b) = IF b = m - 1 THEN 0 ELSE b + 1
    BY <1>1, <2>1 DEF counter_pinc
  <2> HIDE DEF m, a, b, d
  <2>4. /\ a # m - 1 => a + 1 + m * b = (d + 1) % (m * m)
        /\ a = m - 1 /\ b # m - 1 => m * (b + 1) = (d + 1) % (m * m)
        /\ a = m - 1 /\ b = m - 1 => (d + 1) % (m * m) = 0
    BY ONLY <2>1, DoubleCount, Zenon
  <2>5. 0 + m * (b + 1) = m * (b + 1) /\ 0 + m * 0 = 0
    BY <2>1
  <2>6. timers'[1] + m * timers'[2] = TimesDue(1)' % (m * m)
    BY ONLY <2>1, <2>2, <2>3, <2>4, <2>5
  <2>7. QED
    BY <2>6 DEF m
<1>7. /\ scaler' \in 0 .. ScalerSize - 1
      /\ scaler2' \in Nat /\ scaler2' < \o100000
      /\ scaler' + ScalerSize * scaler2' = ticks' % (ScalerSize * \o100000)
  <2> DEFINE W == \o100000
  <2>1. /\ ScalerSize \in Nat /\ ScalerSize > 0 /\ W \in Nat /\ W > 0
        /\ scaler \in 0 .. ScalerSize - 1 /\ scaler2 \in 0 .. W - 1
        /\ scaler + ScalerSize * scaler2 = ticks % (ScalerSize * W)
    <3>1. ScalerSize \in Nat /\ ScalerSize > 0 /\ W \in Nat /\ W > 0
      BY ClockAssumption
    <3>2. scaler \in 0 .. ScalerSize - 1 /\ scaler2 \in Nat /\ scaler2 < W /\ ScalerTells
      BY DEF TimeInv
    <3>3. scaler + ScalerSize * scaler2 = ticks % (ScalerSize * W)
      BY <3>2 DEF ScalerTells
    <3> HIDE DEF W
    <3>4. scaler2 \in 0 .. W - 1
      BY ONLY <3>1, <3>2
    <3>5. QED
      BY <3>1, <3>2, <3>3, <3>4
  <2> HIDE DEF W
  <2>2. NextScaler = IF scaler = ScalerSize - 1 THEN 0 ELSE scaler + 1
    <3>1. scaler + 1 \in 1 .. ScalerSize
      BY <2>1
    <3>2. CASE scaler + 1 = ScalerSize
      <4>1. ScalerSize = ScalerSize * 1 + 0
        BY <2>1
      <4>2. 0 = ScalerSize % ScalerSize
        BY ONLY <2>1, <4>1, DivisionUnique
      <4>3. QED
        BY <2>1, <3>2, <4>2 DEF NextScaler
    <3>3. CASE scaler + 1 < ScalerSize
      <4>1. /\ scaler + 1 = ScalerSize * 0 + (scaler + 1)
            /\ scaler + 1 \in 0 .. ScalerSize - 1 /\ scaler + 1 \in Nat
        BY <2>1, <3>3
      <4>2. scaler + 1 = (scaler + 1) % ScalerSize
        BY ONLY <2>1, <4>1, DivisionUnique
      <4>3. QED
        BY <2>1, <3>3, <4>2 DEF NextScaler
    <3>4. QED
      BY <2>1, <3>1, <3>2, <3>3
  <2>3. scaler2' = IF scaler = ScalerSize - 1
                   THEN IF scaler2 = W - 1 THEN 0 ELSE scaler2 + 1 ELSE scaler2
    <3>1. scaler2' = IF NextScaler = 0 THEN (scaler2 + 1) % W ELSE scaler2
      BY DEF tick, W
    <3>2. scaler2 \in Nat /\ scaler2 <= W - 1
      BY <2>1
    <3>3. (scaler2 + 1) % W = IF scaler2 = W - 1 THEN 0 ELSE scaler2 + 1
      BY ONLY <3>2 DEF W
    <3>4. NextScaler = 0 <=> scaler = ScalerSize - 1
      <4>1. ScalerSize \in Nat /\ scaler \in 0 .. ScalerSize - 1
        BY <2>1
      <4>2. QED
        BY ONLY <2>2, <4>1
    <3>5. QED
      BY ONLY <3>1, <3>3, <3>4
  <2>4. scaler' = NextScaler
    BY DEF tick
  <2>5. /\ scaler # ScalerSize - 1 =>
             scaler + 1 + ScalerSize * scaler2 = (ticks + 1) % (ScalerSize * W)
        /\ scaler = ScalerSize - 1 /\ scaler2 # W - 1 =>
             ScalerSize * (scaler2 + 1) = (ticks + 1) % (ScalerSize * W)
        /\ scaler = ScalerSize - 1 /\ scaler2 = W - 1 =>
             (ticks + 1) % (ScalerSize * W) = 0
    <3>1. ticks \in Nat
      BY <1>1
    <3>2. QED
      BY ONLY <2>1, <3>1, DoubleCount, ZenonT(60)
  <2>6. /\ 0 + ScalerSize * (scaler2 + 1) = ScalerSize * (scaler2 + 1)
        /\ 0 + ScalerSize * 0 = 0
    BY <2>1
  <2>7. /\ scaler' \in 0 .. ScalerSize - 1 /\ scaler2' \in 0 .. W - 1
        /\ scaler' + ScalerSize * scaler2' = (ticks + 1) % (ScalerSize * W)
    BY ONLY <2>1, <2>2, <2>3, <2>4, <2>5, <2>6
  <2>8. /\ scaler' \in 0 .. ScalerSize - 1
        /\ scaler2' \in Nat /\ scaler2' < W
        /\ scaler' + ScalerSize * scaler2' = ticks' % (ScalerSize * W)
    <3>1. ticks' = ticks + 1
      BY <1>1
    <3>2. \A i \in 0 .. W - 1 : i \in Nat /\ i < W
      BY ONLY <2>1
    <3>3. QED
      BY ONLY <2>7, <3>1, <3>2, Zenon
  <2>9. QED
    BY ONLY <2>8 DEF W
<1>8. SinglesTell'
  BY <1>5 DEF SinglesTell
<1>9. DoubleTells'
  BY ONLY <1>6 DEF DoubleTells
<1>10. /\ scaler' \in 0 .. ScalerSize - 1 /\ scaler2' \in Nat /\ scaler2' < \o100000
       /\ ScalerTells'
  BY ONLY <1>7 DEF ScalerTells
<1>11. QED
  BY ONLY <1>2, <1>8, <1>9, <1>10 DEF TimeInv

(* At reset nothing is due.                                                *)
LEMMA ResetKeepsTime ==
  ASSUME ticks = 0, scaler = 0, scaler2 = 0, timers = [t \in Timers |-> 0]
  PROVE  TimeInv
<1>1. /\ Phases \in Nat /\ Phases >= 4 /\ CounterMax \in Nat
      /\ ScalerSize \in Nat /\ ScalerSize > 0
  BY ClockAssumption
<1>2. ASSUME NEW k \in 0 .. Phases - 1 PROVE k \div Phases = 0
  <2>1. k = Phases * 0 + k /\ k \in Nat
    BY <1>1
  <2>2. QED
    BY <1>1, <2>1, DivisionUnique
<1>3. ASSUME NEW n \in Nat, n > 0 PROVE 0 % n = 0
  <2>1. 0 = n * 0 + 0 /\ 0 \in Nat /\ 0 \in Int /\ 0 \in 0 .. n - 1
    BY <1>3
  <2>2. QED
    BY <1>3, <2>1, DivisionUnique, Zenon
<1>4. /\ Phases - (Phases \div 4) \in 0 .. Phases - 1
      /\ Phases - (Phases \div 2) \in 0 .. Phases - 1
  BY <1>1
<1>5. \A t \in {1, 3, 4, 5} : TimesDue(t) = 0
  BY <1>1, <1>2, <1>4 DEF TimesDue
<1>6. \A t \in 1 .. 5 : timers[t] = 0
  BY DEF Timers
<1>7. \A t \in {3, 4, 5} : timers[t] = TimesDue(t) % (CounterMax + 1)
  BY <1>1, <1>3, <1>5, <1>6
<1>8. timers[1] + (CounterMax + 1) * timers[2] =
        TimesDue(1) % ((CounterMax + 1) * (CounterMax + 1))
  <2>1. (CounterMax + 1) * (CounterMax + 1) > 0
    BY <1>1
  <2>2. (CounterMax + 1) * 0 = 0 /\ (CounterMax + 1) * (CounterMax + 1) \in Nat
    BY <1>1
  <2>3. QED
    BY <1>3, <1>5, <1>6, <2>1, <2>2
<1>9. scaler + ScalerSize * scaler2 = ticks % (ScalerSize * \o100000)
  <2>1. ScalerSize * \o100000 \in Nat /\ ScalerSize * \o100000 > 0 /\ ScalerSize * 0 = 0
    BY <1>1
  <2>2. QED
    BY <1>3, <2>1
<1>10. SinglesTell /\ DoubleTells /\ ScalerTells
  BY ONLY <1>7, <1>8, <1>9 DEF SinglesTell, DoubleTells, ScalerTells
<1>11. QED
  BY <1>1, <1>6, <1>10 DEF TimeInv

(* A program that stores in no counter but TIME6 reads the elapsed time    *)
(* from the others: however its cycles are deferred and stolen, whatever   *)
(* interrupts and traps it takes, no increment is lost or doubled, and the *)
(* carry of TIME1 reaches TIME2.                                           *)
THEOREM CountersTellTime ==
  ASSUME \A s \in StoredTimes : s[1] = 6
  PROVE  Spec => []CountersKeepTime
<1>1. Init => TimeInv
  BY ResetKeepsTime DEF Init
<1>2. ClockInv /\ CounterTypes /\ TimeInv /\ [Next]_vars => TimeInv'
  <2> SUFFICES ASSUME ClockInv, CounterTypes, TimeInv, [Next]_vars PROVE TimeInv'
    OBVIOUS
  <2> USE DEF clock, counters, downlink
  <2>1. CASE tick
    BY <2>1, TickKeepsTime
  <2>2. CASE reset
    <3>1. /\ ticks' = 0 /\ scaler' = 0 /\ scaler2' = 0
          /\ timers' = [t \in Timers |-> 0]
      BY <2>2 DEF reset
    <3>2. (ticks = 0 /\ scaler = 0 /\ scaler2 = 0 /\ timers = [t \in Timers |-> 0]
             => TimeInv)'
      BY ResetKeepsTime, PTL
    <3>3. QED
      BY <3>1, <3>2
  <2>3. ASSUME UNCHANGED <<ticks, scaler, scaler2>>,
               \A t \in 1 .. 5 : timers'[t] = timers[t]
        PROVE  TimeInv'
    <3>1. /\ \A t \in 1 .. 5 : timers'[t] \in 0 .. CounterMax
          /\ scaler' \in 0 .. ScalerSize - 1
          /\ scaler2' \in Nat /\ scaler2' < \o100000
      BY <2>3 DEF TimeInv
    <3>2. \A t \in {1, 3, 4, 5} : TimesDue(t)' = TimesDue(t)
      BY <2>3 DEF TimesDue
    <3>3. SinglesTell /\ DoubleTells /\ ScalerTells
      BY DEF TimeInv
    <3>4. timers'[1] = timers[1] /\ timers'[2] = timers[2]
          /\ \A t \in {3, 4, 5} : timers'[t] = timers[t]
      BY <2>3
    <3>5. SinglesTell'
      BY <3>2, <3>3, <3>4 DEF SinglesTell
    <3>6. DoubleTells'
      BY <3>2, <3>3, <3>4 DEF DoubleTells
    <3>7. ScalerTells'
      BY <2>3, <3>3 DEF ScalerTells
    <3>8. QED
      BY <3>1, <3>5, <3>6, <3>7 DEF TimeInv
  <2>4. ASSUME NEW s \in StoredTimes, store_timer(s[1], s[2]) PROVE TimeInv'
    BY <2>3, <2>4 DEF store_timer, Commit
  <2>5. CASE begin_step \/ clock_deferred_mct \/ steal \/ accept_interrupt \/ end_entry
               \/ end_execution
    BY <2>3, <2>5 DEF begin_step, clock_deferred_mct, steal, accept_interrupt,
                      end_entry, end_execution
  <2>6. ASSUME NEW c, start_execution(c) PROVE TimeInv'
    BY <2>3, <2>6 DEF start_execution
  <2>7. ASSUME NEW enable, NEW arms, write_channel_13(enable, arms) PROVE TimeInv'
    BY <2>3, <2>7 DEF write_channel_13, Commit
  <2>8. ASSUME NEW ch, write_downlink(ch) PROVE TimeInv'
    BY <2>3, <2>8 DEF write_downlink, Commit
  <2>9. ASSUME NEW inputs, set_inputs(inputs) PROVE TimeInv'
    BY <2>3, <2>9 DEF set_inputs
  <2>10. CASE execute_other \/ UNCHANGED vars
    BY <2>3, <2>10 DEF execute_other, Commit, vars
  <2>11. QED
    BY <2>1, <2>2, <2>4, <2>5, <2>6, <2>7, <2>8, <2>9, <2>10
    DEF Next, Step, Execution, Environment
<1>3. TimeInv => CountersKeepTime
  BY DEF TimeInv, SinglesTell, DoubleTells, ScalerTells, CountersKeepTime
<1>4. QED
  BY <1>1, <1>2, <1>3, ClockInvariant, CounterTypeInvariant, PTL DEF Spec
=============================================================================
