--------------------------- MODULE AgcBuildProofs ---------------------------
(***************************************************************************)
(* Theorems about AgcBuild, for any sources, overlays and listings: what   *)
(* an accepted image holds, where its references lead, that the stages of  *)
(* both routes read one text, and what the checksums of an accepted        *)
(* listing exclude.                                                        *)
(***************************************************************************)
EXTENDS AgcBuild, FiniteSetTheorems, SequenceTheorems, WellFoundedInduction, TLAPS

(* Every nonempty set of naturals has a least element.                     *)
LEMMA LeastNatural ==
  ASSUME NEW T \in SUBSET Nat, T # {}
  PROVE  \E x \in T : \A y \in T : x <= y
<1> DEFINE R == OpToRel(<, Nat)
<1>1. IsWellFoundedOn(R, Nat)
  BY NatLessThanWellFounded, Zenon
<1>2. \E x \in T : \A y \in T : ~(<<y, x>> \in R)
  <2> HIDE DEF R
  <2> QED  BY <1>1, WFMin, Zenon
<1>3. PICK x \in T : \A y \in T : ~(<<y, x>> \in R)
  BY <1>2
<1>4. \A y \in T : ~(y < x)
  BY <1>3 DEF OpToRel
<1> QED  BY <1>4

-----------------------------------------------------------------------------
(* The checksum.                                                           *)
(* What the loop has added up after each word.                             *)
Sums(s, words, n) ==
  s = [k \in 0 .. n |-> IF k = 0 THEN 0 ELSE checksum_add(s[k - 1], words[k])]
Running(words) == CHOOSE s : Sums(s, words, Len(words))

LEMMA ChecksumRuns ==
  ASSUME NEW words
  PROVE  Checksum(words) = Running(words)[Len(words)]
BY DEF Checksum, Running, Sums

LEMMA SumsExist ==
  ASSUME NEW words, NEW n \in Nat
  PROVE  \E s : Sums(s, words, n)
<1> DEFINE T == {m \in Nat : ~ \E s : Sums(s, words, m)}
<1>1. SUFFICES T = {}
  OBVIOUS
<1>2. SUFFICES ASSUME T # {}  PROVE FALSE
  OBVIOUS
<1>3. PICK m \in T : \A l \in T : m <= l
  <2>1. T \in SUBSET Nat
    OBVIOUS
  <2> HIDE DEF T
  <2> QED  BY <1>2, <2>1, LeastNatural
<1>4. m # 0
  <2> DEFINE s == [k \in 0 .. 0 |-> 0]
  <2>1. Sums(s, words, 0)
    BY DEF Sums
  <2> QED  BY <2>1
<1>5. PICK s : Sums(s, words, m - 1)
  <2>1. m - 1 \in Nat /\ m - 1 \notin T
    BY <1>3, <1>4
  <2> QED  BY <2>1
<1>6. Sums([k \in 0 .. m |-> IF k = m THEN checksum_add(s[m - 1], words[m]) ELSE s[k]], words, m)
  <2> DEFINE t == [k \in 0 .. m |-> IF k = m THEN checksum_add(s[m - 1], words[m]) ELSE s[k]]
  <2>1. m \in Nat
    OBVIOUS
  <2>2. ASSUME NEW k \in 0 .. m
        PROVE  t[k] = IF k = 0 THEN 0 ELSE checksum_add(t[k - 1], words[k])
    <3>1. k # 0 => t[k - 1] = s[k - 1]
      BY <2>1
    <3>2. k # m => s[k] = IF k = 0 THEN 0 ELSE checksum_add(s[k - 1], words[k])
      BY <2>1, <1>5 DEF Sums
    <3> QED  BY <1>4, <3>1, <3>2
  <2>3. t = [k \in 0 .. m |-> IF k = 0 THEN 0 ELSE checksum_add(t[k - 1], words[k])]
    <3>1. t = [k \in 0 .. m |-> t[k]]
      OBVIOUS
    <3> HIDE DEF t
    <3> QED  BY <2>2, <3>1
  <2> HIDE DEF t
  <2> QED  BY <2>3 DEF Sums, t
<1> QED  BY <1>6

LEMMA RunningSums ==
  ASSUME NEW S, NEW words \in Seq(S)
  PROVE  \A n \in 0 .. Len(words) :
           Running(words)[n] =
             IF n = 0 THEN 0 ELSE checksum_add(Running(words)[n - 1], words[n])
<1>1. Len(words) \in Nat
  OBVIOUS
<1>2. Sums(Running(words), words, Len(words))
  BY <1>1, SumsExist DEF Running
<1> DEFINE s == Running(words)
<1>3. s = [k \in 0 .. Len(words) |-> IF k = 0 THEN 0 ELSE checksum_add(s[k - 1], words[k])]
  BY <1>2 DEF Sums
<1> HIDE DEF s
<1> QED  BY <1>3 DEF s

(* An addition is the sum of the values, up to one end-around carry.       *)
LEMMA CarriedAround ==
  ASSUME NEW v \in Word, NEW w \in Word
  PROVE  /\ checksum_add(v, w) \in Word
         /\ \E e \in {-1, 0, 1} :
              to_i32_lossy_zero(checksum_add(v, w))
                = to_i32_lossy_zero(v) + to_i32_lossy_zero(w) + e * MAX_MAGNITUDE
<1> DEFINE x == to_i32_lossy_zero(v)
           y == to_i32_lossy_zero(w)
           e == IF x + y > \o37777 THEN -1 ELSE IF x + y < -\o37777 THEN 1 ELSE 0
           z == x + y + e * \o37777
<1>1. /\ x \in Int /\ -\o37777 <= x /\ x <= \o37777
      /\ y \in Int /\ -\o37777 <= y /\ y <= \o37777
  BY DEF Word, to_i32_lossy_zero, is_negative
<1> HIDE DEF x, y
<1>2. z \in Int /\ -\o37777 <= z /\ z <= \o37777 /\ e \in {-1, 0, 1}
  BY <1>1
<1>3. checksum_add(v, w) = from_i32(z)
  BY <1>1 DEF checksum_add, MAX_MAGNITUDE, x, y
<1> HIDE DEF z, e
<1>4. from_i32(z) \in Word /\ to_i32_lossy_zero(from_i32(z)) = z
  BY <1>2 DEF from_i32, Word, to_i32_lossy_zero, is_negative
<1> QED  BY <1>2, <1>3, <1>4 DEF x, y, z, MAX_MAGNITUDE

LEMMA SumsAreWords ==
  ASSUME NEW words \in Seq(Word)
  PROVE  \A n \in 0 .. Len(words) : Running(words)[n] \in Word
<1> DEFINE s == Running(words)
           T == {n \in 0 .. Len(words) : s[n] \notin Word}
<1>1. SUFFICES ASSUME T # {}  PROVE FALSE
  OBVIOUS
<1>2. PICK m \in T : \A l \in T : m <= l
  <2>1. T \in SUBSET Nat
    OBVIOUS
  <2> HIDE DEF T
  <2> QED  BY <1>1, <2>1, LeastNatural
<1>3. s[m] = IF m = 0 THEN 0 ELSE checksum_add(s[m - 1], words[m])
  BY RunningSums
<1> HIDE DEF s
<1>4. CASE m = 0
  BY <1>2, <1>3, <1>4 DEF Word
<1>5. CASE m # 0
  <2>1. m - 1 \in 0 .. Len(words) /\ m - 1 \notin T /\ m \in 1 .. Len(words)
    BY <1>2, <1>5
  <2>2. s[m - 1] \in Word /\ words[m] \in Word
    BY <2>1
  <2> QED  BY <1>2, <1>3, <1>5, <2>2, CarriedAround
<1> QED  BY <1>4, <1>5

(* One word changed changes the sum by as much, up to a multiple of the    *)
(* largest magnitude.                                                      *)
Shifted(words, others, n, change) ==
  \E k \in Int : to_i32_lossy_zero(others[n]) - to_i32_lossy_zero(words[n])
                   = change + k * MAX_MAGNITUDE

LEMMA SumsShift ==
  ASSUME NEW words \in Seq(Word), NEW i \in DOMAIN words, NEW w \in Word
  PROVE  LET others == [words EXCEPT ![i] = w]
             change == to_i32_lossy_zero(w) - to_i32_lossy_zero(words[i])
         IN  Shifted(Running(words), Running(others), Len(words), change)
<1> DEFINE others == [words EXCEPT ![i] = w]
           change == to_i32_lossy_zero(w) - to_i32_lossy_zero(words[i])
           s == Running(words)
           t == Running(others)
           size == Len(words)
<1>1. others \in Seq(Word) /\ Len(others) = size /\ others[i] = w /\ i \in 1 .. size /\ size \in Nat
  OBVIOUS
<1>2. \A n \in 1 .. size : n # i => others[n] = words[n]
  OBVIOUS
<1>3. \A n \in 0 .. size : s[n] \in Word /\ t[n] \in Word
  BY <1>1, SumsAreWords
<1>4. \A n \in 0 .. size : n # 0 => s[n] = checksum_add(s[n - 1], words[n])
  BY RunningSums
<1>5. \A n \in 0 .. size : n # 0 => t[n] = checksum_add(t[n - 1], others[n])
  BY <1>1, RunningSums
<1>6. s[0] = 0 /\ t[0] = 0
  <2>1. \A n \in 0 .. size : n = 0 => s[n] = 0
    BY RunningSums
  <2>2. \A n \in 0 .. size : n = 0 => t[n] = 0
    BY <1>1, RunningSums
  <2> HIDE DEF s, t, size
  <2> QED  BY <1>1, <2>1, <2>2
<1>7. \A n \in 1 .. size : words[n] \in Word /\ others[n] \in Word
  BY <1>1
<1> HIDE DEF others, s, t, size
<1>8. \A v \in Word : to_i32_lossy_zero(v) \in Int
  BY DEF Word, to_i32_lossy_zero
<1>9. change \in Int
  BY <1>1, <1>7, <1>8
(* Up to the changed word the sums are the same.                           *)
<1>10. \A n \in 0 .. size : n < i => s[n] = t[n]
  <2> DEFINE T == {n \in 0 .. size : n < i /\ s[n] # t[n]}
  <2>1. SUFFICES ASSUME T # {}  PROVE FALSE
    OBVIOUS
  <2>2. PICK m \in T : \A l \in T : m <= l
    <3>1. T \in SUBSET Nat
      OBVIOUS
    <3> HIDE DEF T
    <3> QED  BY <2>1, <3>1, LeastNatural
  <2>3. m # 0 /\ m \in 1 .. size /\ m - 1 \in 0 .. size /\ m - 1 \notin T
    <3>1. m \in 0 .. size /\ m # 0
      BY <1>6
    <3>2. m - 1 < m /\ m - 1 \in 0 .. size /\ m \in 1 .. size
      BY <1>1, <3>1
    <3> HIDE DEF T
    <3> QED  BY <1>1, <2>2, <3>1, <3>2
  <2>4. s[m - 1] = t[m - 1] /\ others[m] = words[m]
    BY <2>2, <2>3, <1>2
  <2>5. s[m] = t[m]
    BY <1>4, <1>5, <2>3, <2>4
  <2> QED  BY <2>2, <2>5
<1> HIDE DEF change
(* From it on they are apart by the change.                                *)
<1>11. ASSUME NEW n \in 1 .. size, NEW d \in Int, NEW k \in Int,
              to_i32_lossy_zero(t[n - 1]) - to_i32_lossy_zero(s[n - 1]) = d + k * MAX_MAGNITUDE
       PROVE  Shifted(s, t, n,
                      d + (to_i32_lossy_zero(others[n]) - to_i32_lossy_zero(words[n])))
  <2>1. n - 1 \in 0 .. size /\ n \in 0 .. size /\ n # 0
    BY <1>1
  <2>2. PICK e \in {-1, 0, 1} :
          to_i32_lossy_zero(s[n])
            = to_i32_lossy_zero(s[n - 1]) + to_i32_lossy_zero(words[n]) + e * MAX_MAGNITUDE
    BY <1>3, <1>4, <1>7, <2>1, CarriedAround
  <2>3. PICK f \in {-1, 0, 1} :
          to_i32_lossy_zero(t[n])
            = to_i32_lossy_zero(t[n - 1]) + to_i32_lossy_zero(others[n]) + f * MAX_MAGNITUDE
    BY <1>3, <1>5, <1>7, <2>1, CarriedAround
  <2> DEFINE S == to_i32_lossy_zero(s[n])
             T == to_i32_lossy_zero(t[n])
             S0 == to_i32_lossy_zero(s[n - 1])
             T0 == to_i32_lossy_zero(t[n - 1])
             x == to_i32_lossy_zero(words[n])
             y == to_i32_lossy_zero(others[n])
  <2>4. S0 \in Int /\ T0 \in Int /\ x \in Int /\ y \in Int
    BY <1>3, <1>7, <1>8, <2>1
  <2>5. S = S0 + x + e * \o37777 /\ T = T0 + y + f * \o37777 /\ T0 - S0 = d + k * \o37777
    BY <1>11, <2>2, <2>3 DEF MAX_MAGNITUDE
  <2> HIDE DEF S, T, S0, T0, x, y
  <2>6. T - S = d + (y - x) + (k + f - e) * \o37777
    BY <2>4, <2>5
  <2>7. k + f - e \in Int /\ T - S = d + (y - x) + (k + f - e) * MAX_MAGNITUDE
    BY <2>6 DEF MAX_MAGNITUDE
  <2> QED  BY <2>7 DEF Shifted, S, T, x, y
<1>12. \A n \in 0 .. size : n >= i => Shifted(s, t, n, change)
  <2> DEFINE T == {n \in 0 .. size : n >= i /\ ~Shifted(s, t, n, change)}
  <2>1. SUFFICES ASSUME T # {}  PROVE FALSE
    OBVIOUS
  <2>2. PICK m \in T : \A l \in T : m <= l
    <3>1. T \in SUBSET Nat
      OBVIOUS
    <3> HIDE DEF T
    <3> QED  BY <2>1, <3>1, LeastNatural
  <2>3. m \in 1 .. size /\ m - 1 \in 0 .. size /\ m - 1 \notin T /\ m >= i
    BY <1>1, <2>2
  <2>4. CASE m = i
    <3>1. to_i32_lossy_zero(t[m - 1]) - to_i32_lossy_zero(s[m - 1]) = 0 + 0 * MAX_MAGNITUDE
      <4>1. s[m - 1] = t[m - 1] /\ to_i32_lossy_zero(s[m - 1]) \in Int
        BY <1>3, <1>8, <1>10, <2>3, <2>4
      <4> QED  BY <4>1 DEF MAX_MAGNITUDE
    <3>2. Shifted(s, t, m, 0 + (to_i32_lossy_zero(others[m]) - to_i32_lossy_zero(words[m])))
      BY <1>11, <2>3, <3>1
    <3>3. 0 + (to_i32_lossy_zero(others[m]) - to_i32_lossy_zero(words[m])) = change
      BY <1>1, <1>9, <2>4 DEF change
    <3> QED  BY <2>2, <3>2, <3>3
  <2>5. CASE m # i
    <3>1. Shifted(s, t, m - 1, change)
      BY <2>3, <2>5
    <3>2. PICK k \in Int : to_i32_lossy_zero(t[m - 1]) - to_i32_lossy_zero(s[m - 1])
                             = change + k * MAX_MAGNITUDE
      BY <3>1 DEF Shifted
    <3>3. Shifted(s, t, m, change + (to_i32_lossy_zero(others[m]) - to_i32_lossy_zero(words[m])))
      BY <1>9, <1>11, <2>3, <3>2
    <3>4. change + (to_i32_lossy_zero(others[m]) - to_i32_lossy_zero(words[m])) = change
      BY <1>2, <1>7, <1>8, <1>9, <2>3, <2>5
    <3> QED  BY <2>2, <3>3, <3>4
  <2> QED  BY <2>4, <2>5
<1>13. size \in 0 .. size /\ size >= i
  BY <1>1
<1> QED  BY <1>12, <1>13 DEF s, t, others, change, size
LEMMA CertifiedValue ==
  ASSUME NEW b \in Nat, b <= MAX_MAGNITUDE, NEW v \in {b, complement(b)}
  PROVE  to_i32_lossy_zero(v) \in {b, -b}
BY DEF complement, to_i32_lossy_zero, is_negative, MAX_MAGNITUDE

(* What the checksum of a bank lets through.                               *)
LEMMA ChangeUnseen ==
  ASSUME NEW b \in Nat, b <= MAX_MAGNITUDE,
         NEW words \in Seq(Word), NEW i \in DOMAIN words, NEW w \in Word,
         Checksum(words) \in {b, complement(b)},
         Checksum([words EXCEPT ![i] = w]) \in {b, complement(b)}
  PROVE  Unseen(b, to_i32_lossy_zero(w) - to_i32_lossy_zero(words[i]))
<1> DEFINE others == [words EXCEPT ![i] = w]
           change == to_i32_lossy_zero(w) - to_i32_lossy_zero(words[i])
           x == to_i32_lossy_zero(Checksum(words))
           y == to_i32_lossy_zero(Checksum(others))
<1>1. Len(others) = Len(words) /\ words[i] \in Word
  OBVIOUS
<1>2. Shifted(Running(words), Running(others), Len(words), change)
  BY SumsShift
<1>3. x \in {b, -b} /\ y \in {b, -b}
  BY CertifiedValue
<1>4. PICK k \in Int : y - x = change + k * MAX_MAGNITUDE
  BY <1>1, <1>2, ChecksumRuns DEF Shifted
<1>5. change \in Int
  BY <1>1 DEF Word, to_i32_lossy_zero
<1> HIDE DEF others, change, x, y
<1> DEFINE turn == y - x
           j == -k
<1>6. turn \in {-2 * b, 0, 2 * b}
  BY <1>3
<1>7. change - turn = j * \o37777 /\ j \in Int
  BY <1>3, <1>4, <1>5 DEF MAX_MAGNITUDE
<1> HIDE DEF turn, j
<1>8. (change - turn) % \o37777 = 0
  BY <1>7
<1> QED  BY <1>6, <1>8 DEF Unseen, change, MAX_MAGNITUDE

-----------------------------------------------------------------------------
(* The rope file.                                                          *)
LEMMA OneDivision ==
  ASSUME NEW n \in Nat, NEW q \in Nat, NEW r \in Nat, r < n
  PROVE  (q * n + r) \div n = q /\ (q * n + r) % n = r
<1> DEFINE x == q * n + r
           p == x \div n
           t == x % n
<1>1. x \in Nat
  OBVIOUS
<1> HIDE DEF x
<1>2. p \in Int /\ t \in Int /\ x = p * n + t /\ 0 <= t /\ t < n
  BY <1>1
<1> HIDE DEF p, t
<1> DEFINE d == q - p
<1>3. d \in Int /\ d * n = t - r
  BY <1>2 DEF x
<1>4. -n < t - r /\ t - r < n
  BY <1>2
<1> HIDE DEF d
<1>5. ASSUME d >= 1  PROVE FALSE
  <2>1. d * n >= n
    BY <1>3, <1>5
  <2> QED  BY <1>2, <1>3, <1>4, <2>1
<1>6. ASSUME d <= -1  PROVE FALSE
  <2>1. d * n <= -n
    BY <1>3, <1>6
  <2> QED  BY <1>2, <1>3, <1>4, <2>1
<1>7. d = 0
  BY <1>3, <1>5, <1>6
<1>8. q = p /\ r = t
  BY <1>2, <1>3, <1>7 DEF d
<1> QED  BY <1>8 DEF x, p, t

(* A place in the rope is a bank and a word of it.                         *)
LEMMA PlacesOfRope ==
  ASSUME NEW p \in Loader!Locations
  PROVE  /\ BankWords > 0
         /\ Loader!Bank(p) \in 0 .. BankCount - 1
         /\ p % BankWords \in 0 .. BankWords - 1
         /\ p = Loader!Bank(p) * BankWords + (p % BankWords)
<1>1. BankCount \in Nat /\ BankWords \in Nat
  BY BinsourceAssumption
<1>2. p \in Nat /\ p < BankCount * BankWords
  BY <1>1 DEF Loader!Locations
<1>3. BankWords > 0
  BY <1>1, <1>2
<1> DEFINE q == p \div BankWords
           r == p % BankWords
<1>4. q \in Nat /\ r \in Nat /\ r < BankWords /\ p = q * BankWords + r
  BY <1>1, <1>2, <1>3
<1> HIDE DEF q, r
<1>5. q < BankCount
  <2>1. SUFFICES ASSUME q >= BankCount  PROVE FALSE
    BY <1>1, <1>4
  <2>2. q * BankWords >= BankCount * BankWords
    BY <1>1, <1>3, <1>4, <2>1
  <2> QED  BY <1>1, <1>2, <1>4, <2>2
<1> QED  BY <1>1, <1>3, <1>4, <1>5 DEF Loader!Bank, q, r

LEMMA MovedInRope ==
  ASSUME NEW p \in Loader!Locations, NEW b \in 0 .. BankCount - 1
  PROVE  /\ Loader!Moved(p, b) \in Loader!Locations
         /\ Loader!Bank(Loader!Moved(p, b)) = b
         /\ Loader!Moved(p, b) % BankWords = p % BankWords
<1> DEFINE r == p % BankWords
<1>1. BankCount \in Nat /\ BankWords \in Nat /\ r \in Nat /\ r < BankWords /\ b \in Nat /\ b < BankCount
  BY BinsourceAssumption, PlacesOfRope
<1>2. Loader!Moved(p, b) = b * BankWords + r
  BY DEF Loader!Moved
<1> HIDE DEF r
<1>3. (b * BankWords + r) \div BankWords = b /\ (b * BankWords + r) % BankWords = r
  BY <1>1, OneDivision
<1>4. b * BankWords + r \in Nat /\ b * BankWords + r < BankCount * BankWords
  <2>1. (b + 1) * BankWords <= BankCount * BankWords
    BY <1>1
  <2>2. (b + 1) * BankWords = b * BankWords + BankWords
    BY <1>1
  <2> QED  BY <1>1, <2>1, <2>2
<1>5. b * BankWords + r \in Loader!Locations
  BY <1>1, <1>4 DEF Loader!Locations
<1> QED  BY <1>2, <1>3, <1>5 DEF Loader!Bank, r

LEMMA SwappedBack ==
  ASSUME NEW b \in 0 .. BankCount - 1
  PROVE  Loader!Swapped(b) \in 0 .. BankCount - 1 /\ Loader!Swapped(Loader!Swapped(b)) = b
BY BinsourceAssumption DEF Loader!Swapped

(* The loader reads back the words that were written, at their places.     *)
LEMMA WrittenIsRead ==
  ASSUME NEW words \in [Loader!Locations -> Word]
  PROVE  /\ Loader!Decodable(Loader!encode_yayul(words), "Yayul")
         /\ Loader!decode_bytes(Loader!encode_yayul(words), "Yayul") = words
<1> DEFINE size == BankCount * BankWords
           Place(p) == Loader!Moved(p, Loader!Swapped(Loader!Bank(p)))
           file == Loader!encode_yayul(words)
<1>1. size \in Nat
  BY BinsourceAssumption
<1>2. \A p \in Loader!Locations : Place(p) \in Loader!Locations /\ Place(Place(p)) = p
  <2> SUFFICES ASSUME NEW p \in Loader!Locations
               PROVE  Place(p) \in Loader!Locations /\ Place(Place(p)) = p
    OBVIOUS
  <2> DEFINE b == Loader!Bank(p)
             s == Loader!Swapped(b)
             q == Loader!Moved(p, s)
  <2>1. b \in 0 .. BankCount - 1 /\ p = b * BankWords + (p % BankWords)
    BY PlacesOfRope
  <2>2. s \in 0 .. BankCount - 1 /\ Loader!Swapped(s) = b
    BY <2>1, SwappedBack
  <2>3. q \in Loader!Locations /\ Loader!Bank(q) = s /\ q % BankWords = p % BankWords
    BY <2>2, MovedInRope
  <2>4. Loader!Moved(q, b) = p
    BY <2>1, <2>3 DEF Loader!Moved
  <2> QED  BY <2>2, <2>3, <2>4
<1>3. file = [i \in 1 .. size |-> 2 * words[Place(i - 1)]]
  BY DEF Loader!encode_yayul
<1>4. \A i \in 1 .. size : i - 1 \in Loader!Locations
  BY <1>1 DEF Loader!Locations
<1>5. \A p \in Loader!Locations : p \in Nat /\ p + 1 \in 1 .. size
  BY <1>1 DEF Loader!Locations
<1> HIDE DEF size, file, Place
<1>6. \A i \in 1 .. size : \E v \in Word : file[i] = 2 * v
  BY <1>2, <1>3, <1>4
<1>7. \A v \in Word : (2 * v) % 2 = 0 /\ (2 * v) \div 2 = v
  BY DEF Word
<1>8. Loader!Decodable(file, "Yayul")
  <2>1. Len(file) = size /\ DOMAIN file = 1 .. size
    BY <1>1, <1>3
  <2>2. \A i \in 1 .. size : file[i] % 2 = 0
    BY <1>6, <1>7
  <2>3. \A i \in DOMAIN file : ~Loader!Refused(file[i], "Yayul")
    BY <2>1, <2>2 DEF Loader!Refused, Loader!ParityFormats
  <2> QED  BY <2>1, <2>3 DEF Loader!Decodable, size
<1>9. \A p \in Loader!Locations :
        Loader!Data(file[Loader!Source(p, "Yayul") + 1], "Yayul") = words[p]
  <2> SUFFICES ASSUME NEW p \in Loader!Locations
               PROVE  Loader!Data(file[Loader!Source(p, "Yayul") + 1], "Yayul") = words[p]
    OBVIOUS
  <2>1. Loader!Source(p, "Yayul") = Place(p)
    BY DEF Loader!Source, Loader!YayulFormats, Place
  <2>2. Place(p) \in Loader!Locations /\ Place(p) + 1 \in 1 .. size /\ (Place(p) + 1) - 1 = Place(p)
    BY <1>2, <1>5
  <2>3. file[Place(p) + 1] = 2 * words[p]
    BY <1>2, <1>3, <2>2
  <2>4. Loader!Data(2 * words[p], "Yayul") = words[p]
    BY <1>7 DEF Loader!Data, Loader!YayulFormats
  <2> QED  BY <2>1, <2>3, <2>4
<1>10. Loader!decode_bytes(file, "Yayul") = words
  <2>1. Loader!decode_bytes(file, "Yayul") = [p \in Loader!Locations |-> words[p]]
    BY <1>9 DEF Loader!decode_bytes
  <2> QED  BY <2>1
<1> QED  BY <1>8, <1>10 DEF file
-----------------------------------------------------------------------------
(* The listing.                                                            *)
CardsInv ==
  /\ DOMAIN banks \subseteq 0 .. BankCount - 1
  /\ \A b \in DOMAIN banks : banks[b] \in Seq(Word)
  /\ current_bank # NoCard => current_bank \in DOMAIN banks
AcceptedInv ==
  verdict = "accepted" => Accepts(banks) /\ rope = Loader!encode_yayul(InOrder(banks))
ListingInv == CardsInv /\ AcceptedInv

LEMMA CardsAreWords ==
  /\ \A b \in 0 .. BankCount - 1 : WordCards[b] \subseteq Word
  /\ UNION Range(WordCards) \subseteq Word
  /\ 0 \in Word
<1>1. WordCards \in [0 .. BankCount - 1 -> SUBSET Word]
  BY BinsourceAssumption
<1> QED  BY <1>1 DEF Range, Word

LEMMA ListingStep ==
  ASSUME ListingInv, NextBinsource
  PROVE  ListingInv'
<1>1. ASSUME refuse, verdict = "reading"  PROVE ListingInv'
  BY <1>1 DEF refuse, ListingInv, CardsInv, AcceptedInv
<1>2. ASSUME NEW bank \in 0 .. BankCount, bank_card(bank)  PROVE ListingInv'
  <2>1. CASE bank >= BankCount \/ bank \in DOMAIN banks
    BY <1>1, <1>2, <2>1 DEF bank_card
  <2>2. CASE ~(bank >= BankCount \/ bank \in DOMAIN banks)
    <3>1. /\ banks' = [b \in DOMAIN banks \cup {bank} |-> IF b = bank THEN <<>> ELSE banks[b]]
          /\ current_bank' = bank /\ verdict' = "reading"
      BY <1>2, <2>2 DEF bank_card
    <3>2. bank \in 0 .. BankCount - 1
      BY <2>2, BinsourceAssumption
    <3>3. CardsInv'
      BY <3>1, <3>2 DEF ListingInv, CardsInv
    <3> QED  BY <3>1, <3>3 DEF ListingInv, AcceptedInv
  <2> QED  BY <2>1, <2>2
<1>3. ASSUME NEW w, w \in IF current_bank = NoCard THEN {0} ELSE WordCards[current_bank],
             NEW unused \in BOOLEAN, word_card(w, unused)
      PROVE  ListingInv'
  <2>1. CASE current_bank = NoCard \/ Len(banks[current_bank]) = BankWords
    BY <1>1, <1>3, <2>1 DEF word_card
  <2>2. CASE ~(current_bank = NoCard \/ Len(banks[current_bank]) = BankWords)
    <3>1. /\ banks' = [banks EXCEPT ![current_bank] = Append(@, w)]
          /\ current_bank' = current_bank /\ verdict' = "reading"
      BY <1>3, <2>2 DEF word_card
    <3>2. current_bank \in DOMAIN banks /\ current_bank \in 0 .. BankCount - 1
      BY <2>2 DEF ListingInv, CardsInv
    <3>3. w \in Word
      BY <1>3, <2>2, <3>2, CardsAreWords
    <3>4. Append(banks[current_bank], w) \in Seq(Word)
      BY <3>2, <3>3 DEF ListingInv, CardsInv
    <3>5. CardsInv'
      BY <3>1, <3>2, <3>4 DEF ListingInv, CardsInv
    <3> QED  BY <3>1, <3>5 DEF ListingInv, AcceptedInv
  <2> QED  BY <2>1, <2>2
<1>4. ASSUME word_card(0, TRUE)  PROVE ListingInv'
  <2>1. CASE current_bank = NoCard \/ Len(banks[current_bank]) = BankWords
    BY <1>1, <1>4, <2>1 DEF word_card
  <2>2. CASE ~(current_bank = NoCard \/ Len(banks[current_bank]) = BankWords)
    <3>1. /\ banks' = [banks EXCEPT ![current_bank] = Append(@, 0)]
          /\ current_bank' = current_bank /\ verdict' = "reading"
      BY <1>4, <2>2 DEF word_card
    <3>2. current_bank \in DOMAIN banks
      BY <2>2 DEF ListingInv, CardsInv
    <3>3. Append(banks[current_bank], 0) \in Seq(Word)
      BY <3>2, CardsAreWords DEF ListingInv, CardsInv
    <3>4. CardsInv'
      BY <3>1, <3>2, <3>3 DEF ListingInv, CardsInv
    <3> QED  BY <3>1, <3>4 DEF ListingInv, AcceptedInv
  <2> QED  BY <2>1, <2>2
<1>5. ASSUME end_of_listing  PROVE ListingInv'
  <2>1. CASE Accepts(banks)
    <3>1. /\ rope' = Loader!encode_yayul(InOrder(banks))
          /\ banks' = banks /\ current_bank' = current_bank
      BY <1>5, <2>1 DEF end_of_listing
    <3>2. Accepts(banks)' /\ InOrder(banks)' = InOrder(banks)
      BY <2>1, <3>1 DEF Accepts, InOrder
    <3>3. (Loader!encode_yayul(InOrder(banks)))' = Loader!encode_yayul(InOrder(banks))
      BY <3>1, <3>2 DEF Loader!encode_yayul
    <3> QED  BY <3>1, <3>2, <3>3 DEF ListingInv, CardsInv, AcceptedInv
  <2>2. CASE ~Accepts(banks)
    BY <1>1, <1>5, <2>2 DEF end_of_listing
  <2> QED  BY <2>1, <2>2
<1>6. CASE bad_card
  BY <1>1, <1>6 DEF bad_card
<1> QED  BY <1>2, <1>3, <1>4, <1>5, <1>6 DEF NextBinsource

LEMMA ListingAlways == Spec => []ListingInv
<1>1. Init => ListingInv
  <2> SUFFICES ASSUME Init  PROVE ListingInv
    OBVIOUS
  <2>1. banks = <<>> /\ current_bank = NoCard /\ verdict = "reading"
    BY DEF Init, InitBinsource
  <2> QED  BY <2>1 DEF ListingInv, CardsInv, AcceptedInv
<1>2. ListingInv /\ [Next]_vars => ListingInv'
  <2> SUFFICES ASSUME ListingInv, [Next]_vars  PROVE ListingInv'
    OBVIOUS
  <2>1. CASE NextBinsource
    BY <2>1, ListingStep
  <2>2. CASE UNCHANGED binvars
    <3>1. banks' = banks /\ current_bank' = current_bank /\ verdict' = verdict /\ rope' = rope
      BY <2>2 DEF binvars
    <3> QED  BY <3>1 DEF ListingInv, CardsInv, AcceptedInv
  <2> QED  BY <2>1, <2>2 DEF Next, vars, stage, run_reference
<1> QED  BY <1>1, <1>2, PTL DEF Spec

LEMMA ListingSound ==
  ASSUME ListingInv
  PROVE  ListingCertified
<1> SUFFICES ASSUME verdict = "accepted"
             PROVE  /\ Loader!Decodable(rope, "Yayul")
                    /\ Loader!decode_bytes(rope, "Yayul") = InOrder(banks)
                    /\ \A b \in DOMAIN banks : \A i \in DOMAIN banks[b] :
                         \A w \in UNION Range(WordCards) :
                           Accepts(Replaced(b, i, w)) =>
                             Unseen(b, to_i32_lossy_zero(w) - to_i32_lossy_zero(banks[b][i]))
  BY DEF ListingCertified
<1>1. /\ DOMAIN banks = 0 .. BankCount - 1
      /\ \A b \in DOMAIN banks : banks[b] \in Seq(Word) /\ Certified(b, banks[b])
      /\ rope = Loader!encode_yayul(InOrder(banks))
  BY DEF ListingInv, CardsInv, AcceptedInv, Accepts
<1>2. InOrder(banks) \in [Loader!Locations -> Word]
  <2> SUFFICES ASSUME NEW p \in Loader!Locations
               PROVE  banks[p \div BankWords][(p % BankWords) + 1] \in Word
    BY DEF InOrder
  <2>1. p \div BankWords \in DOMAIN banks /\ p % BankWords \in 0 .. BankWords - 1 /\ BankWords \in Nat
    BY <1>1, PlacesOfRope, BinsourceAssumption DEF Loader!Bank
  <2>2. (p % BankWords) + 1 \in 1 .. Len(banks[p \div BankWords])
    BY <1>1, <2>1 DEF Certified
  <2> QED  BY <1>1, <2>1, <2>2
<1>3. ASSUME NEW b \in DOMAIN banks, NEW i \in DOMAIN banks[b], NEW w \in UNION Range(WordCards),
             Accepts(Replaced(b, i, w))
      PROVE  Unseen(b, to_i32_lossy_zero(w) - to_i32_lossy_zero(banks[b][i]))
  <2>1. w \in Word
    BY CardsAreWords
  <2>2. Replaced(b, i, w)[b] = [banks[b] EXCEPT ![i] = w] /\ b \in DOMAIN Replaced(b, i, w)
    BY DEF Replaced
  <2>3. /\ Checksum(banks[b]) \in {b, complement(b)}
        /\ Checksum([banks[b] EXCEPT ![i] = w]) \in {b, complement(b)}
    BY <1>1, <1>3, <2>2 DEF Accepts, Certified
  <2>4. b \in Nat /\ b <= MAX_MAGNITUDE
    BY <1>1, BinsourceAssumption DEF MAX_MAGNITUDE
  <2>5. banks[b] \in Seq(Word)
    BY <1>1
  <2> QED  BY <2>1, <2>3, <2>4, <2>5, ChangeUnseen
<1> QED  BY <1>1, <1>2, <1>3, WrittenIsRead

(* A listing that was accepted, of any number and size of banks, is the    *)
(* rope that the loader reads back; and a listing that differs from it in  *)
(* one word would have been refused, unless the change is one that the     *)
(* checksum of its bank cannot see.                                        *)
THEOREM AcceptedIsCertified == Spec => []ListingCertified
<1>1. ListingInv => ListingCertified
  BY ListingSound
<1> QED  BY <1>1, ListingAlways, PTL
-----------------------------------------------------------------------------
(* Where a symbol is, and how it is reached.                               *)
UpTo(n) == {m \in Nat : m <= n}
FixedPlaces == [kind : {"fixed"}, bank : UpTo(35), offset : UpTo(\o2000)]
ErasablePlaces == [kind : {"erasable"}, bank : UpTo(7), offset : UpTo(\o400)]
Places == FixedPlaces \cup ErasablePlaces

(* With the bank of a label selected, its address is that of its cell.     *)
LEMMA LabelReached ==
  ASSUME NEW v \in Places, InItsBank(v)
  PROVE  Memory(v)!translate(logical_address(v)) = Named(v)
<1>1. CASE v \in FixedPlaces
  <2> DEFINE b == v.bank
             o == v.offset
  <2>1. v.kind = "fixed" /\ b \in Nat /\ b <= 35 /\ o \in Nat /\ o < \o2000
    BY <1>1 DEF FixedPlaces, UpTo, InItsBank
  <2>2. logical_address(v)
          = IF b = 2 THEN \o4000 + o ELSE IF b = 3 THEN \o6000 + o ELSE \o2000 + o
    BY <2>1 DEF logical_address, Window
  <2>3. Memory(v)!selected_fixed_bank = b
    BY <2>1 DEF Memory!selected_fixed_bank, Memory!fbank, Memory!FB, SelectedBy
  <2> QED  BY <2>1, <2>2, <2>3 DEF Memory!translate, Memory!SpecialIndex, Memory!fixedAt, Named
<1>2. CASE v \in ErasablePlaces
  <2> DEFINE b == v.bank
             o == v.offset
             a == logical_address(v)
  <2>1. v.kind = "erasable" /\ b \in Nat /\ b <= 7 /\ o \in Nat /\ o < \o400
    BY <1>2 DEF ErasablePlaces, UpTo, InItsBank
  <2>2. a = IF b <= 2 THEN b * \o400 + o ELSE \o1400 + o
    BY <2>1 DEF logical_address, ErasableWindow
  <2>3. Memory(v)!ebank = b
    BY <2>1 DEF Memory!ebank, Memory!EB, SelectedBy
  <2> HIDE DEF a
  <2>4. CASE b = 0 /\ o <= \o60
    BY <2>1, <2>2, <2>4
       DEF Memory!translate, Memory!SpecialIndex, Memory!register, Named, a
  <2>5. CASE ~(b = 0 /\ o <= \o60)
    <3>1. /\ a \in Nat /\ a > \o60 /\ a < \o2000 /\ a % \o400 = o
          /\ a < \o1400 <=> b <= 2
          /\ b <= 2 => a \div \o400 = b
      BY ONLY <2>1, <2>2, <2>5
    <3>2. Memory(v)!translate(a) = Memory(v)!erasableAt(b, o)
      BY <2>3, <3>1 DEF Memory!translate, Memory!SpecialIndex
    <3> QED  BY <2>1, <2>5, <3>2 DEF Memory!erasableAt, Named, a
  <2> QED  BY <2>4, <2>5
<1> QED  BY <1>1, <1>2 DEF Places
-----------------------------------------------------------------------------
(* The codes of the instructions.                                          *)
LEMMA FieldsOfWord ==
  ASSUME NEW o \in Nat, NEW q \in Nat, NEW k \in Nat, q <= 3, k <= \o1777
  PROVE  LET raw == o * \o10000 + q * \o2000 + k
         IN  /\ raw \in Nat /\ raw \div \o10000 = o /\ (raw \div \o2000) % 4 = q
             /\ raw % \o2000 = k /\ raw % \o10000 = q * \o2000 + k
OBVIOUS

LEMMA ChannelCodes ==
  /\ DOMAIN Code!ChannelField
       = {"READ", "WRITE", "RAND", "WAND", "ROR", "WOR", "RXOR", "EDRUPT"}
  /\ \A m \in DOMAIN Code!ChannelField :
       \E c \in 0 .. 7 : Code!ChannelField[m] = c * \o1000 /\ Code!ChannelOps[c + 1] = m
BY DEF Code!ChannelField, Code!ChannelOps

LEMMA FieldDomains ==
  /\ DOMAIN Code!NoField = {"RELINT", "INHINT", "EXTEND", "RESUME"}
  /\ DOMAIN Code!ErasableField
       = {"CCS", "DAS", "LXCH", "INCR", "ADS", "INDEX", "DXCH", "TS", "XCH", "DV", "MSU",
          "QXCH", "AUG", "DIM", "SU"}
  /\ DOMAIN Code!AddressField
       = {"TC", "TCF", "CA", "CS", "AD", "MASK", "BZF", "DCA", "DCS", "BZMF", "MP", "INDEX"}
BY DEF Code!NoField, Code!ErasableField, Code!AddressField

ExtendedCodes == [DV |-> <<1, 0>>, MSU |-> <<2, 0>>, QXCH |-> <<2, 1>>, AUG |-> <<2, 2>>,
                  DIM |-> <<2, 3>>, SU |-> <<6, 0>>]
WideExtendedCodes == [BZF |-> 1, DCA |-> 3, DCS |-> 4, INDEX |-> 5, BZMF |-> 6, MP |-> 7]
BasicCodes == [CCS |-> <<1, 0>>, DAS |-> <<2, 0>>, LXCH |-> <<2, 1>>, INCR |-> <<2, 2>>,
               ADS |-> <<2, 3>>, INDEX |-> <<5, 0>>, DXCH |-> <<5, 1>>, TS |-> <<5, 2>>,
               XCH |-> <<5, 3>>]
WideBasicCodes == [TC |-> 0, TCF |-> 1, CA |-> 3, CS |-> 4, AD |-> 6, MASK |-> 7]

ExtendedBase(m) == Code!base(m, TRUE)
ExtendedLargest(m) == Code!LargestOperand(m, TRUE)
BasicBase(m) == Code!base(m, FALSE)
BasicLargest(m) == Code!LargestOperand(m, FALSE)

LEMMA ExtendedBases ==
  /\ \A m \in DOMAIN ExtendedCodes :
       /\ ExtendedBase(m) = ExtendedCodes[m][1] * \o10000 + ExtendedCodes[m][2] * \o2000
       /\ ExtendedLargest(m) = \o1777
  /\ \A m \in DOMAIN WideExtendedCodes :
       /\ ExtendedBase(m) = WideExtendedCodes[m] * \o10000
       /\ ExtendedLargest(m) = \o7777
<1>1. \A m \in DOMAIN ExtendedCodes :
        /\ m \in DOMAIN Code!ErasableField /\ m # "INDEX"
        /\ m \notin DOMAIN Code!NoField \cup DOMAIN Code!ChannelField
        /\ Code!ErasableField[m] = ExtendedCodes[m][1] * \o10000 + ExtendedCodes[m][2] * \o2000
  BY ChannelCodes, FieldDomains DEF ExtendedCodes, Code!ErasableField
<1>2. \A m \in DOMAIN WideExtendedCodes :
        /\ m \in DOMAIN Code!ErasableField => m = "INDEX"
        /\ m \notin DOMAIN Code!NoField \cup DOMAIN Code!ChannelField
        /\ Code!AddressField[m] = WideExtendedCodes[m] * \o10000
  BY ChannelCodes, FieldDomains DEF WideExtendedCodes, Code!AddressField
<1> QED  BY <1>1, <1>2 DEF Code!base, Code!LargestOperand, ExtendedBase, ExtendedLargest

LEMMA BasicBases ==
  /\ \A m \in DOMAIN BasicCodes :
       /\ BasicBase(m) = BasicCodes[m][1] * \o10000 + BasicCodes[m][2] * \o2000
       /\ BasicLargest(m) = \o1777
  /\ \A m \in DOMAIN WideBasicCodes :
       /\ BasicBase(m) = WideBasicCodes[m] * \o10000
       /\ BasicLargest(m) = \o7777
<1>1. \A m \in DOMAIN BasicCodes :
        /\ m \in DOMAIN Code!ErasableField
        /\ m \notin DOMAIN Code!NoField \cup DOMAIN Code!ChannelField
        /\ Code!ErasableField[m] = BasicCodes[m][1] * \o10000 + BasicCodes[m][2] * \o2000
  BY ChannelCodes, FieldDomains DEF BasicCodes, Code!ErasableField
<1>2. \A m \in DOMAIN WideBasicCodes :
        /\ m \notin DOMAIN Code!ErasableField
        /\ m \notin DOMAIN Code!NoField \cup DOMAIN Code!ChannelField
        /\ Code!AddressField[m] = WideBasicCodes[m] * \o10000
  BY ChannelCodes, FieldDomains DEF WideBasicCodes, Code!AddressField
<1> QED  BY <1>1, <1>2 DEF Code!base, Code!LargestOperand, BasicBase, BasicLargest

LEMMA ChannelBases ==
  \A m \in DOMAIN Code!ChannelField :
    ExtendedBase(m) = Code!ChannelField[m] /\ ExtendedLargest(m) = \o777
<1>1. \A m \in DOMAIN Code!ChannelField : m \notin DOMAIN Code!NoField
  BY ChannelCodes, FieldDomains
<1> QED  BY <1>1 DEF Code!base, Code!LargestOperand, ExtendedBase, ExtendedLargest

LEMMA MnemonicClasses ==
  /\ \A m : Code!is_extended(m) \/ m = "INDEX" =>
       m \in DOMAIN Code!ChannelField \cup DOMAIN ExtendedCodes \cup DOMAIN WideExtendedCodes
  /\ \A m \in Code!Mnemonic : ~Code!is_extended(m) /\ m \notin DOMAIN Code!NoField =>
       m \in DOMAIN BasicCodes \cup DOMAIN WideBasicCodes
BY ChannelCodes, FieldDomains
   DEF Code!is_extended, Code!Mnemonic, ExtendedCodes, WideExtendedCodes, BasicCodes, WideBasicCodes
LEMMA BranchNames ==
  /\ DOMAIN BranchCodes = {"BZF", "BZMF", "TCF"}
  /\ BranchCodes["BZF"] = "DV" /\ BranchCodes["BZMF"] = "SU" /\ BranchCodes["TCF"] = "CCS"
BY DEF BranchCodes

(* An extracode, or an INDEX behind an EXTEND, is decoded as it was meant; *)
(* but for a branch to erasable memory.                                    *)
LEMMA ExtendedDecodes ==
  ASSUME NEW m, Code!is_extended(m) \/ m = "INDEX",
         NEW k \in Nat, k <= ExtendedLargest(m)
  PROVE  Code!decode(Code!encode_with_context(m, k, TRUE), TRUE) = Code!op(Issued(m, k), k)
<1> DEFINE raw == Code!encode_with_context(m, k, TRUE)
           d == Code!decode(raw, TRUE)
<1>1. raw = ExtendedBase(m) + k
  BY DEF Code!encode_with_context, ExtendedBase
<1>2. d = Code!decodeExtended(raw)
  BY DEF Code!decode
<1> HIDE DEF raw, d
<1>3. CASE m \in DOMAIN Code!ChannelField
  <2>1. PICK c \in 0 .. 7 : Code!ChannelField[m] = c * \o1000 /\ Code!ChannelOps[c + 1] = m
    BY <1>3, ChannelCodes
  <2>2. raw = c * \o1000 + k /\ k <= \o777
    BY <1>1, <1>3, <2>1, ChannelBases
  <2>3. raw \div \o10000 = 0 /\ (raw \div \o1000) % 8 = c /\ raw % \o1000 = k
    BY <2>2
  <2>4. d = Code!op(m, k)
    BY <1>2, <2>1, <2>3 DEF Code!decodeExtended
  <2>5. m \notin DOMAIN BranchCodes
    BY <1>3, ChannelCodes, BranchNames
  <2> QED  BY <2>4, <2>5 DEF Issued, d, raw
<1>4. CASE m \in DOMAIN ExtendedCodes
  <2> DEFINE o == ExtendedCodes[m][1]
             q == ExtendedCodes[m][2]
  <2>1. raw = o * \o10000 + q * \o2000 + k /\ k <= \o1777
    <3>1. o \in Nat /\ q \in Nat
      BY <1>4 DEF ExtendedCodes
    <3>2. ExtendedBase(m) = o * \o10000 + q * \o2000 /\ ExtendedLargest(m) = \o1777
      BY <1>4, ExtendedBases
    <3> HIDE DEF o, q
    <3> QED  BY <1>1, <3>1, <3>2
  <2>2. /\ o \in Nat /\ q \in Nat /\ q <= 3
        /\ o = 1 /\ q = 0 => m = "DV"
        /\ o = 2 => q \in 0 .. 3 /\ Code!ExtendedQuarters[q + 1] = m
        /\ o = 6 => q = 0 /\ m = "SU"
        /\ o \in {1, 2, 6} /\ (o = 1 => q = 0) /\ m \notin DOMAIN BranchCodes
    BY <1>4, BranchNames DEF ExtendedCodes, Code!ExtendedQuarters
  <2> HIDE DEF o, q
  <2>3. raw \div \o10000 = o /\ (raw \div \o2000) % 4 = q /\ raw % \o2000 = k
    BY <2>1, <2>2, FieldsOfWord
  <2>4. d = Code!op(m, k)
    BY <1>2, <2>2, <2>3 DEF Code!decodeExtended
  <2> QED  BY <2>2, <2>4 DEF Issued, d, raw
<1>5. CASE m \in DOMAIN WideExtendedCodes
  <2> DEFINE o == WideExtendedCodes[m]
  <2>1. raw = o * \o10000 + k /\ k <= \o7777
    <3>1. o \in Nat
      BY <1>5 DEF WideExtendedCodes
    <3>2. ExtendedBase(m) = o * \o10000 /\ ExtendedLargest(m) = \o7777
      BY <1>5, ExtendedBases
    <3> HIDE DEF o
    <3> QED  BY <1>1, <3>1, <3>2
  <2>2. /\ o \in {1, 3, 4, 5, 6, 7}
        /\ m = IF o = 1 THEN "BZF" ELSE IF o = 3 THEN "DCA" ELSE IF o = 4 THEN "DCS"
               ELSE IF o = 5 THEN "INDEX" ELSE IF o = 6 THEN "BZMF" ELSE "MP"
    BY <1>5 DEF WideExtendedCodes
  <2> HIDE DEF o
  <2>3. /\ raw \div \o10000 = o /\ raw % \o10000 = k
        /\ (raw \div \o2000) % 4 = 0 <=> k < \o2000
        /\ k < \o2000 => raw % \o2000 = k
    BY <2>1, <2>2
  <2>4. d = Code!op(Issued(m, k), k)
    <3>1. Issued(m, k) = IF k < \o2000 /\ o = 1 THEN "DV"
                         ELSE IF k < \o2000 /\ o = 6 THEN "SU" ELSE m
      BY <2>2, BranchNames DEF Issued
    <3> QED  BY <1>2, <2>2, <2>3, <3>1 DEF Code!decodeExtended
  <2> QED  BY <2>4 DEF d, raw
<1> QED  BY <1>3, <1>4, <1>5, MnemonicClasses

(* A basic instruction is decoded as it was meant, but for the four words  *)
(* that are instructions of their own and a branch to erasable memory.     *)
LEMMA BasicDecodes ==
  ASSUME NEW m \in Code!Mnemonic, ~Code!is_extended(m), m \notin DOMAIN Code!NoField,
         NEW k \in Nat, k <= BasicLargest(m),
         ~(m = "TC" /\ k \in {3, 4, 6}), ~(m = "INDEX" /\ k = \o17)
  PROVE  Code!decode(Code!encode_with_context(m, k, FALSE), FALSE) = Code!op(Issued(m, k), k)
<1> DEFINE raw == Code!encode_with_context(m, k, FALSE)
           d == Code!decode(raw, FALSE)
<1>1. raw = BasicBase(m) + k
  BY DEF Code!encode_with_context, BasicBase
<1>2. d = Code!decodeBasic(raw)
  BY DEF Code!decode
<1> HIDE DEF raw, d
<1>3. CASE m \in DOMAIN BasicCodes
  <2> DEFINE o == BasicCodes[m][1]
             q == BasicCodes[m][2]
  <2>1. raw = o * \o10000 + q * \o2000 + k /\ k <= \o1777
    <3>1. o \in Nat /\ q \in Nat
      BY <1>3 DEF BasicCodes
    <3>2. BasicBase(m) = o * \o10000 + q * \o2000 /\ BasicLargest(m) = \o1777
      BY <1>3, BasicBases
    <3> HIDE DEF o, q
    <3> QED  BY <1>1, <3>1, <3>2
  <2>2. /\ q \in 0 .. 3 /\ o \in {1, 2, 5} /\ m \notin DOMAIN BranchCodes
        /\ o = 1 => q = 0 /\ m = "CCS"
        /\ o = 2 => Code!StoreQuarters[q + 1] = m
        /\ o = 5 => Code!ExchangeQuarters[q + 1] = m
        /\ o = 5 /\ q = 0 => m = "INDEX"
    BY <1>3, BranchNames DEF BasicCodes, Code!StoreQuarters, Code!ExchangeQuarters
  <2> HIDE DEF o, q
  <2>3. raw \div \o10000 = o /\ (raw \div \o2000) % 4 = q /\ raw % \o2000 = k
    BY <2>1, <2>2, FieldsOfWord
  <2>4. raw \notin {3, 4, 6, \o50017}
    BY <2>1, <2>2
  <2>5. d = Code!op(m, k)
    BY <1>2, <2>2, <2>3, <2>4 DEF Code!decodeBasic
  <2> QED  BY <2>2, <2>5 DEF Issued, d, raw
<1>4. CASE m \in DOMAIN WideBasicCodes
  <2> DEFINE o == WideBasicCodes[m]
  <2>1. raw = o * \o10000 + k /\ k <= \o7777
    <3>1. o \in Nat
      BY <1>4 DEF WideBasicCodes
    <3>2. BasicBase(m) = o * \o10000 /\ BasicLargest(m) = \o7777
      BY <1>4, BasicBases
    <3> HIDE DEF o
    <3> QED  BY <1>1, <3>1, <3>2
  <2>2. /\ o \in {0, 1, 3, 4, 6, 7}
        /\ m = IF o = 0 THEN "TC" ELSE IF o = 1 THEN "TCF" ELSE IF o = 3 THEN "CA"
               ELSE IF o = 4 THEN "CS" ELSE IF o = 6 THEN "AD" ELSE "MASK"
    BY <1>4 DEF WideBasicCodes
  <2> HIDE DEF o
  <2>3. /\ raw \div \o10000 = o /\ raw % \o10000 = k
        /\ (raw \div \o2000) % 4 = 0 <=> k < \o2000
        /\ k < \o2000 => raw % \o2000 = k
        /\ raw \notin {3, 4, 6, \o50017}
    BY <2>1, <2>2
  <2>4. d = Code!op(Issued(m, k), k)
    <3>1. Issued(m, k) = IF k < \o2000 /\ o = 1 THEN "CCS" ELSE m
      BY <2>2, BranchNames DEF Issued
    <3> QED  BY <1>2, <2>2, <2>3, <3>1 DEF Code!decodeBasic
  <2> QED  BY <2>4 DEF d, raw
<1> QED  BY <1>3, <1>4, MnemonicClasses

(* So is one without an operand, whatever stands before it.                *)
LEMMA FieldlessDecodes ==
  ASSUME NEW m \in DOMAIN Code!NoField
  PROVE  Code!decode(BasicBase(m) + 0, FALSE) = Code!op(Issued(m, 0), 0)
<1>1. m \in {"RELINT", "INHINT", "EXTEND", "RESUME"} /\ m \notin DOMAIN BranchCodes
  BY FieldDomains, BranchNames
<1>2. BasicBase(m) + 0
        = IF m = "RELINT" THEN 3 ELSE IF m = "INHINT" THEN 4 ELSE IF m = "EXTEND" THEN 6 ELSE \o50017
  BY <1>1 DEF BasicBase, Code!base, Code!NoField
<1>3. \o50017 \div \o10000 = 5
  OBVIOUS
<1> QED  BY <1>1, <1>2, <1>3 DEF Code!decode, Code!decodeBasic, Issued
-----------------------------------------------------------------------------
(* Operands, symbols and the words of a record.                            *)
SymbolValues == Places \cup [kind : {"constant", "absolute"}, value : Int]
Operands ==
  [kind : {"literal"}, value : Int]
    \cup [kind : {"symbol"}, name : STRING \ {""}, offset : Int]
    \cup [kind : {"expression"}, atoms : Seq(Tokens)]
Typed(table) == \A n \in DOMAIN table : table[n] \in SymbolValues
Records ==
  [label : STRING, operation : STRING, operand : Operands,
   bank : {NoBank} \cup UpTo(35), offset : UpTo(\o2000), word : Word]

LEMMA WorthIsInt ==
  ASSUME NEW v \in SymbolValues
  PROVE  worth(v) \in Int
<1>1. CASE v \in FixedPlaces
  BY <1>1 DEF FixedPlaces, UpTo, worth, logical_address, Window
<1>2. CASE v \in ErasablePlaces
  <2>1. v.kind = "erasable" /\ v.bank \in Nat /\ v.offset \in Nat
    BY <1>2 DEF ErasablePlaces, UpTo
  <2> QED  BY <2>1 DEF worth, logical_address, ErasableWindow
<1>3. CASE v \in [kind : {"constant", "absolute"}, value : Int]
  BY <1>3 DEF worth
<1> QED  BY <1>1, <1>2, <1>3 DEF SymbolValues, Places

(* A name, an atom and an operand have at most one value each.             *)
AtMostOne(values) == values = {} \/ \E n \in Int : values = {n}
LEMMA LookedUp ==
  ASSUME NEW name, NEW table, Typed(table)
  PROVE  AtMostOne(Lookup(name, table))
<1>1. CASE name \in DOMAIN table
  <2>1. worth(table[name]) \in Int
    BY <1>1, WorthIsInt DEF Typed
  <2> QED  BY <1>1, <2>1 DEF Lookup, AtMostOne
<1>2. CASE name \notin DOMAIN table
  BY <1>2 DEF Lookup, AtMostOne
<1> QED  BY <1>1, <1>2

LEMMA AtomValue ==
  ASSUME NEW token \in Tokens, NEW table, Typed(table)
  PROVE  AtMostOne(Atom(token, table))
<1>1. CASE token.kind = "literal"
  <2>1. token.value \in Int
    BY <1>1 DEF Tokens
  <2> QED  BY <1>1, <2>1 DEF Atom, AtMostOne
<1>2. CASE token.kind # "literal"
  <2>1. AtMostOne(Lookup(token.name, table)) /\ AtMostOne({})
    BY LookedUp DEF AtMostOne
  <2> QED  BY <1>2, <2>1 DEF Atom
<1> QED  BY <1>1, <1>2

LEMMA ExpressionValue ==
  ASSUME NEW atoms \in Seq(Tokens), NEW table, Typed(table)
  PROVE  AtMostOne(evaluate_expression(atoms, table))
<1>1. CASE Len(atoms) = 3 /\ atoms[2] \in Sign
  <2> DEFINE L == Atom(atoms[1], table)
             R == Atom(atoms[3], table)
             plus == atoms[2].name = "+"
             sums == {IF plus THEN left + right ELSE left - right : left \in L, right \in R}
  <2>1. AtMostOne(L) /\ AtMostOne(R)
    BY <1>1, AtomValue
  <2>2. evaluate_expression(atoms, table) = sums
    BY <1>1 DEF evaluate_expression
  <2> HIDE DEF L, R, plus
  <2>3. CASE L = {} \/ R = {}
    <3>1. sums = {}
      BY <2>3
    <3> HIDE DEF sums
    <3> QED  BY <2>2, <3>1 DEF AtMostOne
  <2>4. CASE L # {} /\ R # {}
    <3>1. PICK l \in Int : L = {l}
      BY <2>1, <2>4 DEF AtMostOne
    <3>2. PICK r \in Int : R = {r}
      BY <2>1, <2>4 DEF AtMostOne
    <3> DEFINE n == IF plus THEN l + r ELSE l - r
    <3>3. n \in Int
      OBVIOUS
    <3>4. sums = {n}
      BY <3>1, <3>2
    <3> HIDE DEF n, sums
    <3> QED  BY <2>2, <3>3, <3>4 DEF AtMostOne
  <2> QED  BY <2>3, <2>4
<1>2. CASE ~(Len(atoms) = 3 /\ atoms[2] \in Sign) /\ Len(atoms) = 1
  <2>1. AtMostOne(Atom(atoms[1], table))
    BY <1>2, AtomValue
  <2> QED  BY <1>2, <2>1 DEF evaluate_expression
<1>3. CASE ~(Len(atoms) = 3 /\ atoms[2] \in Sign) /\ Len(atoms) # 1
  BY <1>3 DEF evaluate_expression, AtMostOne
<1> QED  BY <1>1, <1>2, <1>3

LEMMA OneValue ==
  ASSUME NEW operand \in Operands, NEW table, Typed(table)
  PROVE  Values(operand, table) = {} \/ \E n \in Int : Values(operand, table) = {n}
<1>1. CASE operand \in [kind : {"literal"}, value : Int]
  BY <1>1 DEF Values
<1>2. CASE operand \in [kind : {"symbol"}, name : STRING \ {""}, offset : Int]
  <2> DEFINE found == Lookup(operand.name, table)
  <2>1. operand.offset \in Int /\ AtMostOne(found)
    BY <1>2, LookedUp
  <2>2. Values(operand, table) = {v + operand.offset : v \in found}
    BY <1>2 DEF Values
  <2> HIDE DEF found
  <2>3. CASE found = {}
    BY <2>2, <2>3
  <2>4. ASSUME NEW n \in Int, found = {n}
        PROVE  \E v \in Int : Values(operand, table) = {v}
    <3> DEFINE v == n + operand.offset
    <3>1. v \in Int
      BY <2>1
    <3>2. Values(operand, table) = {v}
      BY <2>2, <2>4
    <3> HIDE DEF v
    <3> QED  BY <3>1, <3>2
  <2> QED  BY <2>1, <2>3, <2>4 DEF AtMostOne
<1>3. CASE operand \in [kind : {"expression"}, atoms : Seq(Tokens)]
  <2>1. AtMostOne(evaluate_expression(operand.atoms, table))
    BY <1>3, ExpressionValue
  <2>2. Values(operand, table) = evaluate_expression(operand.atoms, table)
    BY <1>3 DEF Values
  <2> QED  BY <2>1, <2>2 DEF AtMostOne
<1> QED  BY <1>1, <1>2, <1>3 DEF Operands

LEMMA CountsAreNat ==
  ASSUME NEW r \in Records
  PROVE  emitted_word_count(r) \in Nat
<1>1. r.operand \in Operands
  BY DEF Records
<1>2. r.operand.kind = "literal" => r.operand.value \in Int
  BY <1>1 DEF Operands
<1> QED  BY <1>2 DEF emitted_word_count

LEMMA DoubleWords ==
  ASSUME NEW n \in Int, -MAX_DOUBLE <= n, n <= MAX_DOUBLE
  PROVE  double_words(n) \in Seq(Word) /\ Len(double_words(n)) = 2
<1> DEFINE m == IF n < 0 THEN -n ELSE n
           h == m \div \o40000
           l == m % \o40000
           d == double_from_i64(n)
<1>1. m \in Nat /\ m <= 268435455
  BY DEF MAX_DOUBLE, DoubleBase
<1> HIDE DEF m
<1>2. h \in Nat /\ h <= \o37777 /\ l \in Nat /\ l <= \o37777
  BY <1>1
<1>3. \A v \in Nat : v <= \o37777 => from_i32(v) \in Word /\ from_i32(-v) \in Word
  BY DEF from_i32, Word
<1>4. /\ d.high = IF h = 0 THEN (IF n < 0 THEN \o77777 ELSE 0) ELSE from_i32(IF n < 0 THEN -h ELSE h)
      /\ d.low = IF l = 0 THEN (IF n < 0 THEN \o77777 ELSE 0) ELSE from_i32(IF n < 0 THEN -l ELSE l)
  BY DEF double_from_i64, DoubleBase, m
<1>5. 0 \in Word /\ \o77777 \in Word
  BY DEF Word
<1> HIDE DEF h, l, d
<1>6. d.high \in Word /\ d.low \in Word
  BY <1>2, <1>3, <1>4, <1>5
<1>7. double_words(n) = <<d.high, d.low>>
  BY DEF double_words, d
<1> QED  BY <1>6, <1>7

(* The codes of the instructions, with any operand that fits, are words.   *)
LEMMA CodesAreWords ==
  ASSUME NEW m \in Code!Mnemonic, NEW k \in Nat
  PROVE  /\ k <= ExtendedLargest(m) => ExtendedBase(m) + k \in Word
         /\ k <= BasicLargest(m) => BasicBase(m) + k \in Word
<1>1. \A n \in DOMAIN Code!NoField : Code!NoField[n] \in Nat /\ Code!NoField[n] <= \o77777
  BY DEF Code!NoField
<1>2. \A n \in DOMAIN Code!ChannelField :
        Code!ChannelField[n] \in Nat /\ Code!ChannelField[n] + \o777 <= \o77777
  BY DEF Code!ChannelField
<1>3. \A n \in DOMAIN Code!ErasableField :
        Code!ErasableField[n] \in Nat /\ Code!ErasableField[n] + \o1777 <= \o77777
  BY DEF Code!ErasableField
<1>4. \A n \in DOMAIN Code!AddressField :
        Code!AddressField[n] \in Nat /\ Code!AddressField[n] + \o7777 <= \o77777
  BY DEF Code!AddressField
<1>5. "INDEX" \in DOMAIN Code!AddressField
  BY DEF Code!AddressField
<1>6. k <= BasicLargest(m) => BasicBase(m) \in Nat /\ BasicBase(m) + k <= \o77777
  BY <1>1, <1>2, <1>3, <1>4
     DEF BasicBase, BasicLargest, Code!base, Code!LargestOperand, Code!Mnemonic
<1>7. k <= ExtendedLargest(m) => ExtendedBase(m) \in Nat /\ ExtendedBase(m) + k <= \o77777
  BY <1>1, <1>2, <1>3, <1>4, <1>5
     DEF ExtendedBase, ExtendedLargest, Code!base, Code!LargestOperand, Code!Mnemonic
<1> QED  BY <1>6, <1>7 DEF Word

(* The word of an instruction: its code and its operand, which is what the *)
(* operand field is worth; no extracode without an EXTEND before it.       *)
Carried(m, k, w, extended) ==
  IF extended THEN w = ExtendedBase(m) + k /\ k <= ExtendedLargest(m)
  ELSE w = BasicBase(m) + k /\ k <= BasicLargest(m)
Coded(r, w, extended) ==
  \E k \in Nat :
    /\ Carried(parse(r.operation), k, w, extended)
    /\ IF parse(r.operation) \in DOMAIN Code!NoField THEN k = 0
       ELSE Values(r.operand, symbols) = {k}
    /\ Code!is_extended(parse(r.operation)) => extended

LEMMA EncodedWord ==
  ASSUME NEW m \in Code!Mnemonic, NEW k \in Nat, previous_extend \in BOOLEAN
  PROVE  \/ encode(m, k).words = <<>> /\ encode(m, k).refused # {}
         \/ \E w \in Word : encode(m, k).words = <<w>> /\ Carried(m, k, w, previous_extend)
<1>1. CASE previous_extend = TRUE
  <2>1. CASE k <= ExtendedLargest(m)
    <3>1. encode(m, k).words = <<ExtendedBase(m) + k>>
      BY <1>1, <2>1 DEF encode, Code!Encodable, Code!encode_with_context, Emits,
           ExtendedBase, ExtendedLargest
    <3>2. ExtendedBase(m) + k \in Word
      BY <2>1, CodesAreWords
    <3> QED  BY <1>1, <2>1, <3>1, <3>2 DEF Carried
  <2>2. CASE ~(k <= ExtendedLargest(m))
    BY <1>1, <2>2 DEF encode, Code!Encodable, Refuses, Error, ExtendedLargest
  <2> QED  BY <2>1, <2>2
<1>2. CASE previous_extend = FALSE
  <2>1. CASE k <= BasicLargest(m)
    <3>1. encode(m, k).words = <<BasicBase(m) + k>>
      BY <1>2, <2>1 DEF encode, Code!Encodable, Code!encode_with_context, Emits,
           BasicBase, BasicLargest
    <3>2. BasicBase(m) + k \in Word
      BY <2>1, CodesAreWords
    <3> QED  BY <1>2, <2>1, <3>1, <3>2 DEF Carried
  <2>2. CASE ~(k <= BasicLargest(m))
    BY <1>2, <2>2 DEF encode, Code!Encodable, Refuses, Error, BasicLargest
  <2> QED  BY <2>1, <2>2
<1> QED  BY <1>1, <1>2

LEMMA EmittedInstruction ==
  ASSUME NEW r \in Records, Typed(symbols), previous_extend \in BOOLEAN,
         IsInstruction(r.operation)
  PROVE  \/ emit_record(r).words = <<>> /\ emit_record(r).refused # {}
         \/ \E w \in Word : emit_record(r).words = <<w>> /\ Coded(r, w, previous_extend)
<1> DEFINE m == parse(r.operation)
           values == Values(r.operand, symbols)
           e == emit_instruction(m, values)
<1>1. m \in Code!Mnemonic
  BY DEF IsInstruction
<1>2. emit_record(r) = e
  BY DEF emit_record
<1>3. \A code : Refuses(code).words = <<>> /\ Refuses(code).refused # {}
  BY DEF Refuses, Error
<1>4. CASE m \in DOMAIN Code!NoField
  <2>1. e = encode(m, 0)
    BY <1>4 DEF emit_instruction
  <2>2. ~Code!is_extended(m)
    BY <1>4, FieldDomains, ChannelCodes DEF Code!is_extended
  <2> HIDE DEF m
  <2> QED  BY <1>1, <1>2, <1>4, <2>1, <2>2, EncodedWord DEF Coded, m
<1>5. CASE m \notin DOMAIN Code!NoField
  <2>1. CASE values = {}
    BY <1>2, <1>3, <1>5, <2>1 DEF emit_instruction
  <2>2. CASE values # {}
    <3>1. PICK n \in Int : values = {n}
      BY <2>2, OneValue DEF Records
    <3>2. CASE n \notin Code!Address
      <4>1. values \cap Code!Address = {}
        BY <3>1, <3>2
      <4> QED  BY <1>2, <1>3, <1>5, <2>2, <4>1 DEF emit_instruction
    <3>3. CASE n \in Code!Address
      <4>1. values \cap Code!Address # {} /\ (CHOOSE v \in values : TRUE) = n
        BY <3>1, <3>3
      <4>2. n \in Nat
        BY <3>3 DEF Code!Address, Code!LastAddress
      <4>3. CASE Code!is_extended(m) /\ ~previous_extend
        BY <1>2, <1>3, <1>5, <2>2, <4>1, <4>3 DEF emit_instruction
      <4>4. CASE ~(Code!is_extended(m) /\ ~previous_extend)
        <5>1. e = encode(m, n)
          BY <1>5, <2>2, <4>1, <4>4 DEF emit_instruction
        <5>2. \/ e.words = <<>> /\ e.refused # {}
              \/ \E w \in Word : e.words = <<w>> /\ Carried(m, n, w, previous_extend)
          BY <1>1, <4>2, <5>1, EncodedWord
        <5>3. \A w : Carried(m, n, w, previous_extend) => Coded(r, w, previous_extend)
          BY <1>5, <3>1, <4>2, <4>4 DEF Coded
        <5> QED  BY <1>2, <5>2, <5>3
      <4> QED  BY <4>3, <4>4
    <3> QED  BY <3>2, <3>3
  <2> QED  BY <2>1, <2>2
<1> QED  BY <1>4, <1>5

LEMMA ShortSequences ==
  ASSUME NEW S, NEW a \in S, NEW b \in S
  PROVE  /\ <<>> \in Seq(S)
         /\ <<a>> \in Seq(S) /\ Len(<<a>>) = 1
         /\ <<a, b>> \in Seq(S) /\ Len(<<a, b>>) = 2
OBVIOUS

(* A record is refused, or comes out in as many words as pass one counted. *)
LEMMA EmittedWords ==
  ASSUME NEW r \in Records, Typed(symbols), previous_extend \in BOOLEAN
  PROVE  /\ emit_record(r).words \in Seq(Word)
         /\ emit_record(r).refused = {} => Len(emit_record(r).words) = emitted_word_count(r)
<1> DEFINE o == r.operation
           values == Values(r.operand, symbols)
           e == emit_record(r)
           Good(x) == x.words \in Seq(Word) /\ (x.refused = {} => Len(x.words) = emitted_word_count(r))
<1>1. \A x : x.words = <<>> /\ x.refused # {} => Good(x)
  <2>1. <<>> \in Seq(Word)
    OBVIOUS
  <2> QED  BY <2>1
<1>2. \A code : Good(Refuses(code))
  <2>1. \A code : Refuses(code).words = <<>> /\ Refuses(code).refused # {}
    BY DEF Refuses, Error
  <2> HIDE DEF Good
  <2> QED  BY <1>1, <2>1
<1>3. \A words : words \in Seq(Word) /\ Len(words) = emitted_word_count(r) => Good(Emits(words))
  BY DEF Emits
<1>4. values = {} \/ \E n \in Int : values = {n} /\ (CHOOSE v \in values : TRUE) = n
  <2>1. values = {} \/ \E n \in Int : values = {n}
    BY OneValue DEF Records
  <2> HIDE DEF values
  <2> QED  BY <2>1
<1>5. ASSUME IsInstruction(o)  PROVE Good(e)
  <2>1. emitted_word_count(r) = 1
    BY <1>5 DEF emitted_word_count
  <2>2. \/ e.words = <<>> /\ e.refused # {}
        \/ \E w \in Word : e.words = <<w>>
    BY <1>5, EmittedInstruction
  <2> HIDE DEF e
  <2>3. CASE e.words = <<>> /\ e.refused # {}
    <3> HIDE DEF Good
    <3> QED  BY <1>1, <2>3
  <2>4. ASSUME NEW w \in Word, e.words = <<w>>  PROVE Good(e)
    BY <2>1, <2>4, ShortSequences
  <2> HIDE DEF Good
  <2> QED  BY <2>2, <2>3, <2>4
<1>6. ASSUME ~IsInstruction(o), o \in SingleWords  PROVE Good(e)
  <2>1. emitted_word_count(r) = 1
    BY <1>6 DEF emitted_word_count
  <2>2. e = IF values = {} THEN Refuses("AGCA041")
            ELSE IF values \cap Word = {} THEN Refuses("AGCA040")
            ELSE Emits(<<CHOOSE v \in values : TRUE>>)
    BY <1>6 DEF emit_record
  <2> HIDE DEF values, e, Good
  <2>3. \A n \in Word : <<n>> \in Seq(Word) /\ Len(<<n>>) = 1
    BY ShortSequences
  <2>4. \A n \in Word : Good(Emits(<<n>>))
    BY <1>3, <2>1, <2>3
  <2> QED  BY <1>2, <1>4, <2>2, <2>4
<1>7. ASSUME ~IsInstruction(o), o \in AddressPairs  PROVE Good(e)
  <2>1. emitted_word_count(r) = 2 /\ o \notin SingleWords
    BY <1>7 DEF emitted_word_count, AddressPairs, SingleWords
  <2>2. e = IF values = {} THEN Refuses("AGCA041")
            ELSE IF values \cap Word = {} THEN Refuses("AGCA040")
            ELSE Emits(<<CHOOSE v \in values : TRUE, 0>>)
    BY <1>7, <2>1 DEF emit_record
  <2> HIDE DEF values, e, Good
  <2>3. \A n \in Word : <<n, 0>> \in Seq(Word) /\ Len(<<n, 0>>) = 2
    <3>1. 0 \in Word
      BY DEF Word
    <3> QED  BY <3>1, ShortSequences
  <2>4. \A n \in Word : Good(Emits(<<n, 0>>))
    BY <1>3, <2>1, <2>3
  <2> QED  BY <1>2, <1>4, <2>2, <2>4
<1>8. ASSUME ~IsInstruction(o), o = "DEC"  PROVE Good(e)
  <2>1. emitted_word_count(r) = 1 /\ o \notin SingleWords /\ o \notin AddressPairs
    BY <1>8 DEF emitted_word_count, AddressPairs, SingleWords
  <2>2. e = IF values = {} THEN Refuses("AGCA043")
            ELSE IF values \cap (-MAX_MAGNITUDE .. MAX_MAGNITUDE) = {} THEN Refuses("AGCA042")
            ELSE Emits(<<from_i32(CHOOSE v \in values : TRUE)>>)
    BY <1>8, <2>1 DEF emit_record
  <2> HIDE DEF values, e, Good
  <2>3. \A n \in -MAX_MAGNITUDE .. MAX_MAGNITUDE : from_i32(n) \in Word
    BY DEF MAX_MAGNITUDE, from_i32, Word
  <2>4. \A n \in -MAX_MAGNITUDE .. MAX_MAGNITUDE : Good(Emits(<<from_i32(n)>>))
    BY <1>3, <2>1, <2>3
  <2> QED  BY <1>2, <1>4, <2>2, <2>4
<1>9. ASSUME ~IsInstruction(o), o \in DoubleNumbers  PROVE Good(e)
  <2>1. /\ emitted_word_count(r) = 2 /\ o \notin SingleWords /\ o \notin AddressPairs /\ o # "DEC"
        /\ o = "2DEC" \/ o = "2OCT"
    BY <1>9 DEF emitted_word_count, AddressPairs, SingleWords, DoubleNumbers
  <2>2. CASE o = "2DEC"
    <3>1. e = IF values = {} THEN Refuses("AGCA044")
              ELSE IF values \cap (-MAX_DOUBLE .. MAX_DOUBLE) = {} THEN Refuses("AGCA045")
              ELSE Emits(double_words(CHOOSE v \in values : TRUE))
      BY <1>9, <2>1, <2>2 DEF emit_record
    <3> HIDE DEF values, e, Good
    <3>2. MAX_DOUBLE \in Nat
      BY DEF MAX_DOUBLE, DoubleBase
    <3>3. \A n \in -MAX_DOUBLE .. MAX_DOUBLE : Good(Emits(double_words(n)))
      BY <1>3, <2>1, <3>2, DoubleWords
    <3> QED  BY <1>2, <1>4, <3>1, <3>3
  <2>3. CASE o = "2OCT"
    <3> DEFINE Octal(v) == <<(v \div DoubleBase) % DoubleBase, v % DoubleBase>>
    <3>1. e = IF values = {} THEN Refuses("AGCA044")
              ELSE IF values \cap (0 .. MAX_DOUBLE) = {} THEN Refuses("AGCA046")
              ELSE Emits(Octal(CHOOSE v \in values : TRUE))
      BY <1>9, <2>1, <2>3 DEF emit_record
    <3> HIDE DEF values, e, Good
    <3>2. \A n \in Int : Octal(n) \in Seq(Word) /\ Len(Octal(n)) = 2
      BY DEF DoubleBase, Word
    <3>3. \A n \in Int : Good(Emits(Octal(n)))
      BY <1>3, <2>1, <3>2
    <3> HIDE DEF Octal
    <3> QED  BY <1>2, <1>4, <3>1, <3>3
  <2> QED  BY <2>1, <2>2, <2>3
<1>10. ASSUME ~IsInstruction(o), o \notin SingleWords, o \notin AddressPairs, o # "DEC",
             o \notin DoubleNumbers
      PROVE  Good(e)
  <2> DEFINE blank == [i \in 1 .. emitted_word_count(r) |-> 0]
  <2>1. o # "2DEC" /\ o # "2OCT"
    BY <1>10 DEF DoubleNumbers
  <2>2. e = Emits(blank)
    BY <1>10, <2>1 DEF emit_record
  <2>3. blank \in Seq(Word) /\ Len(blank) = emitted_word_count(r)
    BY CountsAreNat DEF Word
  <2> HIDE DEF e, Good, blank
  <2> QED  BY <1>3, <2>2, <2>3
<1>11. Good(e)
  <2> HIDE DEF Good, e, o
  <2> QED  BY <1>5, <1>6, <1>7, <1>8, <1>9, <1>10
<1> QED  BY <1>11

LEMMA LargestDouble == MAX_DOUBLE = 268435455 /\ MAX_DOUBLE \in Nat
BY DEF MAX_DOUBLE, DoubleBase

(* What the two words of a double number are read back as.                 *)
LEMMA DoubleReadsBack ==
  ASSUME NEW n \in Int, -MAX_DOUBLE <= n, n <= MAX_DOUBLE
  PROVE  to_i32_lossy_zero(double_words(n)[1]) * DoubleBase
           + to_i32_lossy_zero(double_words(n)[2]) = n
<1> DEFINE m == IF n < 0 THEN -n ELSE n
           h == m \div \o40000
           l == m % \o40000
           word(v) == IF v = 0 THEN (IF n < 0 THEN \o77777 ELSE 0)
                      ELSE from_i32(IF n < 0 THEN -v ELSE v)
           value(v) == IF n < 0 THEN -v ELSE v
<1>1. m \in Nat /\ m <= 268435455 /\ n = IF n < 0 THEN -m ELSE m
  BY LargestDouble
<1>2. double_words(n) = <<word(h), word(l)>>
  BY DEF double_words, double_from_i64, DoubleBase
<1> HIDE DEF m
<1>3. /\ h \in Nat /\ h <= \o37777 /\ l \in Nat /\ l <= \o37777
      /\ m = h * \o40000 + l
  BY <1>1
<1>4. \A v \in Nat : v <= \o37777 => to_i32_lossy_zero(word(v)) = value(v)
  BY DEF to_i32_lossy_zero, is_negative, from_i32
<1> HIDE DEF h, l, word
<1>5. value(h) * \o40000 + value(l) = n
  BY <1>1, <1>3
<1> HIDE DEF value
<1>6. /\ to_i32_lossy_zero(double_words(n)[1]) = value(h)
      /\ to_i32_lossy_zero(double_words(n)[2]) = value(l)
  <2>1. double_words(n)[1] = word(h) /\ double_words(n)[2] = word(l)
    BY <1>2
  <2> QED  BY <1>3, <1>4, <2>1
<1> QED  BY <1>5, <1>6 DEF DoubleBase

(* A record of data that is not refused comes out as words that read back  *)
(* as the value of its operand.                                            *)
LEMMA EmittedData ==
  ASSUME NEW r \in Records, Typed(symbols), ~IsInstruction(r.operation),
         emit_record(r).refused = {}
  PROVE  DataHeld(r, emit_record(r).words)
<1> DEFINE o == r.operation
           values == Values(r.operand, symbols)
           words == emit_record(r).words
<1>1. \A code : Refuses(code).refused # {}
  BY DEF Refuses, Error
<1>2. \A x : Emits(x).words = x
  BY DEF Emits
<1>3. values = {} \/ \E n \in Int : values = {n} /\ (CHOOSE v \in values : TRUE) = n
  <2>1. values = {} \/ \E n \in Int : values = {n}
    BY OneValue DEF Records
  <2> HIDE DEF values
  <2> QED  BY <2>1
<1>4. CASE o \in SingleWords
  <2>1. o \notin AddressPairs /\ o \notin {"DEC", "2DEC", "2OCT", "ERASE", "BNKSUM"}
    BY <1>4 DEF SingleWords, AddressPairs
  <2>2. emit_record(r) = IF values = {} THEN Refuses("AGCA041")
                         ELSE IF values \cap Word = {} THEN Refuses("AGCA040")
                         ELSE Emits(<<CHOOSE v \in values : TRUE>>)
    BY <1>4 DEF emit_record
  <2> HIDE DEF values, o
  <2>3. PICK n \in Int : values = {n} /\ words = <<n>>
    BY <1>1, <1>2, <1>3, <2>2
  <2>4. values = {words[1]}
    BY <2>3
  <2> HIDE DEF words
  <2> QED  BY <2>1, <2>4 DEF DataHeld, words, values, o
<1>5. CASE o \in AddressPairs
  <2>1. o \notin SingleWords /\ o \notin {"DEC", "2DEC", "2OCT", "ERASE", "BNKSUM"}
    BY <1>5 DEF SingleWords, AddressPairs
  <2>2. emit_record(r) = IF values = {} THEN Refuses("AGCA041")
                         ELSE IF values \cap Word = {} THEN Refuses("AGCA040")
                         ELSE Emits(<<CHOOSE v \in values : TRUE, 0>>)
    BY <1>5, <2>1 DEF emit_record
  <2> HIDE DEF values, o
  <2>3. PICK n \in Int : values = {n} /\ words = <<n, 0>>
    BY <1>1, <1>2, <1>3, <2>2
  <2>4. values = {words[1]} /\ words[2] = 0
    BY <2>3
  <2> HIDE DEF words
  <2> QED  BY <2>1, <2>4 DEF DataHeld, words, values, o
<1>6. CASE o = "DEC"
  <2>1. o \notin SingleWords /\ o \notin AddressPairs
    BY <1>6 DEF SingleWords, AddressPairs
  <2>2. emit_record(r)
          = IF values = {} THEN Refuses("AGCA043")
            ELSE IF values \cap (-MAX_MAGNITUDE .. MAX_MAGNITUDE) = {} THEN Refuses("AGCA042")
            ELSE Emits(<<from_i32(CHOOSE v \in values : TRUE)>>)
    BY <1>6, <2>1 DEF emit_record
  <2> HIDE DEF values, o
  <2>3. PICK n \in Int : /\ values = {n} /\ words = <<from_i32(n)>>
                         /\ n \in -MAX_MAGNITUDE .. MAX_MAGNITUDE
    BY <1>1, <1>2, <1>3, <2>2
  <2>4. to_i32_lossy_zero(from_i32(n)) = n
    BY <2>3 DEF to_i32_lossy_zero, from_i32, is_negative, MAX_MAGNITUDE
  <2>5. values = {to_i32_lossy_zero(words[1])}
    BY <2>3, <2>4
  <2> HIDE DEF words
  <2> QED  BY <1>6, <2>1, <2>5 DEF DataHeld, words, values, o
<1>7. CASE o = "2DEC"
  <2>1. o \notin SingleWords /\ o \notin AddressPairs
    BY <1>7 DEF SingleWords, AddressPairs
  <2>2. emit_record(r)
          = IF values = {} THEN Refuses("AGCA044")
            ELSE IF values \cap (-MAX_DOUBLE .. MAX_DOUBLE) = {} THEN Refuses("AGCA045")
            ELSE Emits(double_words(CHOOSE v \in values : TRUE))
    BY <1>7, <2>1 DEF emit_record
  <2> HIDE DEF values, o
  <2>3. PICK n \in Int : /\ values = {n} /\ words = double_words(n)
                         /\ n \in -MAX_DOUBLE .. MAX_DOUBLE
    BY <1>1, <1>2, <1>3, <2>2
  <2>4. -MAX_DOUBLE <= n /\ n <= MAX_DOUBLE
    <3> HIDE DEF words
    <3>1. MAX_DOUBLE \in Nat
      BY LargestDouble
    <3> QED  BY <2>3, <3>1
  <2>5. values = {to_i32_lossy_zero(words[1]) * DoubleBase + to_i32_lossy_zero(words[2])}
    BY <2>3, <2>4, DoubleReadsBack
  <2> HIDE DEF words
  <2> QED  BY <1>7, <2>1, <2>5 DEF DataHeld, words, values, o
<1>8. CASE o = "2OCT"
  <2> DEFINE Octal(v) == <<(v \div DoubleBase) % DoubleBase, v % DoubleBase>>
  <2>1. o \notin SingleWords /\ o \notin AddressPairs
    BY <1>8 DEF SingleWords, AddressPairs
  <2>2. emit_record(r) = IF values = {} THEN Refuses("AGCA044")
                         ELSE IF values \cap (0 .. MAX_DOUBLE) = {} THEN Refuses("AGCA046")
                         ELSE Emits(Octal(CHOOSE v \in values : TRUE))
    BY <1>8, <2>1 DEF emit_record
  <2> HIDE DEF values, o, Octal
  <2>3. PICK n \in Int : values = {n} /\ words = Octal(n) /\ n \in 0 .. MAX_DOUBLE
    BY <1>1, <1>2, <1>3, <2>2
  <2>4. words[1] * DoubleBase + words[2] = n
    <3> HIDE DEF words
    <3>1. n \in Nat /\ n <= 268435455
      <4>1. MAX_DOUBLE \in Nat
        BY LargestDouble
      <4>2. n \in Nat /\ n <= MAX_DOUBLE
        BY <2>3, <4>1
      <4> QED  BY <4>2, LargestDouble
    <3> DEFINE h == n \div \o40000
               l == n % \o40000
    <3>2. h \in Nat /\ h <= \o37777 /\ n = h * \o40000 + l
      BY ONLY <3>1
    <3>3. (h % \o40000) * \o40000 + l = n
      <4> HIDE DEF h, l
      <4> QED  BY ONLY <3>2
    <3> QED  BY <2>3, <3>3 DEF Octal, DoubleBase
  <2>5. values = {words[1] * DoubleBase + words[2]}
    BY <2>3, <2>4
  <2> HIDE DEF words
  <2> QED  BY <1>8, <2>1, <2>5 DEF DataHeld, words, values, o
<1>9. CASE o \notin SingleWords \cup AddressPairs \cup {"DEC", "2DEC", "2OCT"}
  <2>1. words = [i \in 1 .. emitted_word_count(r) |-> 0]
    BY <1>9 DEF emit_record, Emits
  <2>2. \A k \in DOMAIN words : words[k] = 0
    BY <2>1
  <2> HIDE DEF words
  <2> QED  BY <1>9, <2>2 DEF DataHeld, words
<1> QED  BY <1>4, <1>5, <1>6, <1>7, <1>8, <1>9
-----------------------------------------------------------------------------
(* Definitions, and a round of equates.                                    *)
Extends(table, larger) ==
  DOMAIN table \subseteq DOMAIN larger /\ \A n \in DOMAIN table : larger[n] = table[n]

LEMMA DefinitionsStay ==
  ASSUME NEW table, Typed(table), NEW name, NEW v \in SymbolValues
  PROVE  /\ Typed(define(table, name, v))
         /\ Extends(table, define(table, name, v))
         /\ name \in DOMAIN define(table, name, v)
         /\ Defines(table, name) => define(table, name, v)[name] = v
BY DEF define, Defines, Typed, Extends

LEMMA ValuesOfEquates ==
  ASSUME NEW n \in Int
  PROVE  EquateValue(n) \in SymbolValues
BY DEF EquateValue, SymbolValues, Constant, Absolute

(* What a round has made of the equates tried so far.                      *)
RoundState(s) ==
  /\ s = [pending |-> s.pending, symbols |-> s.symbols, duplicates |-> s.duplicates]
  /\ Typed(s.symbols) /\ Extends(symbols, s.symbols)
  /\ s.pending \in Seq(DOMAIN records)

LEMMA TryKeeps ==
  ASSUME records \in Seq(Records), NEW s, RoundState(s), NEW i \in DOMAIN records
  PROVE  RoundState(Try(s, i))
<1> DEFINE values == Values(records[i].operand, s.symbols)
           n == CHOOSE v \in values : TRUE
           t == Try(s, i)
<1>1. records[i].operand \in Operands
  <2>1. records[i] \in Records
    OBVIOUS
  <2> QED  BY <2>1 DEF Records
<1>2. CASE values = {}
  <2>1. t = [s EXCEPT !.pending = Append(@, i)]
    BY <1>2 DEF Try
  <2>2. t = [pending |-> Append(s.pending, i), symbols |-> s.symbols, duplicates |-> s.duplicates]
    <3> DEFINE p == s.pending
               y == s.symbols
               d == s.duplicates
    <3>1. s = [pending |-> p, symbols |-> y, duplicates |-> d]
      BY DEF RoundState
    <3> HIDE DEF p, y, d, t
    <3>2. t = [[pending |-> p, symbols |-> y, duplicates |-> d] EXCEPT !.pending = Append(@, i)]
      BY <2>1, <3>1
    <3>3. t = [pending |-> Append(p, i), symbols |-> y, duplicates |-> d]
      BY <3>2
    <3> QED  BY <3>3 DEF p, y, d
  <2>3. Append(s.pending, i) \in Seq(DOMAIN records)
    <3>1. s.pending \in Seq(DOMAIN records)
      BY DEF RoundState
    <3> DEFINE S == DOMAIN records
    <3>2. s.pending \in Seq(S) /\ i \in S
      BY <3>1
    <3> HIDE DEF S
    <3>3. Append(s.pending, i) \in Seq(S)
      BY <3>2
    <3> QED  BY <3>3 DEF S
  <2> HIDE DEF t
  <2>4. t.pending = Append(s.pending, i) /\ t.symbols = s.symbols /\ t.duplicates = s.duplicates
    BY <2>2
  <2>5. t = [pending |-> t.pending, symbols |-> t.symbols, duplicates |-> t.duplicates]
    BY <2>2, <2>4
  <2>6. Typed(s.symbols) /\ Extends(symbols, s.symbols)
    BY DEF RoundState
  <2>7. Typed(t.symbols) /\ Extends(symbols, t.symbols) /\ t.pending \in Seq(DOMAIN records)
    BY <2>3, <2>4, <2>6
  <2>8. RoundState(t)
    BY <2>5, <2>7 DEF RoundState
  <2> QED  BY <2>8 DEF t
<1>3. CASE values # {}
  <2>1. n \in Int
    BY <1>1, <1>3, OneValue DEF RoundState
  <2> DEFINE larger == define(s.symbols, records[i].label, EquateValue(n))
  <2>2. \E d : t = [pending |-> s.pending, symbols |-> larger, duplicates |-> d]
    BY <1>3 DEF Try
  <2>3. Typed(larger) /\ Extends(s.symbols, larger)
    BY <2>1, ValuesOfEquates, DefinitionsStay DEF RoundState
  <2>4. Extends(symbols, larger)
    <3> HIDE DEF larger
    <3> QED  BY <2>3 DEF RoundState, Extends
  <2> HIDE DEF larger, t
  <2> QED  BY <2>2, <2>3, <2>4 DEF RoundState, t
<1> QED  BY <1>2, <1>3

Nothing == [pending |-> <<>>, symbols |-> symbols, duplicates |-> {}]
Tried(t, n) ==
  t = [k \in 0 .. n |-> IF k = 0 THEN Nothing ELSE Try(t[k - 1], equates[k])]
TriedAll == CHOOSE t : Tried(t, Len(equates))

LEMMA RoundRuns == Round = TriedAll[Len(equates)]
BY DEF Round, TriedAll, Tried, Nothing

LEMMA TriedExist ==
  ASSUME NEW n \in Nat
  PROVE  \E t : Tried(t, n)
<1> DEFINE T == {m \in Nat : ~ \E t : Tried(t, m)}
<1>1. SUFFICES ASSUME T # {}  PROVE FALSE
  OBVIOUS
<1>2. PICK m \in T : \A l \in T : m <= l
  <2>1. T \in SUBSET Nat
    OBVIOUS
  <2> HIDE DEF T
  <2> QED  BY <1>1, <2>1, LeastNatural
<1>3. m # 0
  <2> DEFINE t == [k \in 0 .. 0 |-> Nothing]
  <2>1. Tried(t, 0)
    BY DEF Tried
  <2> QED  BY <2>1
<1>4. PICK t : Tried(t, m - 1)
  <2>1. m - 1 \in Nat /\ m - 1 \notin T
    BY <1>2, <1>3
  <2> QED  BY <2>1
<1> DEFINE u == [k \in 0 .. m |-> IF k = m THEN Try(t[m - 1], equates[m]) ELSE t[k]]
<1>5. m \in Nat
  OBVIOUS
<1>6. ASSUME NEW k \in 0 .. m
      PROVE  u[k] = IF k = 0 THEN Nothing ELSE Try(u[k - 1], equates[k])
  <2>1. k # 0 => u[k - 1] = t[k - 1]
    BY <1>5
  <2>2. k # m => t[k] = IF k = 0 THEN Nothing ELSE Try(t[k - 1], equates[k])
    BY <1>4, <1>5 DEF Tried
  <2> QED  BY <1>3, <2>1, <2>2
<1>7. u = [k \in 0 .. m |-> IF k = 0 THEN Nothing ELSE Try(u[k - 1], equates[k])]
  <2>1. u = [k \in 0 .. m |-> u[k]]
    OBVIOUS
  <2> HIDE DEF u
  <2> QED  BY <1>6, <2>1
<1> HIDE DEF u
<1>8. Tried(u, m)
  BY <1>7 DEF Tried
<1> QED  BY <1>8

LEMMA RoundTyped ==
  ASSUME records \in Seq(Records), Typed(symbols), equates \in Seq(DOMAIN records)
  PROVE  RoundState(Round)
<1> DEFINE t == TriedAll
           size == Len(equates)
           T == {n \in 0 .. size : ~RoundState(t[n])}
<1>1. size \in Nat
  OBVIOUS
<1>2. Tried(t, size)
  BY <1>1, TriedExist DEF TriedAll
<1> HIDE DEF t
<1>3. \A k \in 0 .. size : t[k] = IF k = 0 THEN Nothing ELSE Try(t[k - 1], equates[k])
  BY <1>2 DEF Tried
<1>4. ASSUME T # {}  PROVE FALSE
  <2>1. PICK m \in T : \A l \in T : m <= l
    <3>1. T \in SUBSET Nat
      OBVIOUS
    <3> HIDE DEF T
    <3> QED  BY <1>4, <3>1, LeastNatural
  <2>2. CASE m = 0
    <3>1. t[m] = Nothing
      BY <1>1, <1>3, <2>2
    <3>2. <<>> \in Seq(DOMAIN records)
      OBVIOUS
    <3>3. RoundState(Nothing)
      BY <3>2 DEF RoundState, Nothing, Extends
    <3> QED  BY <2>1, <3>1, <3>3
  <2>3. CASE m # 0
    <3>1. m - 1 \in 0 .. size /\ m - 1 \notin T /\ m \in 1 .. size
      BY <1>1, <2>1, <2>3
    <3>2. RoundState(t[m - 1])
      BY <3>1
    <3>3. equates[m] \in DOMAIN records
      BY <3>1
    <3>4. t[m] = Try(t[m - 1], equates[m])
      BY <1>3, <2>3
    <3> QED  BY <2>1, <3>2, <3>3, <3>4, TryKeeps
  <2> QED  BY <2>2, <2>3
<1>5. size \in 0 .. size
  BY <1>1
<1>6. RoundState(t[size])
  BY <1>4, <1>5
<1> QED  BY <1>6, RoundRuns DEF t
-----------------------------------------------------------------------------
(* The texts being expanded, and the types of what the passes keep.        *)
Frames == [path : DOMAIN cache, line : Nat \ {0}]
TextInv ==
  /\ route = "native" => source \in Sources
  /\ \A path \in DOMAIN cache : cache[path] \in Seq(Lines)
  /\ stack \in Seq(Frames)
RecordsInv ==
  /\ records \in Seq(Records)
  /\ Typed(symbols)
  /\ location \in Places
  /\ equates \in Seq(DOMAIN records)
  /\ next \in Nat \ {0}
  /\ previous_extend \in BOOLEAN

LEMMA RecordTyped ==
  ASSUME RecordsInv
  PROVE  /\ \A i \in DOMAIN records : records[i] \in Records
         /\ DOMAIN records = 1 .. Len(records) /\ Len(records) \in Nat
         /\ next \in Nat \ {0}
<1>1. records \in Seq(Records) /\ next \in Nat \ {0}
  BY DEF RecordsInv
<1> QED  BY <1>1

LEMMA WiderSequence ==
  ASSUME NEW S, NEW T, S \subseteq T, NEW s \in Seq(S)
  PROVE  s \in Seq(T)
OBVIOUS

LEMMA Appending ==
  ASSUME NEW S, NEW s \in Seq(S), NEW x \in S
  PROVE  Append(s, x) \in Seq(S)
OBVIOUS

LEMMA FrontAndLast ==
  ASSUME NEW S, NEW s \in Seq(S), s # <<>>
  PROVE  /\ Front(s) \in Seq(S) /\ Last(s) \in S
BY DEF Front, Last

(* An edited text is one of lines.                                         *)
EditedOf(given, path) == apply_to_source(given.overlay, path, given.tree[path])

LEMMA EditedTyped ==
  ASSUME NEW given \in Sources, NEW path \in DOMAIN given.tree, EditedOf(given, path) # Failure
  PROVE  EditedOf(given, path) \in Seq(Lines)
<1> DEFINE text == given.tree[path]
           Fitting == EditsOf(given.overlay, path)
           edited == [i \in DOMAIN text |->
                        IF \E edit \in Fitting : edit.line = i
                        THEN (CHOOSE edit \in Fitting : edit.line = i).replacement ELSE text[i]]
<1>1. text \in Seq(Lines) /\ \A edit \in Fitting : edit.replacement \in Lines
  <2>1. text \in Seq(Lines) /\ given.overlay.edits \in Seq(Edits)
    BY SourcesAssumption
  <2>2. \A edit \in ToSet(given.overlay.edits) : edit \in Edits
    BY <2>1 DEF ToSet
  <2> QED  BY <2>1, <2>2 DEF EditsOf, Edits
<1>2. EditedOf(given, path) = edited
  BY DEF EditedOf, apply_to_source
<1> HIDE DEF text, Fitting
<1>3. \A i \in DOMAIN text : edited[i] \in Lines
  <2> SUFFICES ASSUME NEW i \in DOMAIN text  PROVE edited[i] \in Lines
    OBVIOUS
  <2>1. CASE \E edit \in Fitting : edit.line = i
    <3>1. (CHOOSE edit \in Fitting : edit.line = i) \in Fitting
      BY <2>1
    <3> QED  BY <1>1, <2>1, <3>1
  <2>2. CASE ~ \E edit \in Fitting : edit.line = i
    BY <1>1, <2>2
  <2> QED  BY <2>1, <2>2
<1>4. DOMAIN text = 1 .. Len(text) /\ Len(text) \in Nat
  BY <1>1
<1>5. edited = [i \in 1 .. Len(text) |-> edited[i]]
  BY <1>4
<1> HIDE DEF edited
<1>6. edited \in Seq(Lines)
  BY <1>3, <1>4, <1>5
<1> QED  BY <1>2, <1>6

(* A file that is entered is in the cache, and is a text of lines.         *)
LEMMA EnteringTyped ==
  ASSUME TextInv, route = "native", NEW path, Readable(path),
         NEW below \in Seq(Frames), Enters(path, below)
  PROVE  /\ \A p \in DOMAIN cache' : cache'[p] \in Seq(Lines)
         /\ stack' \in Seq(Frames')
<1>1. path \in DOMAIN cache' /\ DOMAIN cache \subseteq DOMAIN cache'
  BY DEF Enters
<1>2. Frames \subseteq Frames'
  BY <1>1 DEF Frames
<1>3. [path |-> path, line |-> 1] \in Frames'
  BY <1>1 DEF Frames
<1>4. stack' = Append(below, [path |-> path, line |-> 1])
  BY DEF Enters
<1>5. stack' \in Seq(Frames')
  <2> HIDE DEF Frames
  <2>1. below \in Seq(Frames')
    BY <1>2, WiderSequence
  <2> QED  BY <1>3, <1>4, <2>1, Appending
<1>6. CASE path \in DOMAIN cache
  <2>1. cache' = cache
    BY <1>6 DEF Enters
  <2> QED  BY <1>5, <2>1 DEF TextInv
<1>7. CASE path \notin DOMAIN cache
  <2>1. path \in DOMAIN source.tree /\ Edited(path) # Failure
    BY <1>7 DEF Readable
  <2>2. Edited(path) \in Seq(Lines)
    BY <2>1, EditedTyped DEF TextInv, Edited, EditedOf
  <2>3. cache' = [p \in DOMAIN cache \cup {path} |-> IF p = path THEN Edited(path) ELSE cache[p]]
    BY <1>7 DEF Enters
  <2>4. \A p \in DOMAIN cache' : cache'[p] \in Seq(Lines)
    BY <2>2, <2>3 DEF TextInv
  <2> QED  BY <1>5, <2>4
<1> QED  BY <1>6, <1>7

(* The frame on top of the stack, moved on by a line.                      *)
LEMMA TopTyped ==
  ASSUME TextInv, stack # <<>>
  PROVE  /\ Top \in Frames /\ Front(stack) \in Seq(Frames)
         /\ Append(Front(stack), [Top EXCEPT !.line = @ + 1]) \in Seq(Frames)
<1>1. Top \in Frames /\ Front(stack) \in Seq(Frames)
  BY FrontAndLast DEF TextInv, Top
<1>2. [Top EXCEPT !.line = @ + 1] \in Frames
  BY <1>1 DEF Frames
<1> QED  BY <1>1, <1>2, Appending

LEMMA LineTyped ==
  ASSUME TextInv, AtLine
  PROVE  TheLine \in Lines
<1>1. Top \in Frames
  BY TopTyped DEF AtLine
<1>2. cache[Top.path] \in Seq(Lines) /\ Top.line \in Nat \ {0}
  BY <1>1 DEF TextInv, Frames
<1> QED  BY <1>2 DEF TheLine, AtLine

LEMMA TextStep ==
  ASSUME TextInv, route = "native", route' = route, NextAssembler
  PROVE  TextInv'
<1>1. ASSUME UNCHANGED <<source, cache, stack>>  PROVE TextInv'
  BY <1>1 DEF TextInv, Frames
<1>2. source' = source
  BY DEF NextAssembler, expand_program, expand_include, expand_statement, leave_file, assign,
     assigned, resolve_equates, equates_resolved, emit, assembled, fail
<1>3. ASSUME fail  PROVE TextInv'
  BY <1>1, <1>3 DEF fail, expansion
<1>4. ASSUME NEW path, Readable(path), NEW below \in Seq(Frames), Enters(path, below)
      PROVE  TextInv'
  <2>1. (\A p \in DOMAIN cache' : cache'[p] \in Seq(Lines)) /\ stack' \in Seq(Frames')
    BY <1>4, EnteringTyped
  <2> QED  BY <1>2, <2>1 DEF TextInv
<1>5. CASE expand_program
  <2>1. <<>> \in Seq(Frames)
    OBVIOUS
  <2>2. fail \/ (Readable(source.entry) /\ Enters(source.entry, <<>>))
    BY <1>5 DEF expand_program
  <2> QED  BY <1>3, <1>4, <2>1, <2>2
<1>6. CASE expand_include
  <2>1. stack # <<>>
    BY <1>6 DEF expand_include, AtLine
  <2>2. Below \in Seq(Frames)
    BY <2>1, TopTyped DEF Below
  <2>3. fail \/ \E path : Readable(path) /\ Enters(path, Below)
    BY <1>6 DEF expand_include
  <2> QED  BY <1>3, <1>4, <2>2, <2>3
<1>7. CASE expand_statement
  <2>1. stack # <<>> /\ cache' = cache
    BY <1>7 DEF expand_statement, AtLine
  <2>2. stack' \in Seq(Frames)
    BY <1>7, <2>1, TopTyped DEF expand_statement
  <2> QED  BY <1>2, <2>1, <2>2 DEF TextInv, Frames
<1>8. CASE leave_file
  <2>1. stack # <<>> /\ cache' = cache
    BY <1>8 DEF leave_file
  <2>2. stack' \in Seq(Frames)
    BY <1>8, <2>1, TopTyped DEF leave_file
  <2> QED  BY <1>2, <2>1, <2>2 DEF TextInv, Frames
<1>9. CASE assign \/ assigned \/ resolve_equates \/ equates_resolved \/ emit \/ assembled
  BY <1>1, <1>9 DEF assign, assigned, resolve_equates, equates_resolved, emit, assembled,
     expansion
<1> QED  BY <1>5, <1>6, <1>7, <1>8, <1>9 DEF NextAssembler

(* A directive puts the location counter at a place that there is.         *)
LEMMA SetLocations ==
  ASSUME NEW a \in Nat, a <= \o7777
  PROVE  set_location(a) \in Places
<1>1. CASE a < \o2000
  <2> DEFINE b == IF a < \o1400 THEN a \div \o400 ELSE 0
             o == a % \o400
  <2>1. b \in Nat /\ b <= 7 /\ o \in Nat /\ o <= \o400
    BY <1>1
  <2>2. set_location(a) = Erasable(b, o)
    BY <1>1 DEF set_location
  <2> HIDE DEF b, o
  <2> QED  BY <2>1, <2>2 DEF Erasable, Places, ErasablePlaces, UpTo
<1>2. CASE ~(a < \o2000)
  <2> DEFINE b == IF a < \o4000 THEN 0 ELSE IF a < \o6000 THEN 2 ELSE 3
             o == a % \o2000
  <2>1. b \in Nat /\ b <= 35 /\ o \in Nat /\ o <= \o2000
    OBVIOUS
  <2>2. set_location(a) = Fixed(b, o)
    BY <1>2 DEF set_location
  <2> HIDE DEF b, o
  <2> QED  BY <2>1, <2>2 DEF Fixed, Places, FixedPlaces, UpTo
<1> QED  BY <1>1, <1>2

LEMMA DirectivePlaces ==
  ASSUME NEW r
  PROVE  Located(r) \subseteq Places
<1> DEFINE values == Values(r.operand, symbols)
<1>1. \A v \in 0 .. 35 : Fixed(v, 0) \in Places
  BY DEF Fixed, Places, FixedPlaces, UpTo
<1>2. \A v \in 0 .. 7 : Erasable(v, 0) \in Places
  BY DEF Erasable, Places, ErasablePlaces, UpTo
<1>3. CASE r.operation = "BANK"
  <2>1. Located(r) = {Fixed(v, 0) : v \in values \cap 0 .. 35}
    BY <1>3 DEF Located
  <2> QED  BY <1>1, <2>1
<1>4. CASE r.operation = "BLOCK"
  <2>1. Located(r) = {Erasable(v, 0) : v \in values \cap 0 .. 7}
    BY <1>4 DEF Located
  <2> QED  BY <1>2, <2>1
<1>5. CASE r.operation # "BANK" /\ r.operation # "BLOCK"
  <2> DEFINE top == \o7777
  <2>1. Located(r) = {set_location(v) : v \in values \cap 0 .. top}
    BY <1>5 DEF Located
  <2>2. top \in Nat
    OBVIOUS
  <2>3. ASSUME NEW v \in 0 .. top  PROVE set_location(v) \in Places
    <3>1. v \in Nat /\ v <= \o7777
      BY <2>2
    <3> QED  BY <3>1, SetLocations
  <2> HIDE DEF top
  <2> QED  BY <2>1, <2>3
<1> QED  BY <1>3, <1>4, <1>5

Moved(r, o, b) == [r EXCEPT !.offset = o, !.bank = b]
LEMMA MovedRecord ==
  ASSUME NEW r \in Records, NEW b \in {NoBank} \cup UpTo(35), NEW o \in UpTo(\o2000)
  PROVE  Moved(r, o, b) \in Records
<1> DEFINE B == {NoBank} \cup UpTo(35)
           O == UpTo(\o2000)
           Shape == [label : STRING, operation : STRING, operand : Operands,
                     bank : B, offset : O, word : Word]
<1>1. r \in Shape /\ b \in B /\ o \in O
  BY DEF Records
<1> HIDE DEF B, O
<1>2. [r EXCEPT !.offset = o] \in Shape
  BY <1>1
<1>3. [[r EXCEPT !.offset = o] EXCEPT !.bank = b] \in Shape
  BY <1>1, <1>2
<1>4. [r EXCEPT !.offset = o, !.bank = b] = [[r EXCEPT !.offset = o] EXCEPT !.bank = b]
  OBVIOUS
<1> HIDE DEF Shape
<1>5. [r EXCEPT !.offset = o, !.bank = b] \in Shape
  BY <1>3, <1>4
<1> QED  BY <1>5 DEF Moved, Shape, B, O, Records

(* Placing a record: where the record is, and where the counter goes.      *)
LEMMA PlacingTyped ==
  ASSUME RecordsInv, next <= Len(records), place(records[next])
  PROVE  /\ records' \in Seq(Records) /\ DOMAIN records' = DOMAIN records
         /\ location' \in Places
<1> DEFINE r == records[next]
           b == IF location.kind = "fixed" THEN location.bank ELSE NoBank
           n == emitted_word_count(r)
           end == Advanced(r)
<1>1. next \in DOMAIN records /\ r \in Records
  BY RecordTyped
<1>2. n \in Nat
  BY <1>1, CountsAreNat
<1>3. /\ records' = [records EXCEPT ![next].offset = location.offset, ![next].bank = b]
      /\ location' = IF end > BankEnd THEN location ELSE [location EXCEPT !.offset = end]
  BY DEF place
<1>4. b \in {NoBank} \cup UpTo(35) /\ location.offset \in UpTo(\o2000)
  <2>1. location \in Places
    BY DEF RecordsInv
  <2> QED  BY <2>1 DEF Places, FixedPlaces, ErasablePlaces, UpTo
<1>5. location' \in Places
  <2> DEFINE d == n % 65536
  <2>1. location \in Places /\ d \in Nat /\ end = location.offset + d
    BY <1>2 DEF RecordsInv, Advanced
  <2> HIDE DEF end, d, n, r, b
  <2>2. CASE location \in FixedPlaces
    BY <1>3, <2>1, <2>2 DEF BankEnd, Places, FixedPlaces, UpTo
  <2>3. CASE location \in ErasablePlaces
    BY <1>3, <2>1, <2>3 DEF BankEnd, Places, ErasablePlaces, UpTo
  <2> QED  BY <2>1, <2>2, <2>3 DEF Places
<1> HIDE DEF b
<1>6. [r EXCEPT !.offset = location.offset, !.bank = b] \in Records
  <2> DEFINE o == location.offset
  <2>1. r \in Records /\ o \in UpTo(\o2000) /\ b \in {NoBank} \cup UpTo(35)
    BY <1>1, <1>4
  <2> HIDE DEF r, o
  <2>2. Moved(r, o, b) \in Records
    BY <2>1, MovedRecord
  <2> QED  BY <2>2 DEF Moved, o
<1>7. records' = [records EXCEPT ![next] = [r EXCEPT !.offset = location.offset, !.bank = b]]
  BY <1>1, <1>3 DEF RecordsInv
<1>8. records' \in Seq(Records) /\ DOMAIN records' = DOMAIN records
  <2> DEFINE x == [r EXCEPT !.offset = location.offset, !.bank = b]
  <2>1. records \in Seq(Records)
    BY DEF RecordsInv
  <2>2. x \in Records /\ records' = [records EXCEPT ![next] = x]
    BY <1>6, <1>7
  <2> HIDE DEF x
  <2> QED  BY <1>1, <2>1, <2>2
<1> QED  BY <1>5, <1>8

LEMMA AssignTypes ==
  ASSUME RecordsInv, assign
  PROVE  RecordsInv'
<1> DEFINE r == records[next]
<1>1. /\ next \in DOMAIN records /\ r \in Records /\ next <= Len(records)
      /\ next' = next + 1 /\ previous_extend' = previous_extend /\ next' \in Nat \ {0}
  BY RecordTyped DEF assign
<1>2. Places \subseteq SymbolValues
  BY DEF SymbolValues
<1>3. define_label(r) \/ collect_equate(r) \/ apply_location_directive(r)
        \/ refuse_operation(r) \/ place(r)
  BY DEF assign
<1> HIDE DEF r
<1>4. CASE define_label(r)
  <2>1. Typed(symbols')
    BY <1>2, <1>4, DefinitionsStay DEF define_label, RecordsInv
  <2> QED  BY <1>1, <1>4, <2>1 DEF define_label, RecordsInv, Typed
<1>5. CASE collect_equate(r)
  <2>1. Append(equates, next) \in Seq(DOMAIN records)
    <3> DEFINE S == DOMAIN records
    <3>1. equates \in Seq(S) /\ next \in S
      BY <1>1 DEF RecordsInv
    <3> HIDE DEF S
    <3>2. Append(equates, next) \in Seq(S)
      BY <3>1, Appending
    <3> QED  BY <3>2 DEF S
  <2>2. equates' \in Seq(DOMAIN records)
    BY <1>5, <2>1 DEF collect_equate, RecordsInv
  <2> QED  BY <1>1, <1>5, <2>2 DEF collect_equate, RecordsInv, Typed
<1>6. CASE apply_location_directive(r)
  <2>1. location' \in Places
    BY <1>6, DirectivePlaces DEF apply_location_directive, RecordsInv
  <2> QED  BY <1>1, <1>6, <2>1 DEF apply_location_directive, RecordsInv, Typed
<1>7. CASE refuse_operation(r)
  BY <1>1, <1>7 DEF refuse_operation, RecordsInv, Typed
<1>8. CASE place(r)
  <2>1. records' \in Seq(Records) /\ DOMAIN records' = DOMAIN records /\ location' \in Places
    BY <1>1, <1>8, PlacingTyped DEF r
  <2>2. symbols' = symbols \/ symbols' = define(symbols, r.label, location)
    BY <1>8 DEF place
  <2>3. Typed(symbols')
    BY <1>2, <2>2, DefinitionsStay DEF RecordsInv
  <2>4. equates' = equates
    BY <1>8 DEF place
  <2> QED  BY <1>1, <2>1, <2>3, <2>4 DEF RecordsInv, Typed
<1> QED  BY <1>3, <1>4, <1>5, <1>6, <1>7, <1>8

LEMMA ReadRecord ==
  ASSUME NEW line \in Lines, line.kind = "statement"
  PROVE  [label |-> line.label, operation |-> line.operation,
          operand |-> parse_operand(line.operand),
          bank |-> NoBank, offset |-> 0, word |-> 0] \in Records
<1>1. line \in Statements
  BY DEF Lines
<1>2. line.label \in STRING /\ line.operation \in STRING /\ line.operand \in Seq(Tokens)
  BY <1>1 DEF Statements
<1>3. parse_operand(line.operand) \in Operands
  <2> DEFINE head == Head(line.operand)
  <2>1. line.operand # <<>> => head \in Tokens
    BY <1>2
  <2>2. Number(0) \in Operands /\ Expression(line.operand) \in Operands
    <3> DEFINE atoms == line.operand
    <3>1. atoms \in Seq(Tokens)
      BY <1>2
    <3> HIDE DEF atoms
    <3>2. [kind |-> "expression", atoms |-> atoms] \in [kind : {"expression"}, atoms : Seq(Tokens)]
      BY <3>1
    <3>3. Expression(line.operand) \in Operands
      BY <3>2 DEF Expression, Operands, atoms
    <3>4. Number(0) \in Operands
      BY DEF Number, Operands
    <3> QED  BY <3>3, <3>4
  <2>3. line.operand # <<>> /\ head.kind # "other" => head \in Operands
    <3> HIDE DEF head
    <3> QED  BY <2>1 DEF Tokens, Operands
  <2> QED  BY <2>2, <2>3 DEF parse_operand
<1>4. 0 \in UpTo(\o2000) /\ 0 \in Word
  BY DEF UpTo, Word
<1> QED  BY <1>2, <1>3, <1>4 DEF Records

(* What the second pass writes into a record.                              *)
LEMMA StoringTyped ==
  ASSUME RecordsInv, next <= Len(records), store(records[next], emit_record(records[next]).words)
  PROVE  /\ records' \in Seq(Records) /\ DOMAIN records' = DOMAIN records
         /\ records' = records
              \/ \E w \in Word : records' = [records EXCEPT ![next] = [@ EXCEPT !.word = w]]
<1> DEFINE r == records[next]
           words == emit_record(r).words
           wanted == {At(r) + i - 1 : i \in DOMAIN words}
           taken == {p \in wanted : p < ROPE_WORDS /\ p \notin DOMAIN image}
<1>1. next \in DOMAIN records /\ r \in Records
  BY RecordTyped
<1>2. words \in Seq(Word)
  BY <1>1, EmittedWords DEF RecordsInv
<1>3. records' = IF At(r) \in taken THEN [records EXCEPT ![next].word = words[1]] ELSE records
  BY DEF store
<1>4. At(r) \in taken => words[1] \in Word
  <2> HIDE DEF words
  <2>1. At(r) \in taken => DOMAIN words # {}
    OBVIOUS
  <2> QED  BY <1>2, <2>1
<1>5. records \in Seq(Records)
  BY DEF RecordsInv
<1> HIDE DEF taken, words
<1>6. CASE At(r) \in taken
  <2>1. [r EXCEPT !.word = words[1]] \in Records
    BY <1>1, <1>4, <1>6 DEF Records
  <2>2. records' = [records EXCEPT ![next] = [r EXCEPT !.word = words[1]]]
    BY <1>3, <1>6
  <2> HIDE DEF r
  <2>3. records' \in Seq(Records) /\ DOMAIN records' = DOMAIN records
    BY <1>1, <1>5, <2>1, <2>2
  <2> QED  BY <1>4, <1>6, <2>2, <2>3 DEF r
<1>7. CASE At(r) \notin taken
  BY <1>3, <1>5, <1>7
<1> QED  BY <1>6, <1>7

LEMMA EmitTypes ==
  ASSUME RecordsInv, emit
  PROVE  RecordsInv'
<1> DEFINE r == records[next]
<1>1. /\ next \in DOMAIN records /\ r \in Records /\ next <= Len(records)
      /\ next' = next + 1 /\ next' \in Nat \ {0} /\ previous_extend' \in BOOLEAN
      /\ symbols' = symbols /\ location' = location /\ equates' = equates
  <2>1. /\ next <= Len(records) /\ next' = next + 1
        /\ symbols' = symbols /\ location' = location /\ equates' = equates
    BY DEF emit
  <2>2. previous_extend' \in BOOLEAN
    <3>1. previous_extend' = FALSE \/ previous_extend' = (r.operation = "EXTEND")
      BY DEF emit
    <3> QED  BY <3>1
  <2> QED  BY <2>1, <2>2, RecordTyped
<1>2. records' \in Seq(Records) /\ DOMAIN records' = DOMAIN records
  <2>1. CASE r.bank = NoBank
    BY <2>1 DEF emit, RecordsInv
  <2>2. CASE r.bank # NoBank
    BY <1>1, <2>2, StoringTyped DEF emit
  <2> QED  BY <2>1, <2>2
<1> QED  BY <1>1, <1>2 DEF RecordsInv, Typed

LEMMA RecordsStep ==
  ASSUME TextInv, RecordsInv, route = "native", NextAssembler
  PROVE  RecordsInv'
<1>1. ASSUME UNCHANGED <<records, symbols, location, equates, next, previous_extend>>
      PROVE  RecordsInv'
  BY <1>1 DEF RecordsInv, Typed
<1>2. CASE expand_program \/ expand_include \/ leave_file \/ assigned \/ assembled
  BY <1>1, <1>2 DEF expand_program, expand_include, leave_file, assigned, assembled, fail,
     expansion, passes
<1>3. CASE expand_statement
  <2> DEFINE r == [label |-> TheLine.label, operation |-> TheLine.operation,
                   operand |-> parse_operand(TheLine.operand),
                   bank |-> NoBank, offset |-> 0, word |-> 0]
  <2>1. r \in Records
    BY <1>3, LineTyped, ReadRecord DEF expand_statement
  <2>2. records' = Append(records, r)
    BY <1>3 DEF expand_statement
  <2> HIDE DEF r
  <2>3. records' \in Seq(Records) /\ DOMAIN records \subseteq DOMAIN records'
    BY <2>1, <2>2 DEF RecordsInv
  <2>4. equates \in Seq(DOMAIN records')
    <3> DEFINE S == DOMAIN records
               T == DOMAIN records'
    <3>1. equates \in Seq(S) /\ S \subseteq T
      BY <2>3 DEF RecordsInv
    <3> HIDE DEF S, T
    <3>2. equates \in Seq(T)
      BY <3>1, WiderSequence
    <3> QED  BY <3>2 DEF T
  <2>5. UNCHANGED <<symbols, location, equates, next, previous_extend>>
    BY <1>3 DEF expand_statement, passes
  <2> QED  BY <2>3, <2>4, <2>5 DEF RecordsInv, Typed
<1>4. CASE assign
  BY <1>4, AssignTypes
<1>5. CASE resolve_equates
  <2>1. RoundState(Round)
    BY RoundTyped DEF RecordsInv
  <2>2. UNCHANGED <<records, location, next, previous_extend>>
    BY <1>5 DEF resolve_equates, expansion
  <2>3. equates' = Round.pending /\ symbols' = Round.symbols
    BY <1>5 DEF resolve_equates
  <2> QED  BY <2>1, <2>2, <2>3 DEF RecordsInv, RoundState, Typed
<1>6. CASE equates_resolved
  <2>1. /\ UNCHANGED <<records, symbols, location, previous_extend>>
        /\ next' = 1 /\ equates' = <<>>
    BY <1>6 DEF equates_resolved, expansion
  <2>2. <<>> \in Seq(DOMAIN records)
    OBVIOUS
  <2> QED  BY <2>1, <2>2 DEF RecordsInv, Typed
<1>7. CASE emit
  BY <1>7, EmitTypes
<1> QED  BY <1>2, <1>3, <1>4, <1>5, <1>6, <1>7 DEF NextAssembler
-----------------------------------------------------------------------------
(* The first pass.  A record is placed when its turn comes.  As long as    *)
(* nothing is wrong, a label has the place of its record, and a record     *)
(* behind an EXTEND comes next to it in memory.                            *)
Waiting(i) ==
  phase \in {"start", "expand", "failed"} \/ (phase = "assign" /\ i >= next)
Unplaced == \A i \in DOMAIN records : Waiting(i) => records[i].bank = NoBank
Counted == \A i \in Placed : emitted_word_count(records[i]) > 0
Labelled ==
  \A i \in Placed : records[i].label # "" =>
    /\ records[i].label \in DOMAIN symbols
    /\ symbols[records[i].label] = Fixed(records[i].bank, records[i].offset)
Follows == \A i \in Placed : Prefixed(i) => At(records[i]) = At(records[i - 1]) + 1
Carries ==
  phase = "assign" /\ next <= Len(records) /\ Prefixed(next) =>
    location = Fixed(records[next - 1].bank, records[next - 1].offset + 1)
PlacesInv == Unplaced /\ Counted /\ (diagnostics = {} => Labelled /\ Follows /\ Carries)

LEMMA NothingPlaced ==
  ASSUME RecordsInv', phase' \in {"start", "expand", "failed", "assign"},
         \A i \in DOMAIN records' : records'[i].bank = NoBank
  PROVE  PlacesInv'
<1>1. Placed' = {}
  BY DEF Placed
<1>2. Carries'
  <2> SUFFICES ASSUME (next <= Len(records))', Prefixed(next)'  PROVE FALSE
    BY DEF Carries
  <2>1. next' - 1 \in DOMAIN records'
    BY RecordTyped DEF Prefixed, RecordsInv
  <2> QED  BY <2>1 DEF Prefixed
<1> QED  BY <1>1, <1>2 DEF PlacesInv, Unplaced, Counted, Labelled, Follows

(* A step that changes no record's place.                                  *)
SamePlaces ==
  /\ DOMAIN records' = DOMAIN records
  /\ \A i \in DOMAIN records :
       /\ records'[i].label = records[i].label /\ records'[i].operation = records[i].operation
       /\ records'[i].operand = records[i].operand
       /\ records'[i].bank = records[i].bank /\ records'[i].offset = records[i].offset

LEMMA PlacesCompared ==
  ASSUME RecordsInv, SamePlaces
  PROVE  /\ Placed' = Placed /\ Placed \subseteq DOMAIN records
         /\ \A i \in DOMAIN records :
              /\ At(records'[i]) = At(records[i])
              /\ emitted_word_count(records'[i]) = emitted_word_count(records[i])
         /\ \A i \in DOMAIN records : Prefixed(i)' <=> Prefixed(i)
         /\ \A i \in DOMAIN records : i > 1 => i - 1 \in DOMAIN records
<1>1. Placed' = Placed /\ Placed \subseteq DOMAIN records
  BY DEF SamePlaces, Placed
<1>2. \A i \in DOMAIN records : At(records'[i]) = At(records[i])
  BY DEF SamePlaces, At
<1>3. \A i \in DOMAIN records : emitted_word_count(records'[i]) = emitted_word_count(records[i])
  BY DEF SamePlaces, emitted_word_count
<1>4. \A i \in DOMAIN records : i > 1 => i - 1 \in DOMAIN records
  BY RecordTyped
<1>5. \A i \in DOMAIN records : Prefixed(i)' <=> Prefixed(i)
  BY <1>4 DEF SamePlaces, Prefixed
<1> QED  BY <1>1, <1>2, <1>4, <1>5, <1>3

LEMMA LaterPlaces ==
  ASSUME RecordsInv, PlacesInv, SamePlaces, Extends(symbols, symbols'),
         diagnostics \subseteq diagnostics', phase' \in {"equate", "emit", "done", "rejected"}
  PROVE  PlacesInv'
<1>1. Unplaced' /\ Carries'
  BY DEF Unplaced, Waiting, Carries
<1>2. Counted'
  BY PlacesCompared DEF PlacesInv, Counted
<1>3. ASSUME diagnostics' = {}  PROVE Labelled' /\ Follows'
  <2>1. Labelled /\ Follows
    BY <1>3 DEF PlacesInv
  <2>2. Follows'
    <3> SUFFICES ASSUME NEW i \in Placed', Prefixed(i)'
                 PROVE  At(records'[i]) = At(records'[i - 1]) + 1
      BY DEF Follows
    <3>1. i \in Placed /\ i \in DOMAIN records /\ Prefixed(i)
      BY PlacesCompared
    <3>2. i - 1 \in DOMAIN records
      BY <3>1, PlacesCompared DEF Prefixed
    <3> QED  BY <2>1, <3>1, <3>2, PlacesCompared DEF Follows
  <2>3. Labelled'
    BY <2>1, PlacesCompared DEF Labelled, SamePlaces, Extends
  <2> QED  BY <2>2, <2>3
<1> QED  BY <1>1, <1>3, <1>2 DEF PlacesInv

(* The first pass passes over a record that is given no place.             *)
LEMMA PassedOver ==
  ASSUME RecordsInv, PlacesInv, phase = "assign", phase' = "assign", next <= Len(records),
         next' = next + 1, records' = records, Extends(symbols, symbols'),
         diagnostics \subseteq diagnostics'
  PROVE  PlacesInv'
<1>1. next \in DOMAIN records /\ next \in Nat /\ records[next].bank = NoBank
  BY RecordTyped DEF PlacesInv, Unplaced, Waiting
<1>2. Unplaced'
  BY <1>1, RecordTyped DEF PlacesInv, Unplaced, Waiting
<1>3. Carries'
  BY <1>1 DEF Carries, Prefixed
<1>4. ASSUME diagnostics' = {}  PROVE Labelled' /\ Follows'
  <2>1. Labelled /\ Follows
    BY <1>4 DEF PlacesInv
  <2> QED  BY <2>1 DEF Labelled, Follows, Placed, Prefixed, Extends
<1>5. Counted'
  BY DEF PlacesInv, Counted, Placed
<1> QED  BY <1>2, <1>3, <1>4, <1>5 DEF PlacesInv

LEMMA ExtendIsOneWord ==
  ASSUME NEW r, r.operation = "EXTEND"
  PROVE  /\ emitted_word_count(r) = 1 /\ IsInstruction(r.operation)
         /\ parse(r.operation) = "EXTEND" /\ "EXTEND" \in DOMAIN Code!NoField
<1>1. "EXTEND" \in DOMAIN Code!NoField /\ "EXTEND" \in Code!Mnemonic
  BY FieldDomains DEF Code!Mnemonic
<1>2. "EXTEND" \notin DOMAIN Unstarred
  BY <1>1, SpellingAssumption
<1>3. parse("EXTEND") = "EXTEND"
  BY <1>2 DEF parse, Bare, Spelling
<1> QED  BY <1>1, <1>3 DEF emitted_word_count, IsInstruction

LEMMA PlacingKeeps ==
  ASSUME RecordsInv, RecordsInv', PlacesInv, phase = "assign", phase' = "assign",
         next <= Len(records), next' = next + 1, place(records[next])
  PROVE  PlacesInv'
<1> DEFINE r == records[next]
           s == records'[next]
           b == IF location.kind = "fixed" THEN location.bank ELSE NoBank
           n == emitted_word_count(r)
           end == Advanced(r)
<1>1. next \in DOMAIN records /\ next \in Nat /\ r \in Records
  BY RecordTyped
<1>2. /\ DOMAIN records' = DOMAIN records
      /\ \A i \in DOMAIN records : i # next => records'[i] = records[i]
      /\ s.bank = b /\ s.offset = location.offset
      /\ s.label = r.label /\ s.operation = r.operation /\ s.operand = r.operand
  <2>1. records' = [records EXCEPT ![next].offset = location.offset, ![next].bank = b]
    BY DEF place
  <2>2. records' = [records EXCEPT ![next] = [r EXCEPT !.offset = location.offset, !.bank = b]]
    BY <1>1, <2>1
  <2>3. s = [r EXCEPT !.offset = location.offset, !.bank = b]
    BY <1>1, <2>2
  <2>4. /\ s.bank = b /\ s.offset = location.offset
        /\ s.label = r.label /\ s.operation = r.operation /\ s.operand = r.operand
    <3> HIDE DEF r, s, b
    <3>1. r \in Records
      BY <1>1
    <3> QED  BY <2>3, <3>1 DEF Records
  <2> HIDE DEF r, b, s
  <2> QED  BY <2>2, <2>4
<1>3. \A i \in DOMAIN records : i >= next => records[i].bank = NoBank
  BY DEF PlacesInv, Unplaced, Waiting
<1>4. Unplaced'
  <2> HIDE DEF s, b, r
  <2> QED  BY <1>1, <1>2, <1>3, RecordTyped DEF Unplaced, Waiting
<1>5. Counted'
  <2>1. emitted_word_count(s) > 0
    BY <1>2 DEF place, emitted_word_count
  <2>2. \A i \in Placed' : i # next => i \in Placed
    BY <1>2 DEF Placed
  <2> QED  BY <1>2, <2>1, <2>2 DEF PlacesInv, Counted, Placed
<1>6. ASSUME diagnostics' = {}  PROVE Labelled' /\ Follows' /\ Carries'
  <2>1. Labelled /\ Follows /\ Carries
    BY <1>6 DEF PlacesInv, place
  <2>2. /\ ~(end > BankEnd) /\ location' = [location EXCEPT !.offset = end]
        /\ r.label # "" => Defines(symbols, r.label)
    <3>1. \A code : Error(code) # {}
      BY DEF Error
    <3> QED  BY <1>6, <3>1 DEF place, Duplicate
  <2>3. /\ Extends(symbols, symbols')
        /\ r.label # "" => r.label \in DOMAIN symbols' /\ symbols'[r.label] = location
    <3>1. location \in SymbolValues /\ Typed(symbols)
      BY DEF RecordsInv, SymbolValues
    <3>2. symbols' = IF r.label = "" THEN symbols ELSE define(symbols, r.label, location)
      BY DEF place
    <3> HIDE DEF r
    <3>3. CASE r.label = ""
      BY <3>2, <3>3 DEF Extends
    <3>4. CASE r.label # ""
      BY <2>2, <3>1, <3>2, <3>4, DefinitionsStay
    <3> QED  BY <3>3, <3>4
  <2>4. s.bank # NoBank => location = Fixed(s.bank, s.offset)
    <3>1. location \in Places
      BY DEF RecordsInv
    <3> HIDE DEF s
    <3>2. s.bank # NoBank => location \in FixedPlaces
      BY <1>2, <3>1 DEF Places, FixedPlaces, ErasablePlaces
    <3> QED  BY <1>2, <3>2 DEF FixedPlaces, Fixed
  <2>5. \A i \in Placed' : i \in DOMAIN records /\ i <= next /\ (i # next => i \in Placed)
    <3> HIDE DEF s
    <3> QED  BY <1>1, <1>2, <1>3, RecordTyped DEF Placed
  <2>6. \A i \in DOMAIN records : i > 1 => i - 1 \in DOMAIN records /\ i - 1 # i
    BY RecordTyped
  <2> HIDE DEF s, r, b
  <2>7. Labelled'
    <3> SUFFICES ASSUME NEW i \in Placed', records'[i].label # ""
                 PROVE  /\ records'[i].label \in DOMAIN symbols'
                        /\ symbols'[records'[i].label]
                             = Fixed(records'[i].bank, records'[i].offset)
      BY DEF Labelled
    <3>1. CASE i = next
      BY <1>2, <2>3, <2>4, <3>1 DEF s, Placed
    <3>2. CASE i # next
      <4>1. records'[i] = records[i] /\ i \in Placed
        BY <1>2, <2>5, <3>2
      <4>2. /\ records[i].label \in DOMAIN symbols
            /\ symbols[records[i].label] = Fixed(records[i].bank, records[i].offset)
        BY <2>1, <4>1 DEF Labelled
      <4> QED  BY <2>3, <4>1, <4>2 DEF Extends
    <3> QED  BY <3>1, <3>2
  <2>8. Follows'
    <3> SUFFICES ASSUME NEW i \in Placed', Prefixed(i)'
                 PROVE  At(records'[i]) = At(records'[i - 1]) + 1
      BY DEF Follows
    <3>1. i \in DOMAIN records /\ i <= next /\ i > 1 /\ i - 1 \in DOMAIN records
      BY <2>5, <2>6 DEF Prefixed
    <3>2. i - 1 # next
      BY <1>1, <3>1, RecordTyped
    <3>3. records'[i - 1] = records[i - 1] /\ Prefixed(i)
      BY <1>2, <3>1, <3>2 DEF Prefixed
    <3>4. CASE i = next
      <4>1. s.bank # NoBank
        BY <3>4 DEF Placed, s
      <4>2. location = Fixed(records[i - 1].bank, records[i - 1].offset + 1)
        BY <2>1, <3>3, <3>4 DEF Carries
      <4>3. s.bank = records[i - 1].bank /\ s.offset = records[i - 1].offset + 1
        BY <2>4, <4>1, <4>2 DEF Fixed
      <4>4. records[i - 1] \in Records
        BY <3>1, RecordTyped
      <4>5. At(s) = At(records[i - 1]) + 1
        BY <4>3, <4>4, <3>3 DEF At, Records, UpTo, Prefixed
      <4> QED  BY <3>3, <3>4, <4>5 DEF s
    <3>5. CASE i # next
      BY <1>2, <2>1, <2>5, <3>1, <3>3, <3>5 DEF Follows
    <3> QED  BY <3>4, <3>5
  <2>9. Carries'
    <3> SUFFICES ASSUME Prefixed(next)'
                 PROVE  location' = Fixed(records'[next].bank, records'[next].offset + 1)
      <4>1. next' - 1 = next
        BY <1>1
      <4> QED  BY <4>1 DEF Carries
    <3>1. next' - 1 = next /\ s.operation = "EXTEND" /\ s.bank # NoBank
      <4>1. next' - 1 = next
        BY <1>1
      <4> QED  BY <4>1 DEF Prefixed, s
    <3>2. n = 1
      BY <1>2, <3>1, ExtendIsOneWord
    <3>3. location = Fixed(s.bank, s.offset) /\ location' = [location EXCEPT !.offset = s.offset + 1]
      <4>1. end = location.offset + 1
        BY <3>2 DEF Advanced, n
      <4> QED  BY <1>2, <2>2, <2>4, <3>1, <4>1
    <3>4. location' = Fixed(s.bank, s.offset + 1)
      BY <3>3 DEF Fixed
    <3> QED  BY <3>4 DEF s
  <2> QED  BY <2>7, <2>8, <2>9
<1> QED  BY <1>4, <1>6, <1>5 DEF PlacesInv

LEMMA AssignPlaces ==
  ASSUME RecordsInv, RecordsInv', PlacesInv, assign
  PROVE  PlacesInv'
<1> DEFINE r == records[next]
<1>1. /\ phase = "assign" /\ phase' = "assign" /\ next <= Len(records) /\ next' = next + 1
      /\ define_label(r) \/ collect_equate(r) \/ apply_location_directive(r)
           \/ refuse_operation(r) \/ place(r)
  BY DEF assign
<1>2. CASE place(r)
  BY <1>1, <1>2, PlacingKeeps
<1>3. Extends(symbols, symbols)
  BY DEF Extends
<1> HIDE DEF r
<1>4. CASE define_label(r)
  <2>1. location \in SymbolValues /\ Typed(symbols)
    BY DEF RecordsInv, SymbolValues
  <2>2. /\ records' = records /\ diagnostics \subseteq diagnostics'
        /\ symbols' = define(symbols, r.label, location)
    BY <1>4 DEF define_label
  <2>3. Extends(symbols, symbols')
    BY <2>1, <2>2, DefinitionsStay
  <2> QED  BY <1>1, <2>2, <2>3, PassedOver
<1>5. CASE collect_equate(r) \/ apply_location_directive(r) \/ refuse_operation(r)
  <2>1. records' = records /\ symbols' = symbols /\ diagnostics \subseteq diagnostics'
    BY <1>5 DEF collect_equate, apply_location_directive, refuse_operation
  <2> QED  BY <1>1, <1>3, <2>1, PassedOver
<1> QED  BY <1>1, <1>2, <1>4, <1>5

LEMMA EmitSamePlaces ==
  ASSUME RecordsInv, emit
  PROVE  SamePlaces
<1>1. next \in DOMAIN records /\ next <= Len(records) /\ records[next] \in Records
  BY RecordTyped DEF emit
<1>2. records' = records
        \/ \E w \in Word : records' = [records EXCEPT ![next] = [@ EXCEPT !.word = w]]
  <2>1. CASE records[next].bank = NoBank
    BY <2>1 DEF emit
  <2>2. CASE records[next].bank # NoBank
    BY <1>1, <2>2, StoringTyped DEF emit
  <2> QED  BY <2>1, <2>2
<1>3. ASSUME NEW w \in Word, records' = [records EXCEPT ![next] = [@ EXCEPT !.word = w]]
      PROVE  SamePlaces
  <2>1. DOMAIN records' = DOMAIN records
    BY <1>3
  <2>2. \A i \in DOMAIN records : i # next => records'[i] = records[i]
    BY <1>3
  <2>3. records'[next] = [records[next] EXCEPT !.word = w]
    BY <1>1, <1>3
  <2>4. /\ records'[next].label = records[next].label
        /\ records'[next].operation = records[next].operation
        /\ records'[next].operand = records[next].operand
        /\ records'[next].bank = records[next].bank
        /\ records'[next].offset = records[next].offset
    BY <1>1, <2>3 DEF Records
  <2> QED  BY <2>1, <2>2, <2>4 DEF SamePlaces
<1>4. CASE records' = records
  BY <1>4 DEF SamePlaces
<1> QED  BY <1>2, <1>3, <1>4

LEMMA PlacesStep ==
  ASSUME TextInv, RecordsInv, RecordsInv', PlacesInv, route = "native", NextAssembler
  PROVE  PlacesInv'
<1>1. ASSUME phase \in {"start", "expand"}, phase' \in {"start", "expand", "failed", "assign"},
             records' = records
      PROVE  PlacesInv'
  <2>1. \A i \in DOMAIN records' : records'[i].bank = NoBank
    BY <1>1 DEF PlacesInv, Unplaced, Waiting
  <2> QED  BY <1>1, <2>1, NothingPlaced
<1>2. CASE expand_program \/ expand_include \/ leave_file
  BY <1>1, <1>2 DEF expand_program, expand_include, leave_file, AtLine, fail, expansion
<1>3. CASE expand_statement
  <2>1. phase = "expand" /\ phase' = "expand"
    BY <1>3 DEF expand_statement, AtLine
  <2>2. \A i \in DOMAIN records : records[i].bank = NoBank
    BY <2>1 DEF PlacesInv, Unplaced, Waiting
  <2>3. PICK r : records' = Append(records, r) /\ r.bank = NoBank
    BY <1>3 DEF expand_statement
  <2>4. \A i \in DOMAIN records' : i \in DOMAIN records \/ records'[i] = r
    BY <2>3, RecordTyped DEF RecordsInv
  <2>5. \A i \in DOMAIN records : records'[i] = records[i]
    BY <2>3, RecordTyped DEF RecordsInv
  <2>6. \A i \in DOMAIN records' : records'[i].bank = NoBank
    BY <2>2, <2>3, <2>4, <2>5
  <2> QED  BY <2>1, <2>6, NothingPlaced
<1>4. CASE assign
  BY <1>4, AssignPlaces
<1>5. ASSUME records' = records, phase' \in {"equate", "emit", "done", "rejected"},
             Extends(symbols, symbols'), diagnostics \subseteq diagnostics'
      PROVE  PlacesInv'
  <2>1. SamePlaces
    BY <1>5 DEF SamePlaces
  <2> QED  BY <1>5, <2>1, LaterPlaces
<1>6. CASE assigned \/ assembled
  <2>1. /\ records' = records /\ symbols' = symbols /\ diagnostics' = diagnostics
        /\ phase' \in {"equate", "done", "rejected"}
    BY <1>6 DEF assigned, assembled, expansion, passes
  <2> QED  BY <1>5, <2>1 DEF Extends
<1>7. CASE resolve_equates
  <2>1. RoundState(Round)
    BY RoundTyped DEF RecordsInv
  <2>2. /\ records' = records /\ symbols' = Round.symbols /\ diagnostics \subseteq diagnostics'
        /\ phase' = "equate"
    BY <1>7 DEF resolve_equates, expansion
  <2> QED  BY <1>5, <2>1, <2>2 DEF RoundState
<1>8. CASE equates_resolved
  <2>1. /\ records' = records /\ symbols' = symbols /\ diagnostics \subseteq diagnostics'
        /\ phase' = "emit"
    BY <1>8 DEF equates_resolved, expansion
  <2> QED  BY <1>5, <2>1 DEF Extends
<1>9. CASE emit
  <2>1. SamePlaces
    BY <1>9, EmitSamePlaces
  <2>2. symbols' = symbols /\ diagnostics \subseteq diagnostics' /\ phase' = "emit"
    <3>1. diagnostics \subseteq diagnostics'
      BY <1>9 DEF emit, store
    <3> QED  BY <1>9, <3>1 DEF emit
  <2> QED  BY <2>1, <2>2, LaterPlaces DEF Extends
<1> QED  BY <1>2, <1>3, <1>4, <1>6, <1>7, <1>8, <1>9 DEF NextAssembler
-----------------------------------------------------------------------------
(* The second pass.  As long as nothing is wrong, the image holds the      *)
(* words of the placed records that have had their turn, and no others.    *)
Emitted ==
  {i \in Placed : (phase = "emit" /\ i < next) \/ phase \in {"done", "rejected"}}
CodedAt(i) ==
  \E e \in BOOLEAN : (e <=> Prefixed(i)) /\ Coded(records[i], records[i].word, e)
ImageInv ==
  /\ DOMAIN image = UNION {Extent(records[i]) : i \in Emitted}
  /\ \A i, j \in Emitted : i # j => Extent(records[i]) \cap Extent(records[j]) = {}
  /\ \A i \in Emitted : IsInstruction(records[i].operation) =>
       image[At(records[i])] = records[i].word /\ CodedAt(i)
  /\ \A i \in Emitted : ~IsInstruction(records[i].operation) =>
       DataHeld(records[i], WordsOf(records[i]))
EmitInv ==
  /\ phase \notin {"emit", "done", "rejected"} => image = <<>> /\ ~previous_extend
  /\ phase = "emit" /\ next <= Len(records) => (previous_extend <=> Prefixed(next))
  /\ phase = "done" => diagnostics = {}
  /\ diagnostics = {} => ImageInv

LEMMA NothingEmitted ==
  ASSUME Emitted' = {}, image' = <<>>, previous_extend' = FALSE, phase' # "done",
         phase' = "emit" => next' = 1
  PROVE  EmitInv'
<1>1. ImageInv'
  BY DEF ImageInv
<1>2. phase' = "emit" => ~Prefixed(next)'
  BY DEF Prefixed
<1> QED  BY <1>1, <1>2 DEF EmitInv

LEMMA ExtentsCompared ==
  ASSUME RecordsInv, SamePlaces
  PROVE  \A i \in DOMAIN records : Extent(records'[i]) = Extent(records[i])
BY PlacesCompared DEF Extent

LEMMA StartOfExtent ==
  ASSUME NEW r \in Records, NEW n \in Nat, n > 0
  PROVE  /\ At(r) \in Int
         /\ {At(r) + i - 1 : i \in 1 .. n} = {At(r) + i : i \in 0 .. n - 1}
         /\ At(r) \in {At(r) + i : i \in 0 .. n - 1}
<1> DEFINE a == At(r)
<1>1. a \in Int
  BY DEF At, Records, UpTo, NoBank
<1> HIDE DEF a
<1>2. ASSUME NEW i \in 1 .. n  PROVE a + i - 1 \in {a + j : j \in 0 .. n - 1}
  <2>1. i - 1 \in 0 .. n - 1 /\ a + i - 1 = a + (i - 1)
    BY <1>1
  <2> QED  BY <2>1
<1>3. ASSUME NEW i \in 0 .. n - 1  PROVE a + i \in {a + j - 1 : j \in 1 .. n}
  <2>1. i + 1 \in 1 .. n /\ a + i = a + (i + 1) - 1
    BY <1>1
  <2> QED  BY <2>1
<1>4. 0 \in 0 .. n - 1 /\ a = a + 0
  BY <1>1
<1>5. a \in {a + j : j \in 0 .. n - 1}
  BY <1>4
<1>6. {a + i - 1 : i \in 1 .. n} = {a + i : i \in 0 .. n - 1}
  BY <1>2, <1>3
<1> QED  BY <1>1, <1>5, <1>6 DEF a

(* A record that comes out without a diagnostic: its words are in the      *)
(* image, where nothing was before, and the rest of it is as it was.       *)
LEMMA StoredClean ==
  ASSUME RecordsInv, next <= Len(records), records[next].bank # NoBank,
         emitted_word_count(records[next]) > 0,
         store(records[next], emit_record(records[next]).words), diagnostics' = {}
  PROVE  LET r == records[next]
             words == emit_record(r).words
         IN  /\ diagnostics = {} /\ emit_record(r).refused = {}
             /\ Extent(r) \cap DOMAIN image = {}
             /\ DOMAIN image' = DOMAIN image \cup Extent(r)
             /\ \A p \in DOMAIN image : image'[p] = image[p]
             /\ image'[At(r)] = words[1] /\ records' = [records EXCEPT ![next].word = words[1]]
             /\ [k \in 1 .. emitted_word_count(r) |-> image'[At(r) + k - 1]] = words
<1> DEFINE r == records[next]
           words == emit_record(r).words
           wanted == {At(r) + i - 1 : i \in DOMAIN words}
           taken == {p \in wanted : p < ROPE_WORDS /\ p \notin DOMAIN image}
           n == emitted_word_count(r)
<1>1. next \in DOMAIN records /\ r \in Records
  BY RecordTyped
<1>2. diagnostics = {} /\ emit_record(r).refused = {}
  BY DEF store
<1>3. words \in Seq(Word) /\ Len(words) = n /\ n \in Nat
  BY <1>1, <1>2, EmittedWords, CountsAreNat DEF RecordsInv
<1>4. /\ ~ \E p \in wanted : p >= ROPE_WORDS
      /\ ~ \E p \in wanted : p \in DOMAIN image
  <2>1. \A code : Error(code) # {}
    BY DEF Error
  <2> QED  BY <2>1 DEF store
<1>5. /\ image' = [p \in DOMAIN image \cup taken |->
                     IF p \in taken THEN words[p - At(r) + 1] ELSE image[p]]
      /\ records' = IF At(r) \in taken THEN [records EXCEPT ![next].word = words[1]] ELSE records
  BY DEF store
<1>6. wanted = Extent(r) /\ At(r) \in wanted /\ At(r) \in Int
  <2> HIDE DEF r, words, n
  <2>1. wanted = {At(r) + i - 1 : i \in 1 .. n}
    <3>1. DOMAIN words = 1 .. n
      BY <1>3
    <3> QED  BY <3>1
  <2>2. n > 0
    BY DEF n, r
  <2>3. /\ wanted = {At(r) + i : i \in 0 .. n - 1} /\ At(r) \in wanted /\ At(r) \in Int
    BY <1>1, <1>3, <2>1, <2>2, StartOfExtent
  <2> QED  BY <2>3 DEF Extent, n
<1> HIDE DEF r, words, n
<1>7. \A p \in wanted : p \in Int
  BY <1>3, <1>6
<1> HIDE DEF wanted
<1>8. taken = wanted
  <2>1. ROPE_WORDS \in Int
    BY DEF ROPE_WORDS
  <2> QED  BY <1>4, <1>7, <2>1
<1> HIDE DEF taken
<1>9. At(r) - At(r) + 1 = 1
  BY <1>6
<1>10. [k \in 1 .. n |-> image'[At(r) + k - 1]] = words
  <2>1. words = [k \in 1 .. n |-> words[k]]
    BY <1>3
  <2>2. ASSUME NEW k \in 1 .. n  PROVE image'[At(r) + k - 1] = words[k]
    <3> DEFINE q == At(r) + k - 1
    <3>1. q - At(r) + 1 = k
      BY <1>3, <1>6
    <3>2. q \in taken
      <4>1. k \in DOMAIN words
        BY <1>3
      <4> QED  BY <1>8, <4>1 DEF wanted
    <3> HIDE DEF q
    <3>3. image'[q] = words[q - At(r) + 1]
      BY <1>5, <3>2
    <3> QED  BY <3>1, <3>3 DEF q
  <2> QED  BY <2>1, <2>2
<1> QED  BY <1>2, <1>4, <1>5, <1>6, <1>8, <1>9, <1>10 DEF r, words, n

(* A record that keeps its word, its place and what is before it, is coded *)
(* as before.                                                              *)
LEMMA CodedStays ==
  ASSUME RecordsInv, SamePlaces, symbols' = symbols, NEW i \in DOMAIN records,
         records'[i].word = records[i].word, CodedAt(i)
  PROVE  CodedAt(i)'
<1>1. Prefixed(i)' <=> Prefixed(i)
  BY PlacesCompared
<1>2. PICK e \in BOOLEAN : (e <=> Prefixed(i)) /\ Coded(records[i], records[i].word, e)
  BY DEF CodedAt
<1>3. /\ records'[i].operation = records[i].operation /\ records'[i].operand = records[i].operand
      /\ Values(records[i].operand, symbols') = Values(records[i].operand, symbols)
  BY DEF SamePlaces
<1>4. Coded(records[i], records[i].word, e)'
  BY <1>2, <1>3 DEF Coded
<1> QED  BY <1>1, <1>2, <1>4 DEF CodedAt

(* The words of a record stay as they are, and go on being those of data,  *)
(* as long as the image where the record is does.                          *)
LEMMA WordsStay ==
  ASSUME RecordsInv, SamePlaces, NEW i \in DOMAIN records,
         Extent(records[i]) \subseteq DOMAIN image, \A p \in DOMAIN image : image'[p] = image[p]
  PROVE  WordsOf(records[i])' = WordsOf(records[i])
<1> DEFINE n == emitted_word_count(records[i])
           a == At(records[i])
<1>1. n \in Nat /\ a \in Int
  <2>1. records[i] \in Records
    BY RecordTyped
  <2> QED  BY <2>1, CountsAreNat DEF At, Records, UpTo, NoBank
<1>2. WordsOf(records[i])' = [k \in 1 .. n |-> image'[a + k - 1]]
  <2>1. emitted_word_count(records'[i]) = n /\ At(records'[i]) = a
    BY PlacesCompared
  <2> QED  BY <2>1 DEF WordsOf
<1>3. WordsOf(records[i]) = [k \in 1 .. n |-> image[a + k - 1]]
  BY DEF WordsOf
<1>4. Extent(records[i]) = {a + k : k \in 0 .. n - 1}
  BY DEF Extent
<1> HIDE DEF n, a
<1>5. ASSUME NEW k \in 1 .. n  PROVE image'[a + k - 1] = image[a + k - 1]
  <2>1. k - 1 \in 0 .. n - 1 /\ a + k - 1 = a + (k - 1)
    BY <1>1
  <2>2. a + k - 1 \in Extent(records[i])
    BY <1>4, <2>1
  <2> QED  BY <2>2
<1> QED  BY <1>2, <1>3, <1>5

LEMMA DataStays ==
  ASSUME RecordsInv, SamePlaces, symbols' = symbols, NEW i \in DOMAIN records,
         NEW words, WordsOf(records[i])' = words, DataHeld(records[i], words)
  PROVE  DataHeld(records[i], WordsOf(records[i]))'
<1>1. /\ records'[i].operation = records[i].operation
      /\ Values(records'[i].operand, symbols') = Values(records[i].operand, symbols)
  <2>1. records'[i].operand = records[i].operand
    BY DEF SamePlaces
  <2> QED  BY <2>1 DEF SamePlaces
<1>2. DataHeld(records[i], words)'
  BY <1>1 DEF DataHeld
<1> QED  BY <1>2

LEMMA EmissionKeeps ==
  ASSUME RecordsInv, PlacesInv, EmitInv, SamePlaces, emit, diagnostics' = {}
  PROVE  ImageInv'
<1> DEFINE r == records[next]
<1>1. /\ next \in DOMAIN records /\ next <= Len(records) /\ next \in Nat /\ r \in Records
      /\ phase = "emit" /\ phase' = "emit" /\ next' = next + 1 /\ symbols' = symbols
  BY RecordTyped DEF emit
<1>2. /\ Placed' = Placed /\ Placed \subseteq DOMAIN records /\ DOMAIN records \subseteq Nat
      /\ \A i \in Placed : Extent(records'[i]) = Extent(records[i]) /\ At(records'[i]) = At(records[i])
      /\ \A i \in Placed : records'[i].operation = records[i].operation
  <2>1. DOMAIN records \subseteq Nat
    BY RecordTyped
  <2> QED  BY <2>1, PlacesCompared, ExtentsCompared DEF SamePlaces
<1>3. CASE r.bank = NoBank
  <2>1. image' = image /\ diagnostics' = diagnostics /\ records' = records
    BY <1>3 DEF emit
  <2>2. next \notin Placed
    BY <1>3 DEF Placed
  <2>3. Emitted' = Emitted
    BY <1>1, <1>2, <2>2 DEF Emitted
  <2>4. ImageInv
    BY <2>1 DEF EmitInv
  <2>5. \A i \in Emitted : i \in DOMAIN records
    BY <1>2 DEF Emitted
  <2>6. \A i \in Emitted : CodedAt(i) => CodedAt(i)'
    BY <2>1, <2>5, CodedStays, <1>1
  <2>7. ASSUME NEW i \in Emitted, ~IsInstruction(records[i].operation)
        PROVE  DataHeld(records[i], WordsOf(records[i]))'
    <3>1. DataHeld(records[i], WordsOf(records[i])) /\ WordsOf(records[i])' = WordsOf(records[i])
      BY <2>1, <2>4, <2>7 DEF ImageInv, WordsOf
    <3> QED  BY <1>1, <2>5, <3>1, DataStays
  <2> QED  BY <2>1, <2>3, <2>4, <2>6, <2>7 DEF ImageInv
<1>4. CASE r.bank # NoBank
  <2> DEFINE words == emit_record(r).words
  <2>1. store(r, words) /\ next \in Placed
    BY <1>1, <1>4 DEF emit, Placed
  <2>2. emitted_word_count(r) > 0
    BY <2>1 DEF PlacesInv, Counted
  <2>3. /\ diagnostics = {} /\ emit_record(r).refused = {}
        /\ Extent(r) \cap DOMAIN image = {}
        /\ DOMAIN image' = DOMAIN image \cup Extent(r)
        /\ \A p \in DOMAIN image : image'[p] = image[p]
        /\ image'[At(r)] = words[1] /\ records' = [records EXCEPT ![next].word = words[1]]
        /\ [k \in 1 .. emitted_word_count(r) |-> image'[At(r) + k - 1]] = words
    BY <1>1, <1>4, <2>1, <2>2, StoredClean
  <2>4. Emitted' = Emitted \cup {next} /\ next \notin Emitted
    BY <1>1, <1>2, <2>1 DEF Emitted
  <2>5. ImageInv
    BY <2>3 DEF EmitInv
  <2>6. \A i \in Emitted : Extent(records[i]) \subseteq DOMAIN image
    BY <2>5 DEF ImageInv
  <2>7. \A i \in Emitted : i \in DOMAIN records /\ i \in Placed
    BY <1>2 DEF Emitted
  <2> HIDE DEF words, r
  <2>8. DOMAIN image' = UNION {Extent(records'[i]) : i \in Emitted'}
    <3>1. DOMAIN image' = (UNION {Extent(records[i]) : i \in Emitted}) \cup Extent(records[next])
      BY <2>3, <2>5 DEF ImageInv, r
    <3>2. \A i \in Emitted' : Extent(records'[i]) = Extent(records[i])
      BY <1>2, <2>1, <2>4, <2>7
    <3> QED  BY <2>4, <3>1, <3>2
  <2>9. ASSUME NEW i \in Emitted', NEW j \in Emitted', i # j
        PROVE  Extent(records'[i]) \cap Extent(records'[j]) = {}
    <3>1. Extent(records'[i]) = Extent(records[i]) /\ Extent(records'[j]) = Extent(records[j])
      BY <1>2, <2>1, <2>4, <2>7
    <3>2. CASE i = next
      BY <2>3, <2>4, <2>6, <2>9, <3>1, <3>2 DEF r
    <3>3. CASE j = next
      BY <2>3, <2>4, <2>6, <2>9, <3>1, <3>3 DEF r
    <3>4. CASE i # next /\ j # next
      BY <2>4, <2>5, <2>9, <3>1, <3>4 DEF ImageInv
    <3> QED  BY <3>2, <3>3, <3>4
  <2>10. ASSUME NEW i \in Emitted', IsInstruction(records'[i].operation)
         PROVE  image'[At(records'[i])] = records'[i].word /\ CodedAt(i)'
    <3>1. CASE i = next
      <4>1. IsInstruction(r.operation)
        BY <1>2, <2>1, <2>10, <3>1 DEF r
      <4>2. PICK w \in Word : words = <<w>> /\ Coded(r, w, previous_extend)
        BY <1>1, <2>3, <4>1, EmittedInstruction DEF RecordsInv, words
      <4>3. words[1] = w
        BY <4>2
      <4>4. records'[i].word = w
        <5>1. records'[i] = [r EXCEPT !.word = w]
          BY <1>1, <2>3, <3>1, <4>3 DEF r
        <5> QED  BY <1>1, <5>1 DEF Records
      <4>5. image'[At(records'[i])] = w
        BY <1>2, <2>1, <2>3, <3>1, <4>3 DEF r
      <4>6. previous_extend \in BOOLEAN /\ (previous_extend <=> Prefixed(i)')
        <5>1. previous_extend <=> Prefixed(next)
          BY <1>1 DEF EmitInv
        <5>2. Prefixed(i)' <=> Prefixed(i)
          BY <1>1, <3>1, PlacesCompared
        <5> QED  BY <3>1, <5>1, <5>2 DEF RecordsInv
      <4>7. \E k \in Nat :
              /\ Carried(parse(records'[i].operation), k, w, previous_extend)
              /\ IF parse(records'[i].operation) \in DOMAIN Code!NoField THEN k = 0
                 ELSE Values(records'[i].operand, symbols') = {k}
              /\ Code!is_extended(parse(records'[i].operation)) => previous_extend
        BY <1>1, <3>1, <4>2 DEF Coded, SamePlaces, r
      <4>8. CodedAt(i)'
        BY <4>4, <4>6, <4>7 DEF CodedAt, Coded
      <4> QED  BY <4>4, <4>5, <4>8
    <3>2. CASE i # next
      <4>1. i \in Emitted /\ i \in DOMAIN records /\ records'[i] = records[i]
        BY <2>3, <2>4, <2>7, <3>2
      <4>2. IsInstruction(records[i].operation)
        BY <2>10, <4>1
      <4>3. image[At(records[i])] = records[i].word /\ CodedAt(i)
        BY <2>5, <4>1, <4>2 DEF ImageInv
      <4>4. CodedAt(i)'
        BY <1>1, <4>1, <4>3, CodedStays
      <4>5. At(records[i]) \in DOMAIN image
        <5>1. emitted_word_count(records[i]) = 1
          BY <4>2 DEF emitted_word_count
        <5>2. records[i] \in Records
          BY <4>1, RecordTyped
        <5>3. At(records[i]) \in Extent(records[i])
          BY <5>1, <5>2, StartOfExtent DEF Extent
        <5> QED  BY <2>6, <4>1, <5>3
      <4> QED  BY <2>3, <4>1, <4>3, <4>4, <4>5
    <3> QED  BY <3>1, <3>2
  <2>11. ASSUME NEW i \in Emitted', ~IsInstruction(records'[i].operation)
         PROVE  DataHeld(records[i], WordsOf(records[i]))'
    <3>1. CASE i = next
      <4>1. ~IsInstruction(r.operation)
        BY <1>2, <2>1, <2>11, <3>1 DEF r
      <4>2. DataHeld(records[i], words)
        BY <1>1, <2>3, <3>1, <4>1, EmittedData DEF RecordsInv, words, r
      <4>3. WordsOf(records[i])' = words
        <5>1. emitted_word_count(records'[i]) = emitted_word_count(r) /\ At(records'[i]) = At(r)
          BY <1>1, <3>1, PlacesCompared DEF r
        <5> QED  BY <2>3, <5>1 DEF WordsOf
      <4> QED  BY <1>1, <3>1, <4>2, <4>3, DataStays
    <3>2. CASE i # next
      <4>1. i \in Emitted /\ i \in DOMAIN records /\ records'[i] = records[i]
        BY <2>3, <2>4, <2>7, <3>2
      <4>2. DataHeld(records[i], WordsOf(records[i]))
        BY <2>5, <2>11, <4>1 DEF ImageInv
      <4>3. WordsOf(records[i])' = WordsOf(records[i])
        BY <2>3, <2>6, <4>1, WordsStay
      <4> QED  BY <1>1, <4>1, <4>2, <4>3, DataStays
    <3> QED  BY <3>1, <3>2
  <2> QED  BY <2>8, <2>9, <2>10, <2>11 DEF ImageInv
<1> QED  BY <1>3, <1>4

LEMMA EmitStep ==
  ASSUME RecordsInv, RecordsInv', PlacesInv, EmitInv, route = "native", NextAssembler
  PROVE  EmitInv'
<1> DEFINE Late == {"emit", "done", "rejected"}
<1>1. ASSUME phase \notin Late, phase' \notin Late, image' = image,
             previous_extend' = previous_extend
      PROVE  EmitInv'
  <2>1. image' = <<>> /\ previous_extend' = FALSE
    BY <1>1 DEF EmitInv, RecordsInv
  <2>2. Emitted' = {} /\ phase' # "done" /\ phase' # "emit"
    BY <1>1 DEF Emitted
  <2> QED  BY <2>1, <2>2, NothingEmitted
<1>2. CASE expand_program \/ expand_include \/ expand_statement \/ leave_file \/ assigned
             \/ resolve_equates
  <2>1. image' = image /\ previous_extend' = previous_extend
    BY <1>2 DEF expand_program, expand_include, expand_statement, leave_file, assigned,
       resolve_equates, fail, passes
  <2>2. phase \notin Late /\ phase' \notin Late
    BY <1>2 DEF expand_program, expand_include, expand_statement, leave_file, assigned,
       resolve_equates, fail, AtLine
  <2> QED  BY <1>1, <2>1, <2>2
<1>3. CASE assign
  BY <1>1, <1>3 DEF assign
<1>4. CASE equates_resolved
  <2>1. phase = "equate" /\ phase' = "emit" /\ next' = 1 /\ image' = image
        /\ previous_extend' = previous_extend
    BY <1>4 DEF equates_resolved
  <2>2. image' = <<>> /\ previous_extend' = FALSE
    BY <2>1 DEF EmitInv, RecordsInv
  <2>3. \A i \in Placed' : ~(i < 1)
    BY RecordTyped DEF Placed, RecordsInv
  <2>4. Emitted' = {}
    BY <2>1, <2>3 DEF Emitted
  <2> QED  BY <2>1, <2>2, <2>4, NothingEmitted
<1>5. CASE emit
  <2>1. /\ phase' = "emit" /\ next' = next + 1 /\ next \in Nat \ {0} /\ next \in DOMAIN records
        /\ previous_extend' = (records[next].bank # NoBank /\ records[next].operation = "EXTEND")
    <3>1. next \in DOMAIN records /\ next \in Nat \ {0} /\ next' = next + 1 /\ phase' = "emit"
      BY <1>5, RecordTyped DEF emit
    <3>2. CASE records[next].bank = NoBank
      BY <1>5, <3>1, <3>2 DEF emit
    <3>3. CASE records[next].bank # NoBank
      BY <1>5, <3>1, <3>3 DEF emit
    <3> QED  BY <3>2, <3>3
  <2>2. SamePlaces
    BY <1>5, EmitSamePlaces
  <2>3. previous_extend' <=> Prefixed(next)'
    <3>1. next' > 1 /\ next' - 1 = next
      BY <2>1
    <3>2. /\ records'[next].operation = records[next].operation
          /\ records'[next].bank = records[next].bank
      BY <2>1, <2>2 DEF SamePlaces
    <3> QED  BY <2>1, <3>1, <3>2 DEF Prefixed
  <2>4. diagnostics' = {} => ImageInv'
    BY <1>5, <2>2, EmissionKeeps
  <2> QED  BY <2>1, <2>3, <2>4 DEF EmitInv
<1>6. CASE assembled
  <2>1. /\ phase = "emit" /\ next > Len(records)
        /\ phase' = IF diagnostics = {} THEN "done" ELSE "rejected"
        /\ image' = image /\ records' = records /\ diagnostics' = diagnostics
        /\ symbols' = symbols
    BY <1>6 DEF assembled, expansion, passes
  <2>2. Emitted' = Emitted
    <3>1. \A i \in Placed : i < next
      BY <2>1, RecordTyped DEF Placed
    <3> QED  BY <2>1, <3>1 DEF Emitted, Placed
  <2>3. SamePlaces /\ (\A i \in Emitted : i \in DOMAIN records)
    BY <2>1 DEF SamePlaces, Emitted, Placed
  <2>4. \A i \in Emitted : CodedAt(i) => CodedAt(i)'
    BY <2>1, <2>3, CodedStays
  <2>5. ASSUME ImageInv, NEW i \in Emitted, ~IsInstruction(records[i].operation)
        PROVE  DataHeld(records[i], WordsOf(records[i]))'
    <3>1. DataHeld(records[i], WordsOf(records[i])) /\ WordsOf(records[i])' = WordsOf(records[i])
      BY <2>1, <2>5 DEF ImageInv, WordsOf
    <3> QED  BY <2>1, <2>3, <3>1, DataStays
  <2>6. diagnostics' = {} => ImageInv'
    BY <2>1, <2>2, <2>4, <2>5 DEF EmitInv, ImageInv
  <2> QED  BY <2>1, <2>6 DEF EmitInv
<1> QED  BY <1>2, <1>3, <1>4, <1>5, <1>6 DEF NextAssembler

AssemblyInv == TextInv /\ RecordsInv /\ PlacesInv /\ EmitInv

LEMMA AssemblyInitial == Init => AssemblyInv
<1> SUFFICES ASSUME Init  PROVE AssemblyInv
  OBVIOUS
<1>1. route = "native" => source \in Sources
  <2> SUFFICES ASSUME route = "native"  PROVE source \in Sources
    OBVIOUS
  <2>1. PICK given \in Sources : InitAssembler(given)
    BY DEF Init
  <2> QED  BY <2>1 DEF InitAssembler
<1>2. /\ phase = "start" /\ stack = <<>> /\ cache = <<>> /\ records = <<>> /\ diagnostics = {}
      /\ symbols = <<>> /\ location = Fixed(2, 0) /\ equates = <<>> /\ next = 1
      /\ image = <<>> /\ previous_extend = FALSE
  BY DEF Init, InitAssembler
<1>3. TextInv
  BY <1>1, <1>2 DEF TextInv
<1>4. RecordsInv
  <2>1. Fixed(2, 0) \in Places
    BY DEF Fixed, Places, FixedPlaces, UpTo
  <2>2. \A S : <<>> \in Seq(S)
    OBVIOUS
  <2>3. DOMAIN symbols = {} /\ records \in Seq(Records) /\ equates \in Seq(DOMAIN records)
    <3>1. DOMAIN symbols = {}
      BY <1>2
    <3>2. records \in Seq(Records)
      BY <1>2, <2>2
    <3>3. equates \in Seq(DOMAIN records)
      BY <1>2, <2>2
    <3> QED  BY <3>1, <3>2, <3>3
  <2>4. location \in Places
    BY <1>2, <2>1
  <2>5. next \in Nat \ {0}
    BY <1>2
  <2>6. previous_extend \in BOOLEAN
    BY <1>2
  <2> QED  BY <2>3, <2>4, <2>5, <2>6 DEF RecordsInv, Typed
<1>5. DOMAIN records = {} /\ Placed = {}
  BY <1>2 DEF Placed
<1>6. PlacesInv
  BY <1>2, <1>5 DEF PlacesInv, Unplaced, Counted, Labelled, Follows, Carries
<1>7. EmitInv
  <2>1. ImageInv
    BY <1>2, <1>5 DEF ImageInv, Emitted
  <2> QED  BY <1>2, <2>1 DEF EmitInv
<1> QED  BY <1>3, <1>4, <1>6, <1>7 DEF AssemblyInv

LEMMA AssemblyStep ==
  ASSUME AssemblyInv, [Next]_vars
  PROVE  AssemblyInv'
<1>1. CASE route = "native" /\ NextAssembler /\ route' = route
  <2>1. TextInv /\ RecordsInv /\ PlacesInv /\ EmitInv
    BY DEF AssemblyInv
  <2>2. TextInv'
    BY <1>1, <2>1, TextStep
  <2>3. RecordsInv'
    BY <1>1, <2>1, RecordsStep
  <2>4. PlacesInv'
    BY <1>1, <2>1, <2>3, PlacesStep
  <2>5. EmitInv'
    BY <1>1, <2>1, <2>3, EmitStep
  <2> QED  BY <2>2, <2>3, <2>4, <2>5 DEF AssemblyInv
<1>2. CASE UNCHANGED asmvars /\ route' = route
  <2>1. /\ source' = source /\ phase' = phase /\ stack' = stack /\ cache' = cache
        /\ records' = records /\ diagnostics' = diagnostics /\ symbols' = symbols
        /\ location' = location /\ equates' = equates /\ next' = next /\ image' = image
        /\ previous_extend' = previous_extend /\ route' = route
    BY <1>2 DEF asmvars, expansion, passes
  <2>2. TextInv' /\ RecordsInv'
    BY <2>1 DEF AssemblyInv, TextInv, Frames, RecordsInv, Typed
  <2>3. PlacesInv'
    BY <2>1 DEF AssemblyInv, PlacesInv, Unplaced, Waiting, Counted, Placed, Labelled, Follows,
       Prefixed, Carries
  <2>4. \A i : CodedAt(i) => CodedAt(i)'
    BY <2>1 DEF CodedAt, Prefixed, Coded
  <2>5. \A i : DataHeld(records[i], WordsOf(records[i]))
                => DataHeld(records[i], WordsOf(records[i]))'
    BY <2>1 DEF DataHeld, WordsOf
  <2>6. EmitInv'
    BY <2>1, <2>4, <2>5 DEF AssemblyInv, EmitInv, ImageInv, Emitted, Placed, Prefixed
  <2> QED  BY <2>2, <2>3, <2>6 DEF AssemblyInv
<1>3. \/ route = "native" /\ NextAssembler /\ route' = route
      \/ UNCHANGED asmvars /\ route' = route
  BY DEF Next, vars, stage, run_reference
<1> QED  BY <1>1, <1>2, <1>3

LEMMA AssemblyAlways == Spec => []AssemblyInv
<1>1. AssemblyInv /\ [Next]_vars => AssemblyInv'
  BY AssemblyStep
<1> QED  BY <1>1, AssemblyInitial, PTL DEF Spec
-----------------------------------------------------------------------------
(* The first word of a placed record is in the image.                      *)
LEMMA PlacedIsInImage ==
  ASSUME AssemblyInv, phase = "done", NEW i \in Placed
  PROVE  /\ i \in DOMAIN records /\ records[i] \in Records /\ At(records[i]) \in DOMAIN image
         /\ IsInstruction(records[i].operation) =>
              image[At(records[i])] = records[i].word /\ CodedAt(i)
<1>1. ImageInv /\ Emitted = Placed
  BY DEF AssemblyInv, EmitInv, Emitted
<1>2. i \in DOMAIN records /\ records[i] \in Records
  BY RecordTyped DEF AssemblyInv, Placed
<1>3. emitted_word_count(records[i]) \in Nat /\ emitted_word_count(records[i]) > 0
  BY <1>2, CountsAreNat DEF AssemblyInv, PlacesInv, Counted
<1>4. At(records[i]) \in Extent(records[i])
  BY <1>2, <1>3, StartOfExtent DEF Extent
<1> QED  BY <1>1, <1>2, <1>4 DEF ImageInv

LEMMA ExtendIsCoded ==
  ASSUME NEW r, r.operation = "EXTEND", NEW w, NEW e \in BOOLEAN, Coded(r, w, e)
  PROVE  Code!decode(w, FALSE).mnemonic = "EXTEND"
<1>1. parse(r.operation) = "EXTEND" /\ "EXTEND" \in DOMAIN Code!NoField
  BY ExtendIsOneWord
<1>2. ExtendedBase("EXTEND") = 6 /\ BasicBase("EXTEND") = 6
  BY <1>1 DEF ExtendedBase, BasicBase, Code!base, Code!NoField
<1>3. w = 6
  BY <1>1, <1>2 DEF Coded, Carried
<1> QED  BY <1>3 DEF Code!decode, Code!decodeBasic, Code!op

LEMMA InstructionsHeld ==
  ASSUME AssemblyInv, phase = "done", NEW i \in Placed, IsInstruction(records[i].operation)
  PROVE  InstructionHeld(i)
<1> DEFINE r == records[i]
           m == parse(r.operation)
           w == image[At(r)]
           operands == IF m \in DOMAIN Code!NoField THEN {0} ELSE Values(r.operand, symbols)
<1> SUFFICES ASSUME InContext(i)
             PROVE  \E k \in operands :
                      Reserved(i, k) \/ Code!decode(w, Prefixed(i)) = Code!op(Issued(m, k), k)
  BY DEF InstructionHeld
<1>1. w = r.word /\ CodedAt(i) /\ m \in Code!Mnemonic
  BY PlacedIsInImage DEF IsInstruction
<1>2. PICK e \in BOOLEAN : (e <=> Prefixed(i)) /\ Coded(r, r.word, e)
  BY <1>1 DEF CodedAt
<1>3. PICK k \in Nat : /\ Carried(m, k, r.word, e) /\ (Code!is_extended(m) => e)
                       /\ operands = {k} /\ (m \in DOMAIN Code!NoField => k = 0)
  BY <1>2 DEF Coded
<1>4. Reserved(i, k) \/ Code!decode(w, Prefixed(i)) = Code!op(Issued(m, k), k)
  <2>1. CASE e = TRUE
    <3>1. Prefixed(i) = TRUE
      BY <1>2, <2>1 DEF Prefixed
    <3>2. Code!is_extended(m) \/ m = "INDEX"
      BY <3>1, ExtendIsOneWord DEF InContext, BehindExtend, Prefixed, IsExtracode
    <3>3. w = Code!encode_with_context(m, k, TRUE) /\ k <= ExtendedLargest(m)
      BY <1>1, <1>3, <2>1 DEF Carried, Code!encode_with_context, ExtendedBase
    <3>4. Code!decode(w, TRUE) = Code!op(Issued(m, k), k)
      BY <3>2, <3>3, ExtendedDecodes
    <3> QED  BY <3>1, <3>4
  <2>2. CASE e = FALSE
    <3>1. Prefixed(i) = FALSE
      BY <1>2, <2>2 DEF Prefixed
    <3>2. Code!decode(w, FALSE) = Code!op(Issued(m, k), k) \/ Reserved(i, k)
      <4>1. CASE m \in DOMAIN Code!NoField
        <5>1. w = BasicBase(m) + 0 /\ k = 0
          BY <1>1, <1>3, <2>2, <4>1 DEF Carried
        <5>2. Code!decode(w, FALSE) = Code!op(Issued(m, 0), 0)
          BY <4>1, <5>1, FieldlessDecodes
        <5> QED  BY <5>1, <5>2
      <4>2. CASE m \notin DOMAIN Code!NoField /\ ~Reserved(i, k)
        <5>1. ~(m = "TC" /\ k \in {3, 4, 6}) /\ ~(m = "INDEX" /\ k = \o17)
          BY <3>1, <4>2 DEF Reserved
        <5>2. w = Code!encode_with_context(m, k, FALSE) /\ k <= BasicLargest(m)
          BY <1>1, <1>3, <2>2 DEF Carried, Code!encode_with_context, BasicBase
        <5>3. ~Code!is_extended(m)
          BY <1>3, <2>2
        <5> HIDE DEF m, w
        <5> QED  BY <1>1, <4>2, <5>1, <5>2, <5>3, BasicDecodes
      <4> QED  BY <4>1, <4>2
    <3> QED  BY <3>1, <3>2
  <2> QED  BY <2>1, <2>2
<1> HIDE DEF operands, m, w, r
<1> QED  BY <1>3, <1>4

LEMMA ExtracodesFollow ==
  ASSUME AssemblyInv, phase = "done", NEW i \in Placed, IsExtracode(records[i])
  PROVE  /\ At(records[i]) - 1 \in DOMAIN image
         /\ Code!decode(image[At(records[i]) - 1], FALSE).mnemonic = "EXTEND"
<1> DEFINE j == i - 1
<1>1. CodedAt(i) /\ Code!is_extended(parse(records[i].operation))
  BY PlacedIsInImage DEF IsExtracode
<1>2. Prefixed(i)
  BY <1>1 DEF CodedAt, Coded
<1>3. j \in Placed /\ records[j].operation = "EXTEND"
  BY <1>2, RecordTyped DEF AssemblyInv, Prefixed, Placed
<1>4. At(records[i]) = At(records[j]) + 1
  BY <1>2 DEF AssemblyInv, EmitInv, PlacesInv, Follows
<1>5. /\ At(records[j]) \in DOMAIN image /\ image[At(records[j])] = records[j].word
      /\ CodedAt(j) /\ At(records[j]) \in Int
  <2>1. IsInstruction(records[j].operation)
    BY <1>3, ExtendIsOneWord
  <2> QED  BY <1>3, <2>1, PlacedIsInImage DEF At, Records, UpTo, NoBank
<1>6. Code!decode(records[j].word, FALSE).mnemonic = "EXTEND"
  <2>1. PICK f \in BOOLEAN : Coded(records[j], records[j].word, f)
    BY <1>5 DEF CodedAt
  <2> QED  BY <1>3, <2>1, ExtendIsCoded
<1> HIDE DEF j
<1>7. At(records[i]) - 1 = At(records[j])
  BY <1>4, <1>5
<1> QED  BY <1>5, <1>6, <1>7

LEMMA ImageSound ==
  ASSUME AssemblyInv
  PROVE  ImageIsRecords
<1> SUFFICES ASSUME phase = "done"  PROVE ImageIsRecords
  BY DEF ImageIsRecords
<1>1. ImageInv /\ Emitted = Placed
  BY DEF AssemblyInv, EmitInv, Emitted
<1>2. \A i \in Placed : IsInstruction(records[i].operation) => InstructionHeld(i)
  BY InstructionsHeld
<1>3. \A i \in Placed : IsExtracode(records[i]) =>
        /\ At(records[i]) - 1 \in DOMAIN image
        /\ Code!decode(image[At(records[i]) - 1], FALSE).mnemonic = "EXTEND"
  BY ExtracodesFollow
<1> QED  BY <1>1, <1>2, <1>3 DEF ImageInv, ImageIsRecords

(* An image without a diagnostic holds the words of the records that were  *)
(* placed in fixed memory, no two in one place: data that reads back as    *)
(* the operand's value, instructions that decode as the source has them,   *)
(* extracodes right behind an EXTEND; for any tree, overlay and program.   *)
THEOREM ImageHoldsRecords == Spec => []ImageIsRecords
<1>1. AssemblyInv => ImageIsRecords
  BY ImageSound
<1> QED  BY <1>1, AssemblyAlways, PTL

LEMMA ReferencesSound ==
  ASSUME AssemblyInv
  PROVE  ReferencesReach
<1> SUFFICES ASSUME phase = "done", NEW i \in DOMAIN records, OnLabel(records[i])
             PROVE  LET v == symbols[records[i].operand.name]
                        operand == Code!decode(records[i].word, Prefixed(i)).operand
                    IN  /\ InItsBank(v) /\ InContext(i) /\ ~Reserved(i, logical_address(v)) =>
                             Memory(v)!translate(operand) = Named(v)
                        /\ \A j \in Placed : records[j].label = records[i].operand.name =>
                             At(records[j]) = v.bank * \o2000 + v.offset
  BY DEF ReferencesReach
<1> DEFINE r == records[i]
           m == parse(r.operation)
           v == symbols[r.operand.name]
<1>1. i \in Placed /\ IsInstruction(r.operation) /\ r \in Records /\ CodedAt(i)
  <2>1. i \in Placed /\ IsInstruction(r.operation)
    BY DEF OnLabel, Placed
  <2> QED  BY <2>1, PlacedIsInImage
<1>2. PICK e \in BOOLEAN : (e <=> Prefixed(i)) /\ Coded(r, r.word, e)
  BY <1>1 DEF CodedAt
<1>3. PICK k \in Nat : /\ Carried(m, k, r.word, e) /\ Values(r.operand, symbols) = {k}
                       /\ Code!is_extended(m) => e
  BY <1>2 DEF Coded, OnLabel
<1>4. r.operand.name \in STRING \ {""} /\ r.operand.name \in DOMAIN symbols /\ k = worth(v) + 0
  <2>1. r.operand \in Operands /\ r.operand.kind = "symbol" /\ r.operand.offset = 0
    BY <1>1 DEF OnLabel, Records
  <2>2. r.operand.name \in STRING \ {""}
    BY <2>1 DEF Operands
  <2>3. Values(r.operand, symbols) = {w + 0 : w \in Lookup(r.operand.name, symbols)}
    BY <2>1 DEF Values
  <2>4. r.operand.name \in DOMAIN symbols
    BY <1>3, <2>3 DEF Lookup
  <2>5. Values(r.operand, symbols) = {worth(v) + 0}
    BY <2>3, <2>4 DEF Lookup
  <2> QED  BY <1>3, <2>2, <2>4, <2>5
<1>5. v \in SymbolValues
  BY <1>4 DEF AssemblyInv, RecordsInv, Typed
<1>6. k = worth(v)
  <2> DEFINE n == worth(v)
  <2>1. n \in Int /\ k = n + 0
    BY <1>4, <1>5, WorthIsInt
  <2> HIDE DEF n
  <2>2. k = n
    BY <2>1
  <2> QED  BY <2>2 DEF n
<1>7. ASSUME NEW j \in Placed, records[j].label = r.operand.name
      PROVE  At(records[j]) = v.bank * \o2000 + v.offset
  <2>1. Labelled
    BY DEF AssemblyInv, EmitInv, PlacesInv
  <2>2. v = Fixed(records[j].bank, records[j].offset)
    BY <1>4, <1>7, <2>1 DEF Labelled
  <2> QED  BY <2>2 DEF At, Fixed
<1>8. ASSUME InItsBank(v), InContext(i), ~Reserved(i, logical_address(v))
      PROVE  Memory(v)!translate(Code!decode(r.word, Prefixed(i)).operand) = Named(v)
  <2>1. v \in Places
    BY <1>5, <1>8 DEF InItsBank, SymbolValues
  <2>2. k = logical_address(v)
    BY <1>6, <1>8 DEF worth, InItsBank
  <2>3. Memory(v)!translate(k) = Named(v)
    BY <1>8, <2>1, <2>2, LabelReached
  <2>4. m \in Code!Mnemonic /\ m \notin DOMAIN Code!NoField
    BY <1>1 DEF OnLabel, IsInstruction
  <2>5. CASE e = TRUE
    <3>1. Prefixed(i) = TRUE
      BY <1>2, <2>5 DEF Prefixed
    <3>2. Code!is_extended(m) \/ m = "INDEX"
      BY <1>8, <3>1, ExtendIsOneWord DEF InContext, BehindExtend, Prefixed, IsExtracode
    <3>3. r.word = Code!encode_with_context(m, k, TRUE) /\ k <= ExtendedLargest(m)
      BY <1>3, <2>5 DEF Carried, Code!encode_with_context, ExtendedBase
    <3>4. Code!decode(r.word, TRUE).operand = k
      <4>1. Code!decode(r.word, TRUE) = Code!op(Issued(m, k), k)
        BY <3>2, <3>3, ExtendedDecodes
      <4> DEFINE d == Code!decode(r.word, TRUE)
      <4>2. d = [mnemonic |-> Issued(m, k), operand |-> k]
        BY <4>1 DEF Code!op
      <4> HIDE DEF d
      <4>3. d.operand = k
        BY <4>2
      <4> QED  BY <4>3 DEF d
    <3> QED  BY <2>3, <3>1, <3>4
  <2>6. CASE e = FALSE
    <3>1. Prefixed(i) = FALSE
      BY <1>2, <2>6 DEF Prefixed
    <3>2. ~(m = "TC" /\ k \in {3, 4, 6}) /\ ~(m = "INDEX" /\ k = \o17)
      BY <1>8, <2>2, <3>1 DEF Reserved
    <3>3. r.word = Code!encode_with_context(m, k, FALSE) /\ k <= BasicLargest(m)
      BY <1>3, <2>6 DEF Carried, Code!encode_with_context, BasicBase
    <3>4. Code!decode(r.word, FALSE).operand = k
      <4> DEFINE d == Code!decode(r.word, FALSE)
      <4>1. d = Code!op(Issued(m, k), k)
        <5>1. ~Code!is_extended(m)
          BY <1>3, <2>6
        <5> HIDE DEF m
        <5> QED  BY <2>4, <3>2, <3>3, <5>1, BasicDecodes
      <4>2. d = [mnemonic |-> Issued(m, k), operand |-> k]
        BY <4>1 DEF Code!op
      <4> HIDE DEF d
      <4>3. d.operand = k
        BY <4>2
      <4> QED  BY <4>3 DEF d
    <3> QED  BY <2>3, <3>1, <3>4
  <2> QED  BY <2>5, <2>6
<1> QED  BY <1>7, <1>8

(* With a label's bank selected, the operand of an instruction on it is    *)
(* translated by the memory to the cell that the label's record was given; *)
(* for any tree, overlay and program.                                      *)
THEOREM ReferencesLand == Spec => []ReferencesReach
<1>1. AssemblyInv => ReferencesReach
  BY ReferencesSound
<1> QED  BY <1>1, AssemblyAlways, PTL
-----------------------------------------------------------------------------
(* Texts joined.                                                           *)
(* What the first k of a sequence of texts make together.                  *)
Joins(f, s) == f = [k \in 0 .. Len(s) |-> IF k = 0 THEN <<>> ELSE f[k - 1] \o s[k]]
Join(s) == CHOOSE f : Joins(f, s)

LEMMA JoinsExist ==
  ASSUME NEW s, NEW n \in Nat
  PROVE  \E f : f = [k \in 0 .. n |-> IF k = 0 THEN <<>> ELSE f[k - 1] \o s[k]]
<1> DEFINE To(f, m) == f = [k \in 0 .. m |-> IF k = 0 THEN <<>> ELSE f[k - 1] \o s[k]]
           T == {m \in Nat : ~ \E f : To(f, m)}
<1>1. SUFFICES ASSUME T # {}  PROVE FALSE
  <2>1. n \notin T => \E f : To(f, n)
    OBVIOUS
  <2> QED  BY <2>1
<1>2. PICK m \in T : \A l \in T : m <= l
  <2>1. T \in SUBSET Nat
    OBVIOUS
  <2> HIDE DEF T
  <2> QED  BY <1>1, <2>1, LeastNatural
<1>3. m # 0
  <2> DEFINE f == [k \in 0 .. 0 |-> <<>>]
  <2>1. To(f, 0)
    OBVIOUS
  <2> HIDE DEF To
  <2> QED  BY <2>1
<1>4. PICK f : To(f, m - 1)
  <2>1. m \in Nat
    OBVIOUS
  <2>2. m - 1 \in Nat /\ ~(m <= m - 1)
    BY <1>3, <2>1
  <2>3. m - 1 \notin T
    <3> HIDE DEF T
    <3> QED  BY <1>2, <2>2
  <2> QED  BY <2>2, <2>3
<1>5. To([k \in 0 .. m |-> IF k = m THEN f[m - 1] \o s[m] ELSE f[k]], m)
  <2> DEFINE g == [k \in 0 .. m |-> IF k = m THEN f[m - 1] \o s[m] ELSE f[k]]
  <2>1. m \in Nat
    OBVIOUS
  <2>2. ASSUME NEW k \in 0 .. m
        PROVE  g[k] = IF k = 0 THEN <<>> ELSE g[k - 1] \o s[k]
    <3>1. k # 0 => g[k - 1] = f[k - 1]
      BY <2>1
    <3>2. k # m => f[k] = IF k = 0 THEN <<>> ELSE f[k - 1] \o s[k]
      BY <2>1, <1>4
    <3> QED  BY <1>3, <3>1, <3>2
  <2>3. g = [k \in 0 .. m |-> IF k = 0 THEN <<>> ELSE g[k - 1] \o s[k]]
    <3>1. g = [k \in 0 .. m |-> g[k]]
      OBVIOUS
    <3> HIDE DEF g
    <3> QED  BY <2>2, <3>1
  <2> HIDE DEF g
  <2>4. To(g, m)
    BY <2>3
  <2> HIDE DEF To
  <2> QED  BY <2>4 DEF g
<1> HIDE DEF To
<1> QED  BY <1>5

LEMMA JoinedTo ==
  ASSUME NEW S, NEW s \in Seq(Seq(S))
  PROVE  /\ Join(s)[0] = <<>>
         /\ \A k \in 1 .. Len(s) : Join(s)[k] = Join(s)[k - 1] \o s[k]
         /\ \A k \in 0 .. Len(s) : Join(s)[k] \in Seq(S)
<1>1. Len(s) \in Nat /\ \A k \in 1 .. Len(s) : s[k] \in Seq(S)
  OBVIOUS
<1>2. Joins(Join(s), s)
  <2>1. \E f : Joins(f, s)
    BY <1>1, JoinsExist DEF Joins
  <2> QED  BY <2>1 DEF Join
<1> DEFINE f == Join(s)
<1>3. f = [k \in 0 .. Len(s) |-> IF k = 0 THEN <<>> ELSE f[k - 1] \o s[k]]
  BY <1>2 DEF Joins
<1> HIDE DEF f
<1>4. f[0] = <<>> /\ \A k \in 1 .. Len(s) : f[k] = f[k - 1] \o s[k]
  <2>1. 0 \in 0 .. Len(s) /\ \A k \in 1 .. Len(s) : k \in 0 .. Len(s) /\ k # 0
    BY <1>1
  <2>2. \A k \in 0 .. Len(s) : f[k] = IF k = 0 THEN <<>> ELSE f[k - 1] \o s[k]
    BY <1>3
  <2> QED  BY <2>1, <2>2
<1> DEFINE T == {k \in 0 .. Len(s) : f[k] \notin Seq(S)}
<1>5. T = {}
  <2> SUFFICES ASSUME T # {}  PROVE FALSE
    OBVIOUS
  <2>1. PICK k \in T : \A l \in T : k <= l
    <3>1. T \in SUBSET Nat
      BY <1>1
    <3> HIDE DEF T
    <3> QED  BY <3>1, LeastNatural
  <2>2. k # 0
    <3>1. <<>> \in Seq(S)
      OBVIOUS
    <3> QED  BY <1>4, <3>1
  <2>3. k \in 1 .. Len(s) /\ k - 1 \in 0 .. Len(s) /\ ~(k <= k - 1)
    BY <1>1, <2>2
  <2>4. f[k - 1] \in Seq(S)
    BY <2>1, <2>3
  <2>5. f[k] = f[k - 1] \o s[k] /\ s[k] \in Seq(S)
    BY <1>1, <1>4, <2>3
  <2>6. f[k] \in Seq(S)
    BY <2>4, <2>5, ConcatProperties
  <2> QED  BY <2>1, <2>6
<1> QED  BY <1>4, <1>5 DEF f

(* FlattenSeq joins them all.                                              *)
LEMMA FlattenIsJoin ==
  ASSUME NEW S, NEW s \in Seq(Seq(S))
  PROVE  FlattenSeq(s) = Join(s)[Len(s)]
<1> DEFINE Flat(f) == f = [i \in 1 .. Len(s) |-> IF i = 1 THEN s[i] ELSE f[i - 1] \o s[i]]
           F == CHOOSE f : Flat(f)
           j == Join(s)
<1>1. Len(s) \in Nat /\ \A k \in 1 .. Len(s) : s[k] \in Seq(S)
  OBVIOUS
<1>2. j[0] = <<>> /\ \A k \in 1 .. Len(s) : j[k] = j[k - 1] \o s[k]
  BY JoinedTo
<1> HIDE DEF j
<1>3. 1 \in 1 .. Len(s) => j[1] = <<>> \o s[1] /\ s[1] \in Seq(S)
  <2>1. 1 - 1 = 0
    OBVIOUS
  <2> SUFFICES ASSUME 1 \in 1 .. Len(s)  PROVE j[1] = <<>> \o s[1] /\ s[1] \in Seq(S)
    OBVIOUS
  <2>2. j[1] = j[1 - 1] \o s[1]
    BY <1>2
  <2> QED  BY <1>1, <1>2, <2>1, <2>2
<1>4. CASE Len(s) = 0
  BY <1>2, <1>4 DEF FlattenSeq, j
<1>5. CASE Len(s) # 0
  <2>1. FlattenSeq(s) = F[Len(s)]
    BY <1>5 DEF FlattenSeq
  <2>2. Flat(F)
    <3> DEFINE g == [i \in 1 .. Len(s) |-> j[i]]
    <3>1. ASSUME NEW i \in 1 .. Len(s)
          PROVE  g[i] = IF i = 1 THEN s[i] ELSE g[i - 1] \o s[i]
      <4>1. CASE i = 1
        <5>1. j[1] = <<>> \o s[1] /\ s[1] \in Seq(S)
          BY <1>3, <4>1
        <5>2. j[1] = s[1]
          BY <5>1, ConcatEmptySeq
        <5> QED  BY <4>1, <5>2
      <4>2. CASE i # 1
        <5>1. i - 1 \in 1 .. Len(s)
          BY <1>1, <4>2
        <5> QED  BY <1>2, <4>2, <5>1
      <4> QED  BY <4>1, <4>2
    <3>2. g = [i \in 1 .. Len(s) |-> IF i = 1 THEN s[i] ELSE g[i - 1] \o s[i]]
      <4>1. g = [i \in 1 .. Len(s) |-> g[i]]
        OBVIOUS
      <4> HIDE DEF g
      <4> QED  BY <3>1, <4>1
    <3> HIDE DEF g
    <3> QED  BY <3>2
  <2> HIDE DEF F
  <2>3. \A i \in 1 .. Len(s) : F[i] = IF i = 1 THEN s[i] ELSE F[i - 1] \o s[i]
    BY <2>2
  <2> DEFINE T == {i \in 1 .. Len(s) : F[i] # j[i]}
  <2>4. T = {}
    <3> SUFFICES ASSUME T # {}  PROVE FALSE
      OBVIOUS
    <3>1. PICK i \in T : \A l \in T : i <= l
      <4>1. T \in SUBSET Nat
        BY <1>1
      <4> HIDE DEF T
      <4> QED  BY <4>1, LeastNatural
    <3>2. CASE i = 1
      <4>1. j[1] = <<>> \o s[1] /\ s[1] \in Seq(S) /\ F[1] = s[1]
        BY <1>3, <2>3, <3>2
      <4>2. j[1] = s[1]
        BY <4>1, ConcatEmptySeq
      <4> QED  BY <3>2, <4>1, <4>2
    <3>3. CASE i # 1
      <4>1. i - 1 \in 1 .. Len(s) /\ ~(i <= i - 1)
        BY <1>1, <3>3
      <4>2. F[i - 1] = j[i - 1]
        BY <3>1, <4>1
      <4>3. F[i] = F[i - 1] \o s[i] /\ j[i] = j[i - 1] \o s[i]
        BY <1>2, <2>3, <3>3
      <4> QED  BY <4>2, <4>3
    <3> QED  BY <3>2, <3>3
  <2>5. Len(s) \in 1 .. Len(s)
    BY <1>1, <1>5
  <2> QED  BY <2>1, <2>4, <2>5 DEF j
<1> QED  BY <1>4, <1>5

-----------------------------------------------------------------------------
(* The texts that a tree reads as.                                         *)
Pieces(tree, overlay, path, text) ==
  [i \in DOMAIN tree[path] |-> Follow(tree, overlay, path, tree[path][i], text)]
ReadTo(tree, overlay, text, n) ==
  text = [d \in 0 .. n |->
            [path \in DOMAIN tree |->
               IF d = 0 THEN Failure ELSE FlattenSeq(Pieces(tree, overlay, path, text[d - 1]))]]
Texts(tree, overlay, n) == CHOOSE text : ReadTo(tree, overlay, text, n)

LEMMA ReadsIsText ==
  ASSUME NEW tree, NEW overlay, NEW entry \in DOMAIN tree, NEW n
  PROVE  Reads(tree, overlay, entry, n) = Texts(tree, overlay, n)[n][entry]
BY DEF Reads, Texts, ReadTo, Pieces

LEMMA TextsExist ==
  ASSUME NEW tree, NEW overlay, NEW n \in Nat
  PROVE  \E text : ReadTo(tree, overlay, text, n)
<1> DEFINE P(path, below) == FlattenSeq(Pieces(tree, overlay, path, below))
           Level(d, below) == [path \in DOMAIN tree |-> IF d = 0 THEN Failure ELSE P(path, below)]
           T == {m \in Nat : ~ \E text : ReadTo(tree, overlay, text, m)}
<1>1. ASSUME NEW f, NEW m
      PROVE  ReadTo(tree, overlay, f, m) <=> f = [d \in 0 .. m |-> Level(d, f[d - 1])]
  BY DEF ReadTo
<1>2. SUFFICES ASSUME T # {}  PROVE FALSE
  OBVIOUS
<1>3. PICK m \in T : \A l \in T : m <= l
  <2>1. T \in SUBSET Nat
    OBVIOUS
  <2> HIDE DEF T
  <2> QED  BY <1>2, <2>1, LeastNatural
<1>4. m # 0
  <2> DEFINE f == [d \in 0 .. 0 |-> [path \in DOMAIN tree |-> Failure]]
  <2>1. ReadTo(tree, overlay, f, 0)
    BY DEF ReadTo
  <2> QED  BY <2>1
<1>5. PICK f : ReadTo(tree, overlay, f, m - 1)
  <2>1. m - 1 \in Nat /\ m - 1 \notin T
    BY <1>3, <1>4
  <2> QED  BY <2>1
<1> HIDE DEF Level
<1> DEFINE g == [d \in 0 .. m |-> IF d = m THEN Level(m, f[m - 1]) ELSE f[d]]
<1>6. ReadTo(tree, overlay, g, m)
  <2>1. m \in Nat
    OBVIOUS
  <2>2. ASSUME NEW d \in 0 .. m  PROVE g[d] = Level(d, g[d - 1])
    <3>1. d # 0 => g[d - 1] = f[d - 1]
      BY <2>1
    <3>2. d # m => f[d] = Level(d, f[d - 1])
      BY <2>1, <1>1, <1>5
    <3>3. Level(0, g[-1]) = Level(0, f[-1])
      BY DEF Level
    <3> QED  BY <1>4, <3>1, <3>2, <3>3
  <2>3. g = [d \in 0 .. m |-> Level(d, g[d - 1])]
    <3>1. g = [d \in 0 .. m |-> g[d]]
      OBVIOUS
    <3> HIDE DEF g
    <3> QED  BY <2>2, <3>1
  <2> HIDE DEF g
  <2> QED  BY <1>1, <2>3
<1> QED  BY <1>6

LEMMA TextsAre ==
  ASSUME NEW tree, NEW overlay, NEW n \in Nat, NEW d \in 0 .. n, NEW path \in DOMAIN tree
  PROVE  Texts(tree, overlay, n)[d][path]
           = IF d = 0 THEN Failure
             ELSE FlattenSeq(Pieces(tree, overlay, path, Texts(tree, overlay, n)[d - 1]))
<1> DEFINE t == Texts(tree, overlay, n)
           P(p, below) == FlattenSeq(Pieces(tree, overlay, p, below))
<1>1. ReadTo(tree, overlay, t, n)
  BY TextsExist DEF Texts
<1> HIDE DEF t
<1>2. t = [e \in 0 .. n |-> [p \in DOMAIN tree |-> IF e = 0 THEN Failure ELSE P(p, t[e - 1])]]
  BY <1>1 DEF ReadTo
<1> HIDE DEF P
<1>3. t[d][path] = IF d = 0 THEN Failure ELSE P(path, t[d - 1])
  BY <1>2
<1> QED  BY <1>3 DEF P, t
-----------------------------------------------------------------------------
(* The two trees.                                                          *)
Originals == {alias.original : alias \in ToSet(source.overlay.aliases)}
Base(path) == resolve_include(source.overlay, path)
Staged == materialize(source.overlay, source.tree)
AliasesFit ==
  source \in Sources /\ Stageable /\ ~EditsAnAlias /\ ~AliasesElsewhere

LEMMA OneComponent ==
  ASSUME NEW path \in Paths, path # <<>>, ~(Len(path) > 1)
  PROVE  Len(path) = 1 /\ Front(path) = <<>>
<1>1. Len(path) \in Nat /\ Len(path) # 0
  BY DEF Paths
<1>2. Len(path) = 1
  BY <1>1
<1>3. SubSeq(path, 1, 0) = <<>>
  BY SubSeqEmpty
<1> QED  BY <1>2, <1>3 DEF Front

LEMMA SourceTyped ==
  ASSUME NEW given \in Sources
  PROVE  /\ DOMAIN given.tree \subseteq Paths \ {<<>>} /\ IsFiniteSet(DOMAIN given.tree)
         /\ \A path \in DOMAIN given.tree : given.tree[path] \in Seq(Lines)
         /\ \A alias \in ToSet(given.overlay.aliases) : alias \in Aliases
         /\ given.overlay \in [program : STRING, aliases : Seq(Aliases), edits : Seq(Edits)]
<1>1. given.overlay.aliases \in Seq(Aliases)
  BY SourcesAssumption
<1>2. \A alias \in ToSet(given.overlay.aliases) : alias \in Aliases
  BY <1>1 DEF ToSet
<1> QED  BY <1>2, SourcesAssumption

(* A path that an alias is for leads to its replacement, no other moves.   *)
LEMMA BaseOfPath ==
  ASSUME AliasesFit, NEW path
  PROVE  /\ path \notin Originals => Base(path) = path
         /\ path \in Originals =>
              /\ path \notin DOMAIN source.tree /\ Base(path) \in DOMAIN source.tree
              /\ SafePath(path) /\ SafePath(Base(path))
              /\ Len(path) = 1 /\ Front(path) = <<>>
              /\ Len(Base(path)) = 1 /\ Front(Base(path)) = <<>>
              /\ EditsOf(source.overlay, Base(path)) = {}
<1>1. path \notin Originals => Base(path) = path
  BY DEF Originals, Base, resolve_include
<1>2. ASSUME path \in Originals
      PROVE  \E alias \in ToSet(source.overlay.aliases) :
               alias.original = path /\ Base(path) = alias.replacement
  <2> DEFINE a == CHOOSE alias \in ToSet(source.overlay.aliases) : alias.original = path
  <2>1. \E alias \in ToSet(source.overlay.aliases) : alias.original = path
    BY <1>2 DEF Originals
  <2>2. a \in ToSet(source.overlay.aliases) /\ a.original = path
    BY <2>1
  <2>3. Base(path) = a.replacement
    BY <2>1 DEF Base, resolve_include
  <2> QED  BY <2>2, <2>3
<1>3. ASSUME path \in Originals
      PROVE  /\ path \notin DOMAIN source.tree /\ Base(path) \in DOMAIN source.tree
             /\ SafePath(path) /\ SafePath(Base(path))
             /\ Len(path) = 1 /\ Front(path) = <<>>
             /\ Len(Base(path)) = 1 /\ Front(Base(path)) = <<>>
             /\ EditsOf(source.overlay, Base(path)) = {}
  <2>1. PICK alias \in ToSet(source.overlay.aliases) :
               alias.original = path /\ Base(path) = alias.replacement
    BY <1>2, <1>3
  <2>2. path \in Paths /\ Base(path) \in Paths
    BY <2>1, SourceTyped DEF AliasesFit, Aliases
  <2>3. SafePath(path) /\ SafePath(Base(path))
    BY <2>1 DEF AliasesFit, Stageable, ValidOverlay
  <2>4. path \notin DOMAIN source.tree /\ Base(path) \in DOMAIN source.tree
    BY <2>1 DEF AliasesFit, Stageable, Verified
  <2>5. ~(Len(path) > 1) /\ ~(Len(Base(path)) > 1)
    BY <2>1 DEF AliasesFit, AliasesElsewhere
  <2>6. path # <<>> /\ Base(path) # <<>>
    BY <2>3 DEF SafePath
  <2>7. EditsOf(source.overlay, Base(path)) = {}
    BY <2>1 DEF AliasesFit, EditsAnAlias, EditsOf
  <2> QED  BY <2>2, <2>3, <2>4, <2>5, <2>6, <2>7, OneComponent
<1> QED  BY <1>1, <1>3

(* Each staged file is the edited text of the file that its path is for.   *)
LEMMA StagedFiles ==
  ASSUME AliasesFit
  PROVE  /\ DOMAIN Staged = DOMAIN source.tree \cup Originals
         /\ \A path \in DOMAIN Staged :
              Base(path) \in DOMAIN source.tree /\ Staged[path] = Edited(Base(path))
<1>1. DOMAIN Staged = DOMAIN source.tree \cup Originals
  BY DEF Staged, materialize, Originals
<1>2. ASSUME NEW path \in DOMAIN source.tree
      PROVE  Base(path) \in DOMAIN source.tree /\ Staged[path] = Edited(Base(path))
  <2>1. Base(path) = path
    BY BaseOfPath
  <2> QED  BY <2>1 DEF Staged, materialize, Edited
<1>3. ASSUME NEW path \in Originals
      PROVE  Base(path) \in DOMAIN source.tree /\ Staged[path] = Edited(Base(path))
  <2> DEFINE text == source.tree[Base(path)]
  <2>1. /\ path \notin DOMAIN source.tree /\ Base(path) \in DOMAIN source.tree
        /\ EditsOf(source.overlay, Base(path)) = {}
    BY BaseOfPath
  <2>2. Staged[path] = text
    BY <1>1, <2>1 DEF Staged, materialize, Base, Originals
  <2>3. Edited(Base(path)) = [i \in DOMAIN text |-> text[i]]
    BY <2>1 DEF Edited, apply_to_source
  <2>4. text \in Seq(Lines)
    BY <2>1, SourceTyped DEF AliasesFit
  <2>5. text = [i \in DOMAIN text |-> text[i]]
    <3> HIDE DEF text
    <3> QED  BY <2>4
  <2> QED  BY <2>1, <2>2, <2>3, <2>5
<1> QED  BY <1>1, <1>2, <1>3

(* What an include names in the one tree stands where it names it in the   *)
(* other.                                                                  *)
LEMMA IncludesMeet ==
  ASSUME AliasesFit, NEW path \in DOMAIN Staged, NEW i \in DOMAIN Staged[path],
         Staged[path][i].kind = "include"
  PROVE  LET line == Staged[path][i]
             there == Front(path) \o line.path
             here == Front(Base(path)) \o Base(line.path)
         IN  /\ SafePath(line.path) <=> SafePath(Base(line.path))
             /\ SafePath(line.path) =>
                  /\ there \in DOMAIN Staged <=> here \in DOMAIN source.tree
                  /\ there \in DOMAIN Staged => Base(there) = here
<1> DEFINE line == Staged[path][i]
           from == Base(path)
           there == Front(path) \o line.path
           here == Front(from) \o Base(line.path)
<1>1. from \in DOMAIN source.tree /\ Staged[path] = Edited(from)
  BY StagedFiles
<1>2. from \in Paths /\ from # <<>> /\ (path \notin Originals => from = path)
  BY <1>1, BaseOfPath, SourceTyped DEF AliasesFit
<1>3. line \in ToSet(Edited(from)) /\ line.kind = "include"
  BY <1>1 DEF ToSet
<1>4. line.path \in Paths
  <2>1. Edited(from) # Failure
    <3>1. \A l \in ToSet(Failure) : l.kind = "failure"
      BY DEF Failure, ToSet
    <3> QED  BY <1>3, <3>1
  <2>2. Edited(from) \in Seq(Lines)
    BY <1>1, <2>1, EditedTyped DEF AliasesFit, Edited, EditedOf
  <2>3. line \in Lines
    <3> HIDE DEF line
    <3> QED  BY <1>3, <2>2 DEF ToSet
  <2> HIDE DEF line
  <2> QED  BY <1>3, <2>3 DEF Lines, Statements
<1>5. Len(from) > 1 => Base(line.path) = line.path
  BY <1>1, <1>3 DEF AliasesFit, AliasesElsewhere, Base
<1> HIDE DEF line
<1>6. CASE line.path \in Originals
  <2>1. /\ Base(line.path) \in DOMAIN source.tree /\ line.path \notin DOMAIN source.tree
        /\ SafePath(line.path) /\ SafePath(Base(line.path))
    BY <1>6, BaseOfPath
  <2>2. ~(Len(from) > 1)
    BY <1>5, <2>1
  <2>3. Front(from) = <<>> /\ Front(path) = <<>>
    BY <1>2, <2>2, OneComponent, BaseOfPath
  <2>4. Base(line.path) \in Paths
    BY <2>1, SourceTyped DEF AliasesFit
  <2>5. there = line.path /\ here = Base(line.path)
    BY <1>4, <2>3, <2>4, ConcatEmptySeq DEF Paths
  <2> QED  BY <1>6, <2>1, <2>5, StagedFiles DEF line
<1>7. CASE line.path \notin Originals
  <2>1. Base(line.path) = line.path
    BY <1>7, BaseOfPath
  <2>2. Front(path) = Front(from)
    BY <1>2, BaseOfPath
  <2>3. ASSUME SafePath(line.path)  PROVE there \notin Originals
    <3>1. line.path # <<>>
      BY <2>3 DEF SafePath
    <3>2. CASE Len(from) > 1
      <4>1. Front(from) \in Seq(STRING) /\ Len(Front(from)) > 0
        <5>1. Len(from) \in Nat /\ \A j \in 1 .. Len(from) - 1 : from[j] \in STRING
          BY <1>2 DEF Paths
        <5>2. /\ SubSeq(from, 1, Len(from) - 1) \in Seq(STRING)
              /\ Len(SubSeq(from, 1, Len(from) - 1)) = Len(from) - 1
          BY <3>2, <5>1
        <5> QED  BY <3>2, <5>1, <5>2 DEF Front
      <4>2. Len(line.path) \in Nat /\ Len(line.path) # 0
        BY <1>4, <3>1 DEF Paths
      <4>3. Len(there) = Len(Front(from)) + Len(line.path)
        BY <1>4, <2>2, <4>1, ConcatProperties DEF Paths
      <4>4. Len(there) # 1
        BY <4>1, <4>2, <4>3
      <4> QED  BY <4>4, BaseOfPath
    <3>3. CASE ~(Len(from) > 1)
      <4>1. Front(from) = <<>>
        BY <1>2, <3>3, OneComponent
      <4>2. there = line.path
        BY <1>4, <2>2, <4>1, ConcatEmptySeq DEF Paths
      <4> QED  BY <1>7, <4>2
    <3> QED  BY <3>2, <3>3
  <2>4. here = there
    BY <2>1, <2>2
  <2>5. SafePath(line.path) =>
          /\ there \in DOMAIN Staged <=> here \in DOMAIN source.tree
          /\ there \in DOMAIN Staged => Base(there) = here
    BY <2>3, <2>4, StagedFiles, BaseOfPath
  <2> QED  BY <2>1, <2>5 DEF line
<1> QED  BY <1>6, <1>7

LEMMA UnaliasedIncludes ==
  ASSUME source \in Sources, NEW include
  PROVE  resolve_include(Unaliased, include) = include
<1>1. Unaliased.aliases = <<>>
  BY SourceTyped DEF Unaliased
<1>2. ToSet(<<>>) = {}
  BY DEF ToSet
<1> QED  BY <1>1, <1>2 DEF resolve_include

(* Read to the same depth, a staged file is the text of the edited one.    *)
LEMMA FilesReadAlike ==
  ASSUME AliasesFit, NEW n \in Nat, NEW d \in 0 .. n
  PROVE  \A path \in DOMAIN Staged :
           Texts(Staged, Unaliased, n)[d][path]
             = Texts(EditedTree, source.overlay, n)[d][Base(path)]
<1> DEFINE there == Texts(Staged, Unaliased, n)
           here == Texts(EditedTree, source.overlay, n)
           Alike(e) == \A path \in DOMAIN Staged : there[e][path] = here[e][Base(path)]
           T == {e \in 0 .. n : ~Alike(e)}
<1>1. SUFFICES ASSUME T # {}  PROVE FALSE
  OBVIOUS
<1>2. PICK e \in T : \A l \in T : e <= l
  <2>1. T \in SUBSET Nat
    OBVIOUS
  <2> HIDE DEF T
  <2> QED  BY <1>1, <2>1, LeastNatural
<1>3. \A path \in DOMAIN Staged : Base(path) \in DOMAIN EditedTree
  BY StagedFiles DEF EditedTree
<1>4. e # 0
  <2> SUFFICES ASSUME e = 0  PROVE Alike(e)
    OBVIOUS
  <2> TAKE path \in DOMAIN Staged
  <2>1. there[e][path] = Failure
    BY TextsAre
  <2>2. here[e][Base(path)] = Failure
    BY <1>3, TextsAre
  <2> QED  BY <2>1, <2>2
<1>5. Alike(e - 1)
  <2>1. e \in Nat /\ e \in 0 .. n
    OBVIOUS
  <2>2. e - 1 \in 0 .. n /\ ~(e <= e - 1)
    BY <1>4, <2>1
  <2> HIDE DEF Alike
  <2> QED  BY <1>2, <2>2
<1>6. ASSUME NEW path \in DOMAIN Staged  PROVE there[e][path] = here[e][Base(path)]
  <2> DEFINE low == there[e - 1]
             below == here[e - 1]
             from == Base(path)
  <2>1. there[e][path] = FlattenSeq(Pieces(Staged, Unaliased, path, low))
    BY <1>4, TextsAre
  <2>2. here[e][from] = FlattenSeq(Pieces(EditedTree, source.overlay, from, below))
    BY <1>3, <1>4, TextsAre
  <2>3. Staged[path] = EditedTree[from]
    BY StagedFiles DEF EditedTree
  <2>4. ASSUME NEW i \in DOMAIN Staged[path]
        PROVE  Follow(Staged, Unaliased, path, Staged[path][i], low)
                 = Follow(EditedTree, source.overlay, from, Staged[path][i], below)
    <3> DEFINE line == Staged[path][i]
    <3>1. CASE line.kind # "include"
      BY <3>1 DEF Follow
    <3>2. CASE line.kind = "include"
      <4> DEFINE t == Front(path) \o line.path
                 h == Front(from) \o Base(line.path)
      <4>1. /\ SafePath(line.path) <=> SafePath(Base(line.path))
            /\ SafePath(line.path) =>
                 /\ t \in DOMAIN Staged <=> h \in DOMAIN source.tree
                 /\ t \in DOMAIN Staged => Base(t) = h
        BY <3>2, IncludesMeet
      <4>2. Follow(Staged, Unaliased, path, line, low)
              = IF SafePath(line.path) /\ t \in DOMAIN Staged THEN low[t] ELSE Failure
        BY <3>2, UnaliasedIncludes DEF Follow, Included, resolve_relative_include, AliasesFit
      <4>3. Follow(EditedTree, source.overlay, from, line, below)
              = IF SafePath(Base(line.path)) /\ h \in DOMAIN source.tree THEN below[h] ELSE Failure
        BY <3>2 DEF Follow, Included, resolve_relative_include, Base, EditedTree
      <4>4. \A p \in DOMAIN Staged : low[p] = below[Base(p)]
        BY <1>5
      <4> HIDE DEF t, h, low, below, line, from
      <4>5. Follow(Staged, Unaliased, path, line, low)
              = Follow(EditedTree, source.overlay, from, line, below)
        BY <4>1, <4>2, <4>3, <4>4
      <4> QED  BY <4>5 DEF line
    <3> QED  BY <3>1, <3>2
  <2>5. Pieces(Staged, Unaliased, path, low) = Pieces(EditedTree, source.overlay, from, below)
    <3> HIDE DEF low, below, from
    <3> QED  BY <2>3, <2>4 DEF Pieces
  <2> QED  BY <2>1, <2>2, <2>5
<1>7. Alike(e)
  BY <1>6
<1> HIDE DEF Alike
<1> QED  BY <1>2, <1>7

LEMMA RoutesReadAlike ==
  ASSUME AliasesFit
  PROVE  Text(Staged, Unaliased) = Text(EditedTree, source.overlay)
<1>1. IsFiniteSet(DOMAIN source.tree)
  BY SourceTyped DEF AliasesFit
<1>2. Depth \in Nat
  BY <1>1, FS_CardinalityType DEF Depth
<1>3. source.entry \in DOMAIN source.tree
  BY DEF AliasesFit, AliasesElsewhere
<1>4. source.entry \in DOMAIN Staged /\ source.entry \in DOMAIN EditedTree
  BY <1>3, StagedFiles DEF EditedTree
<1>5. Base(source.entry) = source.entry
  BY <1>3, BaseOfPath
<1>6. Text(Staged, Unaliased) = Texts(Staged, Unaliased, Depth)[Depth][source.entry]
  BY <1>4, ReadsIsText DEF Text
<1>7. Text(EditedTree, source.overlay)
        = Texts(EditedTree, source.overlay, Depth)[Depth][source.entry]
  BY <1>4, ReadsIsText DEF Text
<1>8. Depth \in 0 .. Depth
  BY <1>2
<1> HIDE DEF Depth
<1> QED  BY <1>2, <1>4, <1>5, <1>6, <1>7, <1>8, FilesReadAlike
-----------------------------------------------------------------------------
(* What a frame has read.                                                  *)
AnyLine == Lines \cup ToSet(Failure)
TreeOf(given) == [path \in DOMAIN given.tree |-> EditedOf(given, path)]
DepthOf(given) == Cardinality(DOMAIN given.tree) + 1
TextsOf(given) == Texts(TreeOf(given), given.overlay, DepthOf(given))
(* The k-th file from the entry reads what it includes to this depth.      *)
Level(given, k) == TextsOf(given)[DepthOf(given) - k]
PiecesOf(given, path, k) == Pieces(TreeOf(given), given.overlay, path, Level(given, k))
Part(given, path, k, n) == Join(PiecesOf(given, path, k))[n]

LEMMA FailureTyped ==
  Failure \in Seq(AnyLine) /\ Lines \subseteq AnyLine
BY DEF Failure, AnyLine, ToSet

LEMMA EditedIsText ==
  ASSUME NEW given \in Sources, NEW path \in DOMAIN given.tree
  PROVE  EditedOf(given, path) \in Seq(AnyLine)
<1>1. CASE EditedOf(given, path) = Failure
  BY <1>1, FailureTyped
<1>2. CASE EditedOf(given, path) # Failure
  <2>1. EditedOf(given, path) \in Seq(Lines)
    BY <1>2, EditedTyped
  <2> QED  BY <2>1, FailureTyped, WiderSequence
<1> QED  BY <1>1, <1>2

LEMMA PiecesTyped ==
  ASSUME NEW given \in Sources, NEW path \in DOMAIN given.tree, NEW text,
         \A p \in DOMAIN given.tree : text[p] \in Seq(AnyLine)
  PROVE  LET t == EditedOf(given, path)
             p == Pieces(TreeOf(given), given.overlay, path, text)
         IN  /\ p \in Seq(Seq(AnyLine)) /\ Len(p) = Len(t) /\ Len(t) \in Nat
             /\ \A i \in 1 .. Len(t) :
                  p[i] = Follow(TreeOf(given), given.overlay, path, t[i], text)
<1> DEFINE t == EditedOf(given, path)
           P(i) == Follow(TreeOf(given), given.overlay, path, t[i], text)
           p == Pieces(TreeOf(given), given.overlay, path, text)
<1>1. t \in Seq(AnyLine)
  BY EditedIsText
<1>2. p = [i \in DOMAIN t |-> P(i)]
  BY DEF Pieces, TreeOf
<1> HIDE DEF t
<1>3. Len(t) \in Nat /\ DOMAIN t = 1 .. Len(t) /\ \A i \in 1 .. Len(t) : t[i] \in AnyLine
  BY <1>1
<1>4. ASSUME NEW i \in 1 .. Len(t)  PROVE P(i) \in Seq(AnyLine)
  <2> DEFINE x == t[i]
  <2>1. x \in AnyLine /\ DOMAIN TreeOf(given) = DOMAIN given.tree
    BY <1>3 DEF TreeOf
  <2>2. <<x>> \in Seq(AnyLine)
    <3> HIDE DEF x
    <3> QED  BY <2>1
  <2> HIDE DEF x
  <2>3. Follow(TreeOf(given), given.overlay, path, x, text) \in Seq(AnyLine)
    BY <2>1, <2>2, FailureTyped DEF Follow
  <2> QED  BY <2>3 DEF x
<1> HIDE DEF P
<1>5. p = [i \in 1 .. Len(t) |-> P(i)]
  BY <1>2, <1>3
<1> HIDE DEF p
<1>6. p \in Seq(Seq(AnyLine)) /\ Len(p) = Len(t)
  BY <1>3, <1>4, <1>5
<1> QED  BY <1>3, <1>5, <1>6 DEF t, p, P

LEMMA LevelsTyped ==
  ASSUME NEW given \in Sources
  PROVE  /\ DepthOf(given) \in Nat \ {0}
         /\ \A d \in 0 .. DepthOf(given) : \A path \in DOMAIN given.tree :
              TextsOf(given)[d][path] \in Seq(AnyLine)
<1> DEFINE n == DepthOf(given)
           text == TextsOf(given)
           Good(d) == \A path \in DOMAIN given.tree : text[d][path] \in Seq(AnyLine)
           T == {d \in 0 .. n : ~Good(d)}
<1>1. n \in Nat \ {0}
  BY SourceTyped, FS_CardinalityType DEF DepthOf
<1> HIDE DEF n
<1>2. DOMAIN TreeOf(given) = DOMAIN given.tree
  BY DEF TreeOf
<1>3. \A d \in 0 .. n : \A path \in DOMAIN given.tree :
        text[d][path] = IF d = 0 THEN Failure
                        ELSE FlattenSeq(Pieces(TreeOf(given), given.overlay, path, text[d - 1]))
  BY <1>1, <1>2, TextsAre DEF TextsOf, n
<1> HIDE DEF text
<1>4. T = {}
  <2> SUFFICES ASSUME T # {}  PROVE FALSE
    OBVIOUS
  <2>1. PICK d \in T : \A e \in T : d <= e
    <3>1. T \in SUBSET Nat
      BY <1>1
    <3> HIDE DEF T
    <3> QED  BY <3>1, LeastNatural
  <2>2. d \in 0 .. n /\ d \in Nat
    BY <1>1
  <2>3. d # 0
    <3> SUFFICES ASSUME d = 0  PROVE Good(d)
      OBVIOUS
    <3> QED  BY <1>3, <2>2, FailureTyped
  <2>4. d - 1 \in 0 .. n /\ ~(d <= d - 1)
    BY <1>1, <2>2, <2>3
  <2>5. Good(d - 1)
    <3> HIDE DEF Good
    <3> QED  BY <2>1, <2>4
  <2>6. ASSUME NEW path \in DOMAIN given.tree  PROVE text[d][path] \in Seq(AnyLine)
    <3> DEFINE p == Pieces(TreeOf(given), given.overlay, path, text[d - 1])
    <3>1. text[d][path] = FlattenSeq(p)
      BY <1>3, <2>2, <2>3
    <3>2. p \in Seq(Seq(AnyLine))
      BY <2>5, PiecesTyped
    <3> HIDE DEF p
    <3>3. Len(p) \in 0 .. Len(p)
      BY <3>2
    <3>4. FlattenSeq(p) \in Seq(AnyLine)
      BY <3>2, <3>3, FlattenIsJoin, JoinedTo
    <3> QED  BY <3>1, <3>4
  <2>7. Good(d)
    BY <2>6
  <2> HIDE DEF Good
  <2> QED  BY <2>1, <2>7
<1> QED  BY <1>1, <1>4 DEF n, text

(* A frame's part grows by what each line leads to, up to all of the file. *)
LEMMA PartsOfFile ==
  ASSUME NEW given \in Sources, NEW path \in DOMAIN given.tree, NEW k \in 1 .. DepthOf(given)
  PROVE  LET t == EditedOf(given, path)
         IN  /\ Len(t) \in Nat /\ Part(given, path, k, 0) = <<>>
             /\ \A i \in 1 .. Len(t) :
                  LET piece == Follow(TreeOf(given), given.overlay, path, t[i], Level(given, k))
                  IN  /\ piece \in Seq(AnyLine)
                      /\ Part(given, path, k, i) = Part(given, path, k, i - 1) \o piece
             /\ \A i \in 0 .. Len(t) : Part(given, path, k, i) \in Seq(AnyLine)
             /\ Part(given, path, k, Len(t)) = Level(given, k - 1)[path]
<1> DEFINE t == EditedOf(given, path)
           p == PiecesOf(given, path, k)
           n == DepthOf(given)
<1>1. n \in Nat \ {0} /\ n - k \in 0 .. n /\ n - (k - 1) \in 0 .. n /\ n - (k - 1) # 0
      /\ (n - (k - 1)) - 1 = n - k
  BY LevelsTyped
<1>2. \A q \in DOMAIN given.tree : Level(given, k)[q] \in Seq(AnyLine)
  BY <1>1, LevelsTyped DEF Level
<1>3. /\ p \in Seq(Seq(AnyLine)) /\ Len(p) = Len(t) /\ Len(t) \in Nat
      /\ \A i \in 1 .. Len(t) :
           p[i] = Follow(TreeOf(given), given.overlay, path, t[i], Level(given, k))
  BY <1>2, PiecesTyped DEF PiecesOf
<1>4. Level(given, k - 1)[path] = FlattenSeq(p)
  <2>1. path \in DOMAIN TreeOf(given)
    BY DEF TreeOf
  <2> HIDE DEF n
  <2>2. TextsOf(given)[n - (k - 1)][path]
          = FlattenSeq(Pieces(TreeOf(given), given.overlay, path, TextsOf(given)[n - k]))
    BY <1>1, <2>1, TextsAre DEF TextsOf, n
  <2> QED  BY <2>2 DEF Level, PiecesOf, n
<1> HIDE DEF p, t, n
<1>5. /\ Join(p)[0] = <<>>
      /\ \A i \in 1 .. Len(p) : Join(p)[i] = Join(p)[i - 1] \o p[i]
      /\ \A i \in 0 .. Len(p) : Join(p)[i] \in Seq(AnyLine)
  BY <1>3, JoinedTo
<1>6. FlattenSeq(p) = Join(p)[Len(p)]
  BY <1>3, FlattenIsJoin
<1>7. \A i \in 1 .. Len(p) : p[i] \in Seq(AnyLine)
  BY <1>3
<1>8. \A i : Part(given, path, k, i) = Join(p)[i]
  BY DEF Part, p
<1> QED  BY <1>3, <1>4, <1>5, <1>6, <1>7, <1>8 DEF t
-----------------------------------------------------------------------------
(* The files being expanded.  Each but the last stands behind an include   *)
(* that leads to the next; what the program has so far is what they have   *)
(* read, each from where it started.                                       *)
Leads(given, path, line, to) ==
  /\ line.kind = "include" /\ SafePath(resolve_include(given.overlay, line.path))
  /\ Included(given.overlay, path, line) = to
Nested(given, files) ==
  /\ Len(files) > 0 /\ files[1].path = given.entry
  /\ \A k \in 1 .. Len(files) :
       /\ files[k].path \in DOMAIN given.tree
       /\ files[k].line \in 1 .. Len(EditedOf(given, files[k].path)) + 1
  /\ \A k, l \in 1 .. Len(files) : files[k].path = files[l].path => k = l
  /\ \A k \in 1 .. Len(files) - 1 :
       /\ files[k].line > 1
       /\ Leads(given, files[k].path, EditedOf(given, files[k].path)[files[k].line - 1],
                files[k + 1].path)
Reading(given, files, start, text) ==
  /\ start \in [1 .. Len(files) -> Seq(AnyLine)] /\ start[1] = <<>>
  /\ \A k \in 1 .. Len(files) - 1 :
       start[k + 1] = start[k] \o Part(given, files[k].path, k, files[k].line - 2)
  /\ text = start[Len(files)]
              \o Part(given, files[Len(files)].path, Len(files), files[Len(files)].line - 1)

LEMMA NestedFiles ==
  ASSUME NEW given, NEW files, NEW n, Len(files) = n, n > 0, files[1].path = given.entry,
         \A k \in 1 .. n :
           /\ files[k].path \in DOMAIN given.tree
           /\ files[k].line \in 1 .. Len(EditedOf(given, files[k].path)) + 1,
         \A k, l \in 1 .. n : files[k].path = files[l].path => k = l,
         \A k \in 1 .. n - 1 :
           /\ files[k].line > 1
           /\ Leads(given, files[k].path, EditedOf(given, files[k].path)[files[k].line - 1],
                    files[k + 1].path)
  PROVE  Nested(given, files)
BY DEF Nested

LEMMA OneOfNested ==
  ASSUME NEW given, NEW files, Nested(given, files), NEW k \in 1 .. Len(files)
  PROVE  /\ files[k].path \in DOMAIN given.tree
         /\ files[k].line \in 1 .. Len(EditedOf(given, files[k].path)) + 1
         /\ k \in 1 .. Len(files) - 1 =>
              /\ files[k].line > 1
              /\ Leads(given, files[k].path, EditedOf(given, files[k].path)[files[k].line - 1],
                       files[k + 1].path)
BY DEF Nested

LEMMA FirstOfNested ==
  ASSUME NEW given, NEW files, Nested(given, files)
  PROVE  /\ Len(files) > 0 /\ files[1].path = given.entry
         /\ \A k, l \in 1 .. Len(files) : files[k].path = files[l].path => k = l
BY DEF Nested

LEMMA JoinedInOrder ==
  ASSUME NEW a \in Seq(AnyLine), NEW b \in Seq(AnyLine), NEW c \in Seq(AnyLine)
  PROVE  (a \o b) \o c = a \o (b \o c)
BY ConcatAssociative

(* No more files are open than there are.                                  *)
LEMMA OpenFiles ==
  ASSUME NEW given \in Sources, NEW S, NEW files \in Seq(S), Nested(given, files)
  PROVE  Len(files) \in Nat \ {0} /\ Len(files) < DepthOf(given)
<1> DEFINE n == Len(files)
           f == [k \in 1 .. n |-> files[k].path]
           T == DOMAIN given.tree
<1>1. n \in Nat \ {0}
  BY DEF Nested
<1>2. f \in [1 .. n -> T] /\ \A k, l \in 1 .. n : f[k] = f[l] => k = l
  BY DEF Nested
<1>3. f \in Injection(1 .. n, T)
  <2> HIDE DEF f, T, n
  <2>1. DOMAIN f = 1 .. n
    BY <1>2
  <2> QED  BY <1>2, <2>1 DEF Injection, IsInjective
<1>4. IsFiniteSet(T)
  BY SourceTyped
<1> HIDE DEF f, T, n
<1>5. Cardinality(T) \in Nat /\ Cardinality(1 .. n) <= Cardinality(T)
  BY <1>3, <1>4, FS_Injection, FS_CardinalityType
<1>6. Cardinality(1 .. n) = n
  BY <1>1, FS_Interval
<1>7. n < Cardinality(T) + 1
  BY <1>1, <1>5, <1>6
<1> QED  BY <1>1, <1>7 DEF n, T, DepthOf

(* A file begins.                                                          *)
LEMMA ReadingBegins ==
  ASSUME NEW given \in Sources, given.entry \in DOMAIN given.tree,
         NEW S, NEW files \in Seq(S), Len(files) = 1,
         files[1].path = given.entry, files[1].line = 1
  PROVE  Nested(given, files) /\ \E start : Reading(given, files, start, <<>>)
<1> DEFINE start == [k \in 1 .. 1 |-> <<>>]
           path == given.entry
<1>1. DepthOf(given) \in Nat \ {0} /\ 1 \in 1 .. DepthOf(given)
  BY LevelsTyped
<1>2. Len(EditedOf(given, path)) \in Nat /\ Part(given, path, 1, 0) = <<>>
  BY <1>1, PartsOfFile
<1>3. Nested(given, files)
  BY <1>2 DEF Nested
<1>4. <<>> \in Seq(AnyLine)
  OBVIOUS
<1>5. start \in [1 .. 1 -> Seq(AnyLine)] /\ start[1] = <<>>
  BY <1>4
<1> HIDE DEF start
<1>6. <<>> = start[1] \o Part(given, path, 1, 0)
  BY <1>2, <1>4, <1>5, ConcatEmptySeq
<1>7. 1 - 1 = 0 /\ 1 .. 0 = {}
  OBVIOUS
<1>8. Reading(given, files, start, <<>>)
  BY <1>5, <1>6, <1>7 DEF Reading
<1> QED  BY <1>3, <1>8

(* A file is entered: what was read stays what it was.                     *)
LEMMA ReadingEnters ==
  ASSUME NEW given \in Sources, NEW S, NEW files \in Seq(S), NEW later \in Seq(S),
         Nested(given, files), NEW start, NEW text, Reading(given, files, start, text),
         Len(later) = Len(files) + 1,
         \A k \in 1 .. Len(files) - 1 : later[k] = files[k],
         later[Len(files)].path = files[Len(files)].path,
         later[Len(files)].line = files[Len(files)].line + 1,
         later[Len(files) + 1].line = 1, later[Len(files) + 1].path \in DOMAIN given.tree,
         \A k \in 1 .. Len(files) : files[k].path # later[Len(files) + 1].path,
         files[Len(files)].line <= Len(EditedOf(given, files[Len(files)].path)),
         Leads(given, files[Len(files)].path,
               EditedOf(given, files[Len(files)].path)[files[Len(files)].line],
               later[Len(files) + 1].path)
  PROVE  Nested(given, later) /\ \E begins : Reading(given, later, begins, text)
<1> DEFINE n == Len(files)
           path == later[n + 1].path
           from == files[n].path
           begins == [k \in 1 .. n + 1 |-> IF k = n + 1 THEN text ELSE start[k]]
<1>1. n \in Nat \ {0} /\ n < DepthOf(given) /\ DepthOf(given) \in Nat
  BY OpenFiles, LevelsTyped
<1>2. /\ \A k \in 1 .. n : later[k].path = files[k].path
      /\ \A k \in 1 .. n - 1 : later[k].line = files[k].line
  <2>1. \A k \in 1 .. n : k = n \/ k \in 1 .. n - 1
    BY <1>1
  <2> HIDE DEF n
  <2> QED  BY <2>1 DEF n
<1>3. Len(EditedOf(given, path)) \in Nat /\ Part(given, path, n + 1, 0) = <<>>
  <2>1. n + 1 \in 1 .. DepthOf(given)
    BY <1>1
  <2> QED  BY <2>1, PartsOfFile
<1>4. files[n].line \in Nat /\ files[n].line >= 1 /\ from \in DOMAIN given.tree
      /\ Len(EditedOf(given, from)) \in Nat
  <2>1. from \in DOMAIN given.tree /\ files[n].line \in 1 .. Len(EditedOf(given, from)) + 1
    <3>1. n \in 1 .. n
      BY <1>1
    <3> QED  BY <3>1, OneOfNested
  <2>2. n \in 1 .. DepthOf(given)
    BY <1>1
  <2>3. Len(EditedOf(given, from)) \in Nat
    BY <2>1, <2>2, PartsOfFile
  <2> QED  BY <2>1, <2>3
<1>5. Nested(given, later)
  <2>1. Len(later) > 0 /\ later[1].path = given.entry
    <3>1. 1 \in 1 .. n /\ Len(later) > 0
      BY <1>1
    <3> QED  BY <1>2, <3>1, FirstOfNested
  <2>2. ASSUME NEW k \in 1 .. n + 1
        PROVE  /\ later[k].path \in DOMAIN given.tree
               /\ later[k].line \in 1 .. Len(EditedOf(given, later[k].path)) + 1
    <3>1. CASE k = n + 1
      BY <1>3, <3>1
    <3>2. CASE k = n
      BY <1>4, <3>2
    <3>3. CASE k \in 1 .. n - 1
      <4>1. k \in 1 .. n /\ later[k] = files[k]
        BY <1>1, <3>3
      <4> QED  BY <4>1, OneOfNested
    <3> QED  BY <1>1, <3>1, <3>2, <3>3
  <2>3. ASSUME NEW k \in 1 .. n + 1, NEW l \in 1 .. n + 1, later[k].path = later[l].path
        PROVE  k = l
    <3>1. \A i \in 1 .. n, j \in 1 .. n : files[i].path = files[j].path => i = j
      BY FirstOfNested
    <3>2. k \in 1 .. n \/ k = n + 1
      BY <1>1
    <3>3. l \in 1 .. n \/ l = n + 1
      BY <1>1
    <3> QED  BY <1>2, <2>3, <3>1, <3>2, <3>3
  <2>4. ASSUME NEW k \in 1 .. n
        PROVE  /\ later[k].line > 1
               /\ Leads(given, later[k].path,
                        EditedOf(given, later[k].path)[later[k].line - 1], later[k + 1].path)
    <3>1. CASE k = n
      <4>1. later[n].line > 1 /\ later[n].line - 1 = files[n].line
        BY <1>4
      <4> QED  BY <3>1, <4>1
    <3>2. CASE k # n
      <4>1. k \in 1 .. n - 1 /\ k + 1 \in 1 .. n
        BY <1>1, <3>2
      <4>2. later[k] = files[k] /\ later[k + 1].path = files[k + 1].path
        BY <1>2, <4>1
      <4>3. /\ files[k].line > 1
            /\ Leads(given, files[k].path, EditedOf(given, files[k].path)[files[k].line - 1],
                     files[k + 1].path)
        BY <4>1, OneOfNested
      <4> QED  BY <4>2, <4>3
    <3> QED  BY <3>1, <3>2
  <2>5. Len(later) - 1 = n
    BY <1>1
  <2>6. Len(later) = n + 1 /\ n + 1 > 0 /\ (n + 1) - 1 = n
    BY <1>1
  <2> HIDE DEF n
  <2> QED  BY <2>1, <2>2, <2>3, <2>4, <2>6, NestedFiles
<1>6. /\ start \in [1 .. n -> Seq(AnyLine)] /\ start[1] = <<>>
      /\ \A k \in 1 .. n - 1 :
           start[k + 1] = start[k] \o Part(given, files[k].path, k, files[k].line - 2)
      /\ text = start[n] \o Part(given, from, n, files[n].line - 1)
  BY DEF Reading
<1>7. text \in Seq(AnyLine)
  <2>1. n \in 1 .. DepthOf(given) /\ n \in 1 .. n
        /\ files[n].line - 1 \in 0 .. Len(EditedOf(given, from))
    BY <1>1, <1>4
  <2>2. Part(given, from, n, files[n].line - 1) \in Seq(AnyLine)
    BY <1>4, <2>1, PartsOfFile
  <2>3. start[n] \in Seq(AnyLine)
    BY <1>6, <2>1
  <2> QED  BY <1>6, <2>2, <2>3, ConcatProperties
<1>8. begins \in [1 .. n + 1 -> Seq(AnyLine)] /\ begins[1] = <<>> /\ begins[n + 1] = text
      /\ \A k \in 1 .. n : begins[k] = start[k]
  <2>1. /\ 1 \in 1 .. n + 1 /\ 1 # n + 1 /\ n + 1 \in 1 .. n + 1
        /\ \A k \in 1 .. n + 1 : k # n + 1 => k \in 1 .. n
        /\ \A k \in 1 .. n : k \in 1 .. n + 1 /\ k # n + 1
    BY <1>1
  <2>2. \A k \in 1 .. n + 1 : begins[k] = IF k = n + 1 THEN text ELSE start[k]
    OBVIOUS
  <2>3. \A k \in 1 .. n + 1 : begins[k] \in Seq(AnyLine)
    BY <1>6, <1>7, <2>1, <2>2
  <2>4. begins = [k \in 1 .. n + 1 |-> begins[k]]
    OBVIOUS
  <2> HIDE DEF begins
  <2>5. begins \in [1 .. n + 1 -> Seq(AnyLine)]
    BY <2>3, <2>4
  <2> QED  BY <1>6, <2>1, <2>2, <2>5
<1> HIDE DEF begins
<1>9. ASSUME NEW k \in 1 .. n
      PROVE  begins[k + 1] = begins[k] \o Part(given, later[k].path, k, later[k].line - 2)
  <2>1. CASE k = n
    <3>1. later[n].line - 2 = files[n].line - 1
      BY <1>4
    <3> QED  BY <1>6, <1>8, <2>1, <3>1
  <2>2. CASE k # n
    <3>1. k \in 1 .. n - 1 /\ k + 1 \in 1 .. n
      BY <1>1, <2>2
    <3> QED  BY <1>6, <1>8, <3>1
  <2> QED  BY <2>1, <2>2
<1>10. text = begins[n + 1] \o Part(given, path, n + 1, 0)
  BY <1>3, <1>7, <1>8, ConcatEmptySeq
<1>11. Len(later) - 1 = n /\ later[n + 1].line - 1 = 0
  BY <1>1
<1>12. Reading(given, later, begins, text)
  BY <1>8, <1>9, <1>10, <1>11 DEF Reading
<1> QED  BY <1>5, <1>12

(* A statement is read.                                                    *)
LEMMA ReadingAdvances ==
  ASSUME NEW given \in Sources, NEW S, NEW files \in Seq(S), NEW later \in Seq(S),
         Nested(given, files), NEW start, NEW text, Reading(given, files, start, text),
         Len(later) = Len(files), \A k \in 1 .. Len(files) - 1 : later[k] = files[k],
         later[Len(files)].path = files[Len(files)].path,
         later[Len(files)].line = files[Len(files)].line + 1,
         files[Len(files)].line <= Len(EditedOf(given, files[Len(files)].path)),
         NEW line, line = EditedOf(given, files[Len(files)].path)[files[Len(files)].line],
         line.kind # "include"
  PROVE  /\ Nested(given, later) /\ text \in Seq(AnyLine) /\ line \in AnyLine
         /\ Reading(given, later, start, text \o <<line>>)
<1> DEFINE n == Len(files)
           from == files[n].path
           at == files[n].line
<1>1. n \in Nat \ {0} /\ n < DepthOf(given) /\ n \in 1 .. DepthOf(given) /\ n \in 1 .. n
  BY OpenFiles, LevelsTyped
<1>2. from \in DOMAIN given.tree /\ at \in 1 .. Len(EditedOf(given, from)) + 1
  BY <1>1, OneOfNested
<1>3. Len(EditedOf(given, from)) \in Nat
  BY <1>1, <1>2, PartsOfFile
<1>4. /\ at \in 1 .. Len(EditedOf(given, from)) /\ at - 1 \in 0 .. Len(EditedOf(given, from))
      /\ later[n].line \in 1 .. Len(EditedOf(given, from)) + 1 /\ later[n].line - 1 = at
  BY <1>2, <1>3
<1>5. \A k \in 1 .. n : later[k].path = files[k].path
  BY <1>1
<1>6. Nested(given, later)
  <2>1. \A k \in 1 .. n : /\ later[k].path \in DOMAIN given.tree
                          /\ later[k].line \in 1 .. Len(EditedOf(given, later[k].path)) + 1
    <3> TAKE k \in 1 .. n
    <3>1. CASE k = n
      BY <1>2, <1>4, <3>1
    <3>2. CASE k # n
      <4>1. later[k] = files[k]
        BY <1>1, <3>2
      <4> QED  BY <4>1, OneOfNested
    <3> QED  BY <3>1, <3>2
  <2>2. \A k, l \in 1 .. n : later[k].path = later[l].path => k = l
    BY <1>5, FirstOfNested
  <2>3. \A k \in 1 .. n - 1 :
          /\ later[k].line > 1
          /\ Leads(given, later[k].path, EditedOf(given, later[k].path)[later[k].line - 1],
                   later[k + 1].path)
    <3> TAKE k \in 1 .. n - 1
    <3>1. k + 1 \in 1 .. n
      BY <1>1
    <3>2. later[k] = files[k] /\ later[k + 1].path = files[k + 1].path
      BY <1>5, <3>1
    <3>3. /\ files[k].line > 1
          /\ Leads(given, files[k].path, EditedOf(given, files[k].path)[files[k].line - 1],
                   files[k + 1].path)
      <4>1. k \in 1 .. n
        BY <1>1
      <4> QED  BY <4>1, OneOfNested
    <3> QED  BY <3>2, <3>3
  <2>4. later[1].path = given.entry
    <3>1. 1 \in 1 .. n
      BY <1>1
    <3> QED  BY <1>5, <3>1, FirstOfNested
  <2>5. Len(later) = n /\ n > 0
    BY <1>1
  <2> HIDE DEF n
  <2> QED  BY <2>1, <2>2, <2>3, <2>4, <2>5, NestedFiles
<1>7. /\ start \in [1 .. n -> Seq(AnyLine)] /\ start[1] = <<>>
      /\ \A k \in 1 .. n - 1 :
           start[k + 1] = start[k] \o Part(given, files[k].path, k, files[k].line - 2)
      /\ text = start[n] \o Part(given, from, n, at - 1)
  BY DEF Reading
<1>8. line \in AnyLine /\ <<line>> \in Seq(AnyLine)
  <2>1. EditedOf(given, from) \in Seq(AnyLine)
    BY <1>2, EditedIsText
  <2> QED  BY <1>4, <2>1
<1>9. /\ Part(given, from, n, at - 1) \in Seq(AnyLine)
      /\ Part(given, from, n, at) = Part(given, from, n, at - 1) \o <<line>>
  <2>1. Follow(TreeOf(given), given.overlay, from, EditedOf(given, from)[at], Level(given, n))
          = <<line>>
    BY DEF Follow
  <2> HIDE DEF from, at
  <2>2. /\ \A i \in 1 .. Len(EditedOf(given, from)) :
             Part(given, from, n, i)
               = Part(given, from, n, i - 1)
                   \o Follow(TreeOf(given), given.overlay, from, EditedOf(given, from)[i],
                             Level(given, n))
        /\ \A i \in 0 .. Len(EditedOf(given, from)) : Part(given, from, n, i) \in Seq(AnyLine)
    BY <1>1, <1>2, PartsOfFile
  <2> QED  BY <1>4, <2>1, <2>2
<1>10. text \in Seq(AnyLine) /\ text \o <<line>> = start[n] \o Part(given, from, n, at)
  <2> DEFINE b == Part(given, from, n, at - 1)
             x == <<line>>
  <2>1. start[n] \in Seq(AnyLine) /\ b \in Seq(AnyLine) /\ x \in Seq(AnyLine)
    BY <1>1, <1>7, <1>8, <1>9
  <2>2. text = start[n] \o b /\ Part(given, from, n, at) = b \o x
    BY <1>7, <1>9
  <2> HIDE DEF b, x
  <2>3. text \in Seq(AnyLine)
    BY <2>1, <2>2, ConcatProperties
  <2>4. (start[n] \o b) \o x = start[n] \o (b \o x)
    BY <2>1, JoinedInOrder
  <2>5. text \o x = start[n] \o Part(given, from, n, at)
    BY <2>2, <2>4
  <2> QED  BY <2>3, <2>5 DEF x
<1>11. Reading(given, later, start, text \o <<line>>)
  <2>1. \A k \in 1 .. n - 1 :
          start[k + 1] = start[k] \o Part(given, later[k].path, k, later[k].line - 2)
    BY <1>7
  <2>2. text \o <<line>> = start[n] \o Part(given, later[n].path, n, later[n].line - 1)
    BY <1>4, <1>10
  <2> QED  BY <1>7, <2>1, <2>2 DEF Reading
<1> QED  BY <1>6, <1>8, <1>10, <1>11

(* The last file is at its end: all of it stands where it was included.    *)
LEMMA FileIsRead ==
  ASSUME NEW given \in Sources, NEW S, NEW files \in Seq(S),
         Nested(given, files), NEW start, NEW text, Reading(given, files, start, text),
         files[Len(files)].line > Len(EditedOf(given, files[Len(files)].path))
  PROVE  /\ Len(files) \in Nat \ {0} /\ start[Len(files)] \in Seq(AnyLine)
         /\ Level(given, Len(files) - 1)[files[Len(files)].path] \in Seq(AnyLine)
         /\ text = start[Len(files)] \o Level(given, Len(files) - 1)[files[Len(files)].path]
<1> DEFINE n == Len(files)
           from == files[n].path
<1>1. n \in Nat \ {0} /\ n \in 1 .. DepthOf(given) /\ n \in 1 .. n
  BY OpenFiles, LevelsTyped
<1>2. from \in DOMAIN given.tree /\ files[n].line \in 1 .. Len(EditedOf(given, from)) + 1
  BY <1>1, OneOfNested
<1>3. /\ Len(EditedOf(given, from)) \in Nat
      /\ Part(given, from, n, Len(EditedOf(given, from))) = Level(given, n - 1)[from]
      /\ \A i \in 0 .. Len(EditedOf(given, from)) : Part(given, from, n, i) \in Seq(AnyLine)
  BY <1>1, <1>2, PartsOfFile
<1>4. files[n].line - 1 = Len(EditedOf(given, from))
      /\ Len(EditedOf(given, from)) \in 0 .. Len(EditedOf(given, from))
  BY <1>2, <1>3
<1>5. start \in [1 .. n -> Seq(AnyLine)] /\ text = start[n] \o Part(given, from, n, files[n].line - 1)
  BY DEF Reading
<1>6. start[n] \in Seq(AnyLine)
  BY <1>1, <1>5
<1> QED  BY <1>1, <1>3, <1>4, <1>5, <1>6

LEMMA ReadingLeaves ==
  ASSUME NEW given \in Sources, NEW S, NEW files \in Seq(S), NEW later \in Seq(S),
         Nested(given, files), NEW start, NEW text, Reading(given, files, start, text),
         Len(files) # 1, Len(later) = Len(files) - 1,
         \A k \in 1 .. Len(files) - 1 : later[k] = files[k],
         files[Len(files)].line > Len(EditedOf(given, files[Len(files)].path))
  PROVE  Nested(given, later) /\ \E begins : Reading(given, later, begins, text)
<1> DEFINE n == Len(files)
           path == files[n].path
           m == n - 1
           from == files[m].path
           at == files[m].line - 1
           begins == [k \in 1 .. m |-> start[k]]
<1>1. /\ n \in Nat \ {0} /\ start[n] \in Seq(AnyLine) /\ Level(given, m)[path] \in Seq(AnyLine)
      /\ text = start[n] \o Level(given, m)[path]
  BY FileIsRead
<1>2. m \in Nat \ {0} /\ m \in 1 .. DepthOf(given) /\ m \in 1 .. m /\ m \in 1 .. n - 1
      /\ m + 1 = n /\ m \in 1 .. n /\ 1 \in 1 .. m
  <2>1. n < DepthOf(given) /\ DepthOf(given) \in Nat /\ n # 1
    BY OpenFiles, LevelsTyped
  <2>2. n \in Nat \ {0}
    BY <1>1
  <2> HIDE DEF n
  <2> QED  BY <2>1, <2>2
<1>3. Nested(given, later)
  <2>1. \A k \in 1 .. m : k \in 1 .. n /\ k \in 1 .. n - 1 /\ later[k] = files[k]
    BY <1>2
  <2>2. \A k \in 1 .. m - 1 : k \in 1 .. m /\ k + 1 \in 1 .. m
    BY <1>2
  <2>3. Len(later) = m /\ m > 0 /\ later[1].path = given.entry
    <3>1. 1 \in 1 .. m /\ Len(later) = m /\ m > 0
      BY <1>2
    <3> QED  BY <2>1, <3>1, FirstOfNested
  <2>4. \A k \in 1 .. m : /\ later[k].path \in DOMAIN given.tree
                          /\ later[k].line \in 1 .. Len(EditedOf(given, later[k].path)) + 1
    BY <2>1, OneOfNested
  <2>5. \A k, l \in 1 .. m : later[k].path = later[l].path => k = l
    BY <2>1, FirstOfNested
  <2>6. \A k \in 1 .. m - 1 :
          /\ later[k].line > 1
          /\ Leads(given, later[k].path, EditedOf(given, later[k].path)[later[k].line - 1],
                   later[k + 1].path)
    <3> TAKE k \in 1 .. m - 1
    <3>1. k \in 1 .. m /\ k + 1 \in 1 .. m /\ k \in 1 .. n - 1
      BY <2>1, <2>2
    <3>2. /\ files[k].line > 1
          /\ Leads(given, files[k].path, EditedOf(given, files[k].path)[files[k].line - 1],
                   files[k + 1].path)
      BY <2>1, <3>1, OneOfNested
    <3>3. later[k] = files[k] /\ later[k + 1] = files[k + 1]
      BY <2>1, <3>1
    <3> HIDE DEF m
    <3> QED  BY <3>2, <3>3
  <2> HIDE DEF m
  <2> QED  BY <2>3, <2>4, <2>5, <2>6, NestedFiles
<1>4. /\ from \in DOMAIN given.tree /\ files[m].line \in 1 .. Len(EditedOf(given, from)) + 1
      /\ files[m].line > 1 /\ Leads(given, from, EditedOf(given, from)[at], path)
      /\ path \in DOMAIN given.tree
  <2>1. n \in 1 .. n
    BY <1>1
  <2>2. /\ from \in DOMAIN given.tree
        /\ files[m].line \in 1 .. Len(EditedOf(given, from)) + 1 /\ files[m].line > 1
        /\ Leads(given, from, EditedOf(given, from)[at], files[m + 1].path)
    <3> HIDE DEF m
    <3> QED  BY <1>2, OneOfNested DEF m
  <2>3. path \in DOMAIN given.tree
    BY <2>1, OneOfNested
  <2> QED  BY <1>2, <2>2, <2>3
<1>5. Len(EditedOf(given, from)) \in Nat
  BY <1>2, <1>4, PartsOfFile
<1>6. /\ at \in 1 .. Len(EditedOf(given, from)) /\ at - 1 \in 0 .. Len(EditedOf(given, from))
      /\ files[m].line - 2 = at - 1
  <2> DEFINE line == files[m].line
             length == Len(EditedOf(given, from))
  <2>1. line \in 1 .. length + 1 /\ line > 1 /\ length \in Nat
    BY <1>4, <1>5
  <2> HIDE DEF line, length
  <2>2. line - 1 \in 1 .. length /\ (line - 1) - 1 \in 0 .. length /\ line - 2 = (line - 1) - 1
    BY <2>1
  <2> QED  BY <2>2, Zenon DEF line, length
<1>7. /\ start \in [1 .. n -> Seq(AnyLine)] /\ start[1] = <<>>
      /\ \A k \in 1 .. n - 1 :
           start[k + 1] = start[k] \o Part(given, files[k].path, k, files[k].line - 2)
  BY DEF Reading
<1>8. start[n] = start[m] \o Part(given, from, m, at - 1)
  BY <1>2, <1>6, <1>7
<1>9. /\ Part(given, from, m, at - 1) \in Seq(AnyLine)
      /\ Part(given, from, m, at) = Part(given, from, m, at - 1) \o Level(given, m)[path]
  <2>1. Follow(TreeOf(given), given.overlay, from, EditedOf(given, from)[at], Level(given, m))
          = Level(given, m)[path]
    BY <1>4 DEF Leads, Follow, TreeOf
  <2> HIDE DEF from, at
  <2>2. /\ \A i \in 1 .. Len(EditedOf(given, from)) :
             Part(given, from, m, i)
               = Part(given, from, m, i - 1)
                   \o Follow(TreeOf(given), given.overlay, from, EditedOf(given, from)[i],
                             Level(given, m))
        /\ \A i \in 0 .. Len(EditedOf(given, from)) : Part(given, from, m, i) \in Seq(AnyLine)
    <3> HIDE DEF m
    <3> QED  BY <1>2, <1>4, PartsOfFile
  <2> QED  BY <1>6, <2>1, <2>2
<1>10. text = start[m] \o Part(given, from, m, at)
  <2> DEFINE b == Part(given, from, m, at - 1)
             x == Level(given, m)[path]
  <2>1. start[m] \in Seq(AnyLine) /\ b \in Seq(AnyLine) /\ x \in Seq(AnyLine)
    <3>1. start[m] \in Seq(AnyLine)
      <4> HIDE DEF m, n
      <4> QED  BY <1>2, <1>7
    <3> QED  BY <1>1, <1>9, <3>1
  <2>2. text = (start[m] \o b) \o x /\ Part(given, from, m, at) = b \o x
    BY <1>1, <1>8, <1>9, Zenon
  <2> HIDE DEF b, x
  <2>3. (start[m] \o b) \o x = start[m] \o (b \o x)
    BY <2>1, JoinedInOrder
  <2> QED  BY <2>2, <2>3
<1>11. begins \in [1 .. m -> Seq(AnyLine)] /\ \A k \in 1 .. m : begins[k] = start[k]
  BY <1>2, <1>7
<1> HIDE DEF begins
<1>12. Reading(given, later, begins, text)
  <2>1. \A k \in 1 .. m - 1 :
          begins[k + 1] = begins[k] \o Part(given, later[k].path, k, later[k].line - 2)
    <3> TAKE k \in 1 .. m - 1
    <3>1. k \in 1 .. m /\ k + 1 \in 1 .. m /\ k \in 1 .. n - 1
      BY <1>2
    <3> QED  BY <1>7, <1>11, <3>1
  <2>2. text = begins[m] \o Part(given, later[m].path, m, later[m].line - 1)
    BY <1>2, <1>10, <1>11
  <2>3. begins[1] = <<>>
    BY <1>2, <1>7, <1>11
  <2> QED  BY <1>11, <2>1, <2>2, <2>3 DEF Reading
<1> QED  BY <1>3, <1>12

LEMMA ReadingEnds ==
  ASSUME NEW given \in Sources, NEW S, NEW files \in Seq(S),
         Nested(given, files), NEW start, NEW text, Reading(given, files, start, text),
         Len(files) = 1, files[1].line > Len(EditedOf(given, files[1].path))
  PROVE  text = Reads(TreeOf(given), given.overlay, given.entry, DepthOf(given))
<1> DEFINE n == DepthOf(given)
           whole == Level(given, 0)[given.entry]
<1>1. /\ start[1] \in Seq(AnyLine) /\ Level(given, 1 - 1)[files[1].path] \in Seq(AnyLine)
      /\ text = start[1] \o Level(given, 1 - 1)[files[1].path]
  BY FileIsRead
<1>2. 1 - 1 = 0 /\ files[1].path = given.entry /\ start[1] = <<>>
      /\ given.entry \in DOMAIN given.tree
  BY DEF Nested, Reading
<1>3. text = <<>> \o whole /\ whole \in Seq(AnyLine)
  BY <1>1, <1>2
<1> HIDE DEF whole
<1>4. text = whole
  BY <1>3, ConcatEmptySeq
<1>5. n \in Nat /\ n - 0 = n
  BY LevelsTyped
<1>6. given.entry \in DOMAIN TreeOf(given)
  BY <1>2 DEF TreeOf
<1>7. whole = Texts(TreeOf(given), given.overlay, n)[n][given.entry]
  BY <1>5 DEF whole, Level, TextsOf
<1> QED  BY <1>4, <1>6, <1>7, ReadsIsText
-----------------------------------------------------------------------------
(* The program that the records make so far is what the open files have    *)
(* read; behind the expansion it is the text of the entry.                 *)
Recorded == [i \in DOMAIN records |-> <<records[i].label, records[i].operation, records[i].operand>>]
Cached ==
  \A path \in DOMAIN cache : path \in DOMAIN source.tree /\ cache[path] = EditedOf(source, path)
ReadSoFar ==
  \E start, text : Reading(source, stack, start, text) /\ Recorded = Lowered(text)
Whole == Recorded = Lowered(Text(EditedTree, source.overlay))
ExpandInv ==
  /\ Cached
  /\ phase = "start" => records = <<>>
  /\ phase = "expand" => Nested(source, stack) /\ ReadSoFar
  /\ Expanded => Whole

LEMMA WholeIsRead ==
  Text(EditedTree, source.overlay)
    = Reads(TreeOf(source), source.overlay, source.entry, DepthOf(source))
BY DEF Text, EditedTree, TreeOf, Edited, EditedOf, Depth, DepthOf

LEMMA LastLeft ==
  ASSUME NEW S, NEW s \in Seq(S), s # <<>>
  PROVE  /\ Len(s) \in Nat \ {0} /\ Front(s) \in Seq(S) /\ Len(Front(s)) = Len(s) - 1
         /\ \A k \in 1 .. Len(s) - 1 : Front(s)[k] = s[k]
<1> DEFINE m == Len(s) - 1
<1>1. Len(s) \in Nat \ {0}
  OBVIOUS
<1>2. m \in 0 .. Len(s) /\ m \in Nat /\ \A k \in 1 .. m : k \in 1 .. Len(s)
  BY <1>1
<1>3. DOMAIN s = 1 .. Len(s) /\ \A k \in 1 .. Len(s) : s[k] \in S
  OBVIOUS
<1> HIDE DEF m
<1>4. Front(s) = [k \in 1 .. m |-> s[k]]
  BY <1>1, <1>2 DEF Front, m
<1>5. Front(s) \in Seq(S) /\ Len(Front(s)) = m /\ \A k \in 1 .. m : Front(s)[k] = s[k]
  BY <1>2, <1>3, <1>4
<1> QED  BY <1>1, <1>5 DEF m

LEMMA OneAppended ==
  ASSUME NEW S, NEW s \in Seq(S), NEW x
  PROVE  /\ Len(Append(s, x)) = Len(s) + 1 /\ Append(s, x)[Len(s) + 1] = x
         /\ \A k \in 1 .. Len(s) : Append(s, x)[k] = s[k]
OBVIOUS

LEMMA LastReplaced ==
  ASSUME NEW S, NEW s \in Seq(S), s # <<>>, NEW x
  PROVE  /\ Len(Append(Front(s), x)) = Len(s) /\ Append(Front(s), x)[Len(s)] = x
         /\ \A k \in 1 .. Len(s) - 1 : Append(Front(s), x)[k] = s[k]
<1> DEFINE f == Front(s)
           t == Append(f, x)
<1>1. /\ Len(s) \in Nat \ {0} /\ f \in Seq(S) /\ Len(f) = Len(s) - 1
      /\ \A k \in 1 .. Len(s) - 1 : f[k] = s[k]
  BY LastLeft
<1> HIDE DEF f
<1>2. Len(f) + 1 = Len(s)
  BY <1>1
<1>3. Len(t) = Len(s) /\ t[Len(s)] = x /\ \A k \in 1 .. Len(s) - 1 : t[k] = f[k]
  BY <1>1, <1>2, OneAppended
<1> QED  BY <1>1, <1>3 DEF f

LEMMA FileOnTop ==
  ASSUME TextInv, Cached, stack # <<>>
  PROVE  LET n == Len(stack)
             moved == [Top EXCEPT !.line = @ + 1]
         IN  /\ n \in Nat \ {0} /\ Top = stack[n] /\ stack \in Seq(Frames)
             /\ moved.path = stack[n].path /\ moved.line = stack[n].line + 1
             /\ moved \in Frames
             /\ cache[Top.path] = EditedOf(source, stack[n].path)
<1>1. stack \in Seq(Frames)
  BY DEF TextInv
<1>2. Len(stack) \in Nat \ {0}
  BY <1>1
<1>3. Top = stack[Len(stack)]
  BY DEF Top, Last
<1>4. Top \in Frames
  BY TopTyped
<1>5. [Top EXCEPT !.line = @ + 1] \in Frames /\ [Top EXCEPT !.line = @ + 1].path = Top.path
      /\ [Top EXCEPT !.line = @ + 1].line = Top.line + 1
  BY <1>4 DEF Frames
<1>6. cache[Top.path] = EditedOf(source, Top.path)
  BY <1>4 DEF Cached, Frames
<1> QED  BY <1>1, <1>2, <1>3, <1>5, <1>6

LEMMA EnteringCaches ==
  ASSUME Cached, source' = source, NEW path, Readable(path), NEW below, Enters(path, below)
  PROVE  Cached' /\ path \in DOMAIN source.tree
<1>1. path \in DOMAIN source.tree
  BY DEF Readable, Cached
<1>2. CASE path \in DOMAIN cache
  <2>1. cache' = cache
    BY <1>2 DEF Enters
  <2> QED  BY <1>1, <2>1 DEF Cached
<1>3. CASE path \notin DOMAIN cache
  <2>1. cache' = [p \in DOMAIN cache \cup {path} |-> IF p = path THEN Edited(path) ELSE cache[p]]
    BY <1>3 DEF Enters
  <2>2. Edited(path) = EditedOf(source, path)
    BY DEF Edited, EditedOf
  <2>3. \A p \in DOMAIN cache' :
          p \in DOMAIN source.tree /\ cache'[p] = EditedOf(source, p)
    BY <1>1, <2>1, <2>2 DEF Cached
  <2> QED  BY <1>1, <2>3 DEF Cached
<1> QED  BY <1>2, <1>3

(* The entry is opened.                                                    *)
LEMMA ProgramOpens ==
  ASSUME TextInv, TextInv', ExpandInv, route = "native", expand_program, phase' = "expand"
  PROVE  ExpandInv'
<1>1. /\ phase = "start" /\ source' = source /\ records' = records
      /\ Readable(source.entry) /\ Enters(source.entry, <<>>)
  BY DEF expand_program, fail
<1>2. Cached' /\ source.entry \in DOMAIN source.tree
  BY <1>1, EnteringCaches DEF ExpandInv
<1>3. records' = <<>> /\ source \in Sources
  BY <1>1 DEF ExpandInv, TextInv
<1>4. stack' = Append(<<>>, [path |-> source.entry, line |-> 1])
  BY <1>1 DEF Enters
<1>5. Len(stack') = 1 /\ stack'[1].path = source.entry /\ stack'[1].line = 1
  BY <1>4
<1>6. stack' \in Seq(Frames')
  BY DEF TextInv
<1>7. Nested(source, stack') /\ \E start : Reading(source, stack', start, <<>>)
  BY <1>2, <1>3, <1>5, <1>6, ReadingBegins
<1>8. Recorded' = Lowered(<<>>)
  <2>1. DOMAIN records' = {} /\ DOMAIN <<>> = {}
    BY <1>3
  <2> QED  BY <2>1 DEF Recorded, Lowered
<1>9. ReadSoFar'
  BY <1>1, <1>7, <1>8 DEF ReadSoFar
<1> QED  BY <1>1, <1>2, <1>7, <1>9 DEF ExpandInv, Expanded

(* An include opens the file it names.                                     *)
LEMMA IncludeOpens ==
  ASSUME TextInv, TextInv', ExpandInv, route = "native", expand_include, phase' = "expand"
  PROVE  ExpandInv'
<1> DEFINE n == Len(stack)
           moved == [Top EXCEPT !.line = @ + 1]
           include == resolve_include(source.overlay, TheLine.path)
           path == resolve_relative_include(Top.path, include)
<1>1. /\ phase = "expand" /\ stack # <<>> /\ Top.line <= Len(cache[Top.path])
      /\ TheLine.kind = "include" /\ SafePath(include) /\ ~Expanding(path) /\ Readable(path)
      /\ Enters(path, Below) /\ source' = source /\ records' = records
  BY DEF expand_include, AtLine, fail
<1>2. Nested(source, stack) /\ Cached /\ source \in Sources
  BY <1>1 DEF ExpandInv, TextInv
<1>3. PICK start, text : Reading(source, stack, start, text) /\ Recorded = Lowered(text)
  BY <1>1 DEF ExpandInv, ReadSoFar
<1>4. Cached' /\ path \in DOMAIN source.tree
  BY <1>1, <1>2, EnteringCaches
<1>5. /\ n \in Nat \ {0} /\ Top = stack[n] /\ stack \in Seq(Frames)
      /\ moved.path = stack[n].path /\ moved.line = stack[n].line + 1 /\ moved \in Frames
      /\ cache[Top.path] = EditedOf(source, stack[n].path)
  BY <1>1, <1>2, FileOnTop
<1>6. /\ Len(Below) = n /\ Below[n] = moved
      /\ \A k \in 1 .. n - 1 : Below[k] = stack[k]
      /\ Below \in Seq(Frames)
  <2>1. Below = Append(Front(stack), moved)
    BY DEF Below
  <2>2. Below \in Seq(Frames)
    BY <1>1, TopTyped DEF Below
  <2> HIDE DEF moved
  <2> QED  BY <1>1, <1>5, <2>1, <2>2, LastReplaced
<1> HIDE DEF moved
<1>7. stack' = Append(Below, [path |-> path, line |-> 1])
  BY <1>1 DEF Enters
<1> DEFINE later == Append(Below, [path |-> path, line |-> 1])
<1>8. /\ Len(later) = n + 1 /\ later[n + 1].path = path /\ later[n + 1].line = 1
      /\ \A k \in 1 .. n - 1 : later[k] = stack[k]
      /\ later[n].path = stack[n].path /\ later[n].line = stack[n].line + 1
  <2> HIDE DEF path
  <2>1. Len(later) = n + 1 /\ later[n + 1] = [path |-> path, line |-> 1]
        /\ \A k \in 1 .. n : later[k] = Below[k]
    BY <1>6, OneAppended
  <2>2. n \in 1 .. n /\ \A k \in 1 .. n - 1 : k \in 1 .. n
    BY <1>5
  <2> HIDE DEF later
  <2> QED  BY <1>5, <1>6, <2>1, <2>2
<1>9. \A k \in 1 .. n : stack[k].path # path
  <2>1. DOMAIN stack = 1 .. n
    BY <1>5
  <2> QED  BY <1>1, <2>1 DEF Expanding
<1>10. TheLine = EditedOf(source, stack[n].path)[stack[n].line]
       /\ stack[n].line <= Len(EditedOf(source, stack[n].path))
  BY <1>1, <1>5 DEF TheLine
<1>11. Leads(source, stack[n].path, EditedOf(source, stack[n].path)[stack[n].line], path)
  BY <1>1, <1>5, <1>10 DEF Leads, Included
<1>12. later \in Seq(Frames') /\ stack \in Seq(Frames')
  <2>1. Frames \subseteq Frames'
    <3>1. DOMAIN cache \subseteq DOMAIN cache'
      BY <1>1 DEF Enters
    <3> QED  BY <3>1 DEF Frames
  <2>2. later \in Seq(Frames')
    BY <1>7 DEF TextInv
  <2> HIDE DEF Frames
  <2> QED  BY <1>5, <2>1, <2>2, WiderSequence
<1> HIDE DEF later, path
<1>13. Nested(source, later) /\ \E begins : Reading(source, later, begins, text)
  BY <1>2, <1>3, <1>4, <1>8, <1>9, <1>10, <1>11, <1>12, ReadingEnters
<1>14. Recorded' = Recorded
  BY <1>1 DEF Recorded
<1>15. Nested(source, stack)' /\ ReadSoFar'
  <2>1. stack' = later
    BY <1>7 DEF later
  <2> QED  BY <1>1, <1>3, <1>13, <1>14, <2>1 DEF ReadSoFar
<1> QED  BY <1>1, <1>4, <1>15 DEF ExpandInv, Expanded

(* A statement is a record.                                                *)
LEMMA OneMore ==
  ASSUME records \in Seq(Records), NEW text \in Seq(AnyLine), Recorded = Lowered(text),
         NEW line, NEW r \in Records, r.label = line.label, r.operation = line.operation,
         r.operand = parse_operand(line.operand), records' = Append(records, r)
  PROVE  Recorded' = Lowered(text \o <<line>>)
<1> DEFINE longer == text \o <<line>>
           R(x) == <<x.label, x.operation, x.operand>>
           L(x) == <<x.label, x.operation, parse_operand(x.operand)>>
           n == Len(records)
<1>1. /\ Recorded = [i \in DOMAIN records |-> R(records[i])]
      /\ Recorded' = [i \in DOMAIN records' |-> R(records'[i])]
      /\ Lowered(text) = [i \in DOMAIN text |-> L(text[i])]
      /\ Lowered(longer) = [i \in DOMAIN longer |-> L(longer[i])]
  BY DEF Recorded, Lowered
<1>2. R(r) = L(line)
  OBVIOUS
<1> HIDE DEF R, L
<1>3. DOMAIN records = 1 .. n /\ n \in Nat /\ DOMAIN text = 1 .. Len(text) /\ Len(text) \in Nat
  OBVIOUS
<1>4. DOMAIN records = DOMAIN text /\ \A i \in 1 .. n : R(records[i]) = L(text[i])
  <2>1. DOMAIN [i \in DOMAIN records |-> R(records[i])] = DOMAIN [i \in DOMAIN text |-> L(text[i])]
    BY <1>1
  <2>2. DOMAIN records = DOMAIN text
    BY <2>1
  <2>3. \A i \in DOMAIN records :
          [j \in DOMAIN records |-> R(records[j])][i] = [j \in DOMAIN text |-> L(text[j])][i]
    BY <1>1
  <2> QED  BY <1>3, <2>2, <2>3
<1>5. Len(text) = n
  <2> DEFINE m == Len(text)
  <2>1. 1 .. n = 1 .. m /\ n \in Nat /\ m \in Nat
    BY <1>3, <1>4
  <2> HIDE DEF n, m
  <2>2. (n # 0 => n \in 1 .. n) /\ (m # 0 => m \in 1 .. m)
    BY <2>1
  <2>3. (n # 0 => n \in 1 .. m) /\ (m # 0 => m \in 1 .. n)
    BY <2>1, <2>2
  <2>4. (n # 0 => n <= m) /\ (m # 0 => m <= n)
    BY <2>1, <2>3
  <2>5. n = m
    BY <2>1, <2>4
  <2> QED  BY <2>5 DEF m
<1>6. /\ DOMAIN records' = 1 .. n + 1 /\ records'[n + 1] = r
      /\ \A i \in 1 .. n : records'[i] = records[i]
  BY <1>3
<1>7. /\ DOMAIN longer = 1 .. n + 1 /\ longer[n + 1] = line
      /\ \A i \in 1 .. n : longer[i] = text[i]
  BY <1>3, <1>5
<1> HIDE DEF longer, n
<1>8. \A i \in 1 .. n + 1 : R(records'[i]) = L(longer[i])
  <2> SUFFICES ASSUME NEW i \in 1 .. n + 1  PROVE R(records'[i]) = L(longer[i])
    OBVIOUS
  <2>1. i \in 1 .. n \/ i = n + 1
    BY <1>3 DEF n
  <2> QED  BY <1>2, <1>4, <1>6, <1>7, <2>1
<1>9. Recorded' = Lowered(longer)
  BY <1>1, <1>6, <1>7, <1>8
<1> QED  BY <1>9 DEF longer

LEMMA StatementReads ==
  ASSUME TextInv, RecordsInv, ExpandInv, route = "native", expand_statement
  PROVE  ExpandInv'
<1> DEFINE n == Len(stack)
           moved == [Top EXCEPT !.line = @ + 1]
           later == Append(Front(stack), moved)
           r == [label |-> TheLine.label, operation |-> TheLine.operation,
                 operand |-> parse_operand(TheLine.operand),
                 bank |-> NoBank, offset |-> 0, word |-> 0]
<1>1. /\ AtLine /\ phase = "expand" /\ stack # <<>> /\ Top.line <= Len(cache[Top.path])
      /\ TheLine.kind = "statement" /\ source' = source /\ cache' = cache /\ phase' = phase
      /\ stack' = later /\ records' = Append(records, r)
  BY DEF expand_statement, AtLine
<1>2. Nested(source, stack) /\ Cached /\ source \in Sources
  BY <1>1 DEF ExpandInv, TextInv
<1>3. PICK start, text : Reading(source, stack, start, text) /\ Recorded = Lowered(text)
  BY <1>1 DEF ExpandInv, ReadSoFar
<1>4. /\ n \in Nat \ {0} /\ Top = stack[n] /\ stack \in Seq(Frames)
      /\ moved.path = stack[n].path /\ moved.line = stack[n].line + 1 /\ moved \in Frames
      /\ cache[Top.path] = EditedOf(source, stack[n].path)
  BY <1>1, <1>2, FileOnTop
<1>5. TheLine \in Lines /\ later \in Seq(Frames)
  BY <1>1, LineTyped, TopTyped
<1>6. r \in Records
  BY <1>1, <1>5, ReadRecord
<1>7. /\ r.label = TheLine.label /\ r.operation = TheLine.operation
      /\ r.operand = parse_operand(TheLine.operand)
  OBVIOUS
<1> HIDE DEF moved, r
<1>8. /\ Len(later) = n /\ later[n] = moved /\ \A k \in 1 .. n - 1 : later[k] = stack[k]
  <2>1. stack \in Seq(Frames) /\ stack # <<>>
    BY <1>1, <1>4
  <2> HIDE DEF Frames
  <2> QED  BY <2>1, LastReplaced
<1>9. TheLine = EditedOf(source, stack[n].path)[stack[n].line]
      /\ stack[n].line <= Len(EditedOf(source, stack[n].path))
  BY <1>1, <1>4 DEF TheLine
<1>10. TheLine.kind # "include"
  BY <1>1
<1>11. /\ Nested(source, later) /\ text \in Seq(AnyLine)
       /\ Reading(source, later, start, text \o <<TheLine>>)
  <2> DEFINE line == TheLine
  <2>1. line = EditedOf(source, stack[n].path)[stack[n].line] /\ line.kind # "include"
    BY <1>9, <1>10
  <2>2. later[n].path = stack[n].path /\ later[n].line = stack[n].line + 1
    BY <1>4, <1>8
  <2> HIDE DEF line, later
  <2>3. /\ Nested(source, later) /\ text \in Seq(AnyLine)
        /\ Reading(source, later, start, text \o <<line>>)
    <3>1. Len(later) = n /\ \A k \in 1 .. n - 1 : later[k] = stack[k]
      BY <1>8
    <3>2. stack[n].line <= Len(EditedOf(source, stack[n].path))
      BY <1>9
    <3>3. stack \in Seq(Frames) /\ later \in Seq(Frames)
      BY <1>4, <1>5
    <3> QED  BY <1>2, <1>3, <2>1, <2>2, <3>1, <3>2, <3>3, ReadingAdvances
  <2> QED  BY <2>3 DEF line
<1>12. Recorded' = Lowered(text \o <<TheLine>>)
  BY <1>1, <1>3, <1>6, <1>7, <1>11, OneMore DEF RecordsInv
<1> HIDE DEF later
<1>13. Nested(source, stack)' /\ ReadSoFar'
  BY <1>1, <1>11, <1>12 DEF ReadSoFar
<1>14. Cached'
  BY <1>1, <1>2 DEF Cached
<1> QED  BY <1>1, <1>13, <1>14 DEF ExpandInv, Expanded

(* A file ends; with the last of them the text is complete.                *)
LEMMA FileEnds ==
  ASSUME TextInv, ExpandInv, route = "native", leave_file
  PROVE  ExpandInv'
<1> DEFINE n == Len(stack)
           later == Front(stack)
<1>1. /\ phase = "expand" /\ stack # <<>> /\ Top.line > Len(cache[Top.path])
      /\ stack' = later /\ source' = source /\ cache' = cache /\ records' = records
      /\ phase' = IF n = 1 THEN "assign" ELSE phase
  BY DEF leave_file
<1>2. Nested(source, stack) /\ Cached /\ source \in Sources
  BY <1>1 DEF ExpandInv, TextInv
<1>3. PICK start, text : Reading(source, stack, start, text) /\ Recorded = Lowered(text)
  BY <1>1 DEF ExpandInv, ReadSoFar
<1>4. /\ n \in Nat \ {0} /\ Top = stack[n] /\ stack \in Seq(Frames)
      /\ cache[Top.path] = EditedOf(source, stack[n].path)
  BY <1>1, <1>2, FileOnTop
<1>5. stack[n].line > Len(EditedOf(source, stack[n].path))
  BY <1>1, <1>4
<1>6. Cached' /\ Recorded' = Recorded
  BY <1>1, <1>2 DEF Cached, Recorded
<1>7. CASE n = 1
  <2>1. text = Reads(TreeOf(source), source.overlay, source.entry, DepthOf(source))
    BY <1>2, <1>3, <1>4, <1>5, <1>7, ReadingEnds
  <2>2. Recorded = Lowered(Text(EditedTree, source.overlay))
    BY <1>3, <2>1, WholeIsRead
  <2>3. Text(EditedTree, source.overlay)' = Text(EditedTree, source.overlay)
    BY <1>1 DEF Text, EditedTree, Edited, Depth
  <2>4. Whole'
    BY <1>1, <1>6, <2>2, <2>3 DEF Whole
  <2>5. phase' = "assign"
    BY <1>1, <1>7
  <2> QED  BY <1>6, <2>4, <2>5 DEF ExpandInv, Expanded
<1>8. CASE n # 1
  <2>1. later \in Seq(Frames) /\ Len(later) = n - 1 /\ \A k \in 1 .. n - 1 : later[k] = stack[k]
    BY <1>1, <1>4, LastLeft
  <2> HIDE DEF later
  <2>2. Nested(source, later) /\ \E begins : Reading(source, later, begins, text)
    BY <1>2, <1>3, <1>4, <1>5, <1>8, <2>1, ReadingLeaves
  <2>3. Nested(source, stack)' /\ ReadSoFar'
    BY <1>1, <1>3, <1>6, <2>2 DEF ReadSoFar
  <2>4. phase' = "expand"
    BY <1>1, <1>8
  <2> QED  BY <1>6, <2>3, <2>4 DEF ExpandInv, Expanded
<1> QED  BY <1>7, <1>8

(* The passes leave what was read alone.                                   *)
LEMMA PassesKeepText ==
  ASSUME RecordsInv, assign \/ emit
  PROVE  Recorded' = Recorded
<1> DEFINE r == records[next]
           s == records'[next]
           b == IF location.kind = "fixed" THEN location.bank ELSE NoBank
<1>1. ASSUME DOMAIN records' = DOMAIN records,
             \A i \in DOMAIN records :
               /\ records'[i].label = records[i].label
               /\ records'[i].operation = records[i].operation
               /\ records'[i].operand = records[i].operand
      PROVE  Recorded' = Recorded
  BY <1>1 DEF Recorded
<1>2. CASE records' = records
  BY <1>2 DEF Recorded
<1>3. CASE emit
  <2>1. SamePlaces
    BY <1>3, EmitSamePlaces
  <2> QED  BY <1>1, <2>1 DEF SamePlaces
<1>4. CASE assign /\ place(r)
  <2>1. next \in DOMAIN records /\ r \in Records
    BY <1>4, RecordTyped DEF assign
  <2>2. records' = [records EXCEPT ![next].offset = location.offset, ![next].bank = b]
    BY <1>4 DEF place
  <2> HIDE DEF b
  <2>3. records' = [records EXCEPT ![next] = [r EXCEPT !.offset = location.offset, !.bank = b]]
    BY <2>1, <2>2
  <2>4. DOMAIN records' = DOMAIN records /\ \A i \in DOMAIN records : i # next => records'[i] = records[i]
    BY <2>3
  <2>5. s = [r EXCEPT !.offset = location.offset, !.bank = b]
    BY <2>1, <2>3
  <2>6. s.label = r.label /\ s.operation = r.operation /\ s.operand = r.operand
    BY <2>1, <2>5 DEF Records
  <2> HIDE DEF s
  <2> QED  BY <1>1, <2>4, <2>6 DEF s
<1>5. assign => place(r) \/ records' = records
  BY DEF assign, define_label, collect_equate, apply_location_directive, refuse_operation
<1> QED  BY <1>2, <1>3, <1>4, <1>5

LEMMA ExpandStep ==
  ASSUME TextInv, TextInv', RecordsInv, ExpandInv, route = "native", NextAssembler
  PROVE  ExpandInv'
<1>1. ASSUME source' = source, cache' = cache, phase' = "failed"  PROVE ExpandInv'
  BY <1>1 DEF ExpandInv, Cached, Expanded
<1>2. ASSUME fail  PROVE ExpandInv'
  BY <1>1, <1>2 DEF fail, expansion
<1>3. CASE expand_program
  <2>1. fail \/ phase' = "expand"
    BY <1>3 DEF expand_program
  <2> QED  BY <1>2, <1>3, <2>1, ProgramOpens
<1>4. CASE expand_include
  <2>1. fail \/ phase' = "expand"
    BY <1>4 DEF expand_include, AtLine
  <2> QED  BY <1>2, <1>4, <2>1, IncludeOpens
<1>5. CASE expand_statement
  BY <1>5, StatementReads
<1>6. CASE leave_file
  BY <1>6, FileEnds
<1>7. ASSUME Expanded, source' = source, cache' = cache, Recorded' = Recorded, Expanded'
      PROVE  ExpandInv'
  <2>1. Text(EditedTree, source.overlay)' = Text(EditedTree, source.overlay)
    BY <1>7 DEF Text, EditedTree, Edited, Depth
  <2>2. Cached' /\ Whole'
    BY <1>7, <2>1 DEF ExpandInv, Cached, Whole
  <2>3. phase' # "start" /\ phase' # "expand"
    BY <1>7 DEF Expanded
  <2> QED  BY <2>2, <2>3 DEF ExpandInv
<1>8. CASE assign \/ emit
  <2>1. Recorded' = Recorded
    BY <1>8, PassesKeepText
  <2>2. Expanded /\ Expanded' /\ source' = source /\ cache' = cache
    BY <1>8 DEF assign, emit, Expanded
  <2> QED  BY <1>7, <2>1, <2>2
<1>9. CASE assigned \/ resolve_equates \/ equates_resolved \/ assembled
  <2>1. records' = records /\ source' = source /\ cache' = cache
    BY <1>9 DEF assigned, resolve_equates, equates_resolved, assembled, expansion
  <2>2. Expanded /\ Expanded'
    BY <1>9 DEF assigned, resolve_equates, equates_resolved, assembled, Expanded
  <2>3. Recorded' = Recorded
    BY <2>1 DEF Recorded
  <2> QED  BY <1>7, <2>1, <2>2, <2>3
<1> QED  BY <1>3, <1>4, <1>5, <1>6, <1>8, <1>9 DEF NextAssembler

-----------------------------------------------------------------------------
(* What is staged is the tree with the overlay on it.                      *)
StagedInv ==
  /\ route = "reference" => source \in Sources
  /\ staged # NoTree => route = "reference" /\ Stageable /\ staged = Staged
RouteInv == ExpandInv /\ StagedInv

LEMMA RouteInitial == Init => RouteInv
<1> SUFFICES ASSUME Init  PROVE RouteInv
  OBVIOUS
<1>1. route = "reference" => source \in Sources
  <2> SUFFICES ASSUME route = "reference"  PROVE source \in Sources
    OBVIOUS
  <2>1. PICK given \in Sources : InitAssembler(given)
    BY DEF Init
  <2> QED  BY <2>1 DEF InitAssembler
<1>2. phase = "start" /\ cache = <<>> /\ records = <<>> /\ staged = NoTree
  BY DEF Init, InitAssembler
<1>3. DOMAIN cache = {}
  BY <1>2
<1>4. ExpandInv
  BY <1>2, <1>3 DEF ExpandInv, Cached, Expanded
<1>5. StagedInv
  BY <1>1, <1>2 DEF StagedInv
<1> QED  BY <1>4, <1>5 DEF RouteInv

LEMMA RouteStep ==
  ASSUME AssemblyInv, AssemblyInv', RouteInv, [Next]_vars
  PROVE  RouteInv'
<1>1. CASE route = "native" /\ NextAssembler /\ UNCHANGED <<route, staged>>
  <2>1. ExpandInv'
    BY <1>1, ExpandStep DEF AssemblyInv, RouteInv
  <2>2. StagedInv'
    BY <1>1 DEF RouteInv, StagedInv
  <2> QED  BY <2>1, <2>2 DEF RouteInv
<1>2. ASSUME UNCHANGED <<asmvars, route>>
      PROVE  ExpandInv' /\ source' = source /\ (Stageable' <=> Stageable) /\ Staged' = Staged
  <2>1. source' = source /\ phase' = phase /\ stack' = stack /\ cache' = cache /\ records' = records
    BY <1>2 DEF asmvars, expansion
  <2>2. (Stageable' <=> Stageable) /\ Staged' = Staged
    BY <2>1 DEF Stageable, Staged
  <2>3. Text(EditedTree, source.overlay)' = Text(EditedTree, source.overlay)
    BY <2>1 DEF Text, EditedTree, Edited, Depth
  <2>4. Recorded' = Recorded
    BY <2>1 DEF Recorded
  <2>5. Cached' /\ (ReadSoFar => ReadSoFar') /\ (Whole => Whole') /\ (Expanded' => Expanded)
    BY <2>1, <2>3, <2>4 DEF RouteInv, ExpandInv, Cached, ReadSoFar, Whole, Expanded
  <2> QED  BY <2>1, <2>2, <2>5 DEF RouteInv, ExpandInv
<1>3. CASE UNCHANGED <<asmvars, route, staged>>
  <2>1. ExpandInv' /\ source' = source /\ (Stageable' <=> Stageable) /\ Staged' = Staged
    BY <1>2, <1>3
  <2> QED  BY <1>3, <2>1 DEF RouteInv, StagedInv
<1>4. CASE stage
  <2>1. UNCHANGED <<asmvars, route>> /\ route = "reference"
        /\ (staged' = NoTree \/ (Stageable /\ staged' = Staged))
    BY <1>4 DEF stage, Staged
  <2>2. ExpandInv' /\ source' = source /\ (Stageable' <=> Stageable) /\ Staged' = Staged
    BY <1>2, <2>1
  <2> QED  BY <2>1, <2>2 DEF RouteInv, StagedInv
<1>5. \/ route = "native" /\ NextAssembler /\ UNCHANGED <<route, staged>>
      \/ UNCHANGED <<asmvars, route, staged>>
      \/ stage
  BY DEF Next, vars, run_reference
<1> QED  BY <1>1, <1>3, <1>4, <1>5

LEMMA RouteAlways == Spec => []RouteInv
<1>1. AssemblyInv /\ AssemblyInv' /\ RouteInv /\ [Next]_vars => RouteInv'
  BY RouteStep
<1> QED  BY <1>1, AssemblyAlways, RouteInitial, PTL DEF Spec

LEMMA RoutesSound ==
  ASSUME RouteInv
  PROVE  RoutesAgree
<1>1. Expanded => Whole
  BY DEF RouteInv, ExpandInv
<1>2. ASSUME staged # NoTree, ~EditsAnAlias, ~AliasesElsewhere
      PROVE  Text(staged, Unaliased) = Text(EditedTree, source.overlay)
  <2>1. AliasesFit /\ staged = Staged
    BY <1>2 DEF RouteInv, StagedInv, AliasesFit
  <2> QED  BY <2>1, RoutesReadAlike
<1> QED  BY <1>1, <1>2 DEF RoutesAgree, Whole, Recorded

(* For every tree, overlay and entry that may be given, the native route   *)
(* lowers the text that the entry and its includes make, with the edits    *)
(* and aliases in memory, and the reference route stages that text (except *)
(* for the two kinds of overlays that RoutesAgree leaves out).             *)
THEOREM RoutesAssembleOneText == Spec => []RoutesAgree
<1>1. RouteInv => RoutesAgree
  BY RoutesSound
<1> QED  BY <1>1, RouteAlways, PTL
=============================================================================
