---------------------------- MODULE TimerProofs ----------------------------
(***************************************************************************)
(* The timer unit, for registers of any size, any rates and any period of  *)
(* the clock counter that both divide.                                     *)
(***************************************************************************)
EXTENDS TimerProperties, TLAPS

-----------------------------------------------------------------------------
(* Arithmetic.  A product or a quotient is given a name before the solver  *)
(* sees it.                                                                *)

LEMMA Division ==
  ASSUME NEW a \in Int, NEW n \in Nat \ {0}
  PROVE  /\ a \div n \in Int /\ a % n \in 0 .. n - 1
         /\ a = (a \div n) * n + (a % n)
  OBVIOUS

LEMMA Distribute ==
  ASSUME NEW a \in Int, NEW n \in Int
  PROVE  (a + 1) * n = a * n + n
  OBVIOUS

LEMMA Order ==
  ASSUME NEW a \in Int, NEW b \in Int, NEW n \in Nat \ {0}, a < b
  PROVE  a * n + n <= b * n
  OBVIOUS

\* Quotient and remainder are the only ones that fit.
LEMMA Unique ==
  ASSUME NEW n \in Nat \ {0}, NEW q \in Int, NEW r \in 0 .. n - 1,
         NEW p \in Int, NEW s \in 0 .. n - 1, q * n + r = p * n + s
  PROVE  q = p /\ r = s
<1>1. ~(q < p)
  <2> SUFFICES ASSUME q < p PROVE FALSE
    OBVIOUS
  <2> DEFINE qn == q * n
  <2> DEFINE pn == p * n
  <2>1. qn \in Int /\ pn \in Int /\ qn + n <= pn /\ qn + r = pn + s
    BY Order
  <2> HIDE DEF qn, pn
  <2> QED
    BY <2>1
<1>2. ~(p < q)
  <2> SUFFICES ASSUME p < q PROVE FALSE
    OBVIOUS
  <2> DEFINE qn == q * n
  <2> DEFINE pn == p * n
  <2>1. qn \in Int /\ pn \in Int /\ pn + n <= qn /\ qn + r = pn + s
    BY Order
  <2> HIDE DEF qn, pn
  <2> QED
    BY <2>1
<1>3. q = p
  BY <1>1, <1>2
<1> QED
  <2> DEFINE qn == q * n
  <2>1. qn \in Int /\ qn + r = qn + s
    BY <1>3
  <2> HIDE DEF qn
  <2> QED
    BY <2>1

\* The next number has the next remainder, or the next quotient.
LEMMA Successor ==
  ASSUME NEW a \in Int, NEW n \in Nat \ {0}
  PROVE  /\ a % n = n - 1 => (a + 1) % n = 0 /\ (a + 1) \div n = (a \div n) + 1
         /\ a % n # n - 1 => (a + 1) % n = (a % n) + 1 /\ (a + 1) \div n = a \div n
<1> DEFINE q == a \div n
<1> DEFINE r == a % n
<1> DEFINE p == (a + 1) \div n
<1> DEFINE s == (a + 1) % n
<1>1. q \in Int /\ r \in 0 .. n - 1 /\ a = q * n + r
  BY Division
<1>2. p \in Int /\ s \in 0 .. n - 1 /\ a + 1 = p * n + s
  <2>1. a + 1 \in Int
    OBVIOUS
  <2> QED
    BY <2>1, Division
<1> HIDE DEF q, r, p, s
<1>3. q * n \in Int /\ p * n \in Int /\ (q + 1) * n = q * n + n
  BY <1>1, <1>2, Distribute
<1>4. CASE r = n - 1
  <2>1. (q + 1) * n + 0 = p * n + s
    BY <1>1, <1>2, <1>3, <1>4
  <2>2. q + 1 = p /\ 0 = s
    BY <1>1, <1>2, <2>1, Unique
  <2> QED
    BY <1>4, <2>2 DEF q, r, p, s
<1>5. CASE r # n - 1
  <2>1. q * n + (r + 1) = p * n + s /\ r + 1 \in 0 .. n - 1
    BY <1>1, <1>2, <1>3, <1>5
  <2>2. q = p /\ r + 1 = s
    BY <1>1, <1>2, <2>1, Unique
  <2> QED
    BY <1>5, <2>2 DEF q, r, p, s
<1> QED
  BY <1>4, <1>5

LEMMA Congruent ==
  ASSUME NEW n \in Nat \ {0}, NEW a \in Int, NEW b \in Int, NEW k \in Int, a = b + k * n
  PROVE  a % n = b % n
<1> DEFINE q == b \div n
<1> DEFINE r == b % n
<1> DEFINE p == a \div n
<1> DEFINE s == a % n
<1>1. q \in Int /\ r \in 0 .. n - 1 /\ b = q * n + r
  BY Division
<1>2. p \in Int /\ s \in 0 .. n - 1 /\ a = p * n + s
  BY Division
<1> HIDE DEF q, r, p, s
<1>3. (q + k) * n + r = p * n + s
  BY <1>1, <1>2
<1>4. r = s
  <2>1. q + k \in Int
    BY <1>1
  <2> QED
    BY <1>1, <1>2, <1>3, <2>1, Unique
<1> QED
  BY <1>4 DEF r, s

LEMMA WrapOnce ==
  ASSUME NEW w \in Nat \ {0}, NEW a \in 0 .. w - 1
  PROVE  (a + 1) % w = IF a + 1 = w THEN 0 ELSE a + 1
  OBVIOUS

\* A number that divides a product is divided by its factors.
LEMMA Factor ==
  ASSUME NEW w \in Nat, NEW d \in Nat \ {0}, NEW b \in Nat \ {0}, w % (d * b) = 0
  PROVE  w % d = 0 /\ \E m \in Int : w \div d = m * b
<1>1. d * b \in Nat \ {0}
  <2>1. ASSUME NEW x \in Int, NEW y \in Int, x >= 1, y >= 1 PROVE x * y >= 1
    BY <2>1
  <2> QED
    BY <2>1
<1> DEFINE m == w \div (d * b)
<1>2. m \in Int /\ w = m * (d * b)
  <2> DEFINE db == d * b
  <2>1. db \in Nat \ {0} /\ w \in Int /\ w % db = 0
    BY <1>1
  <2> HIDE DEF db
  <2>2. w \div db \in Int /\ w = (w \div db) * db + 0
    BY <2>1, Division
  <2>3. (w \div db) * db \in Int
    BY <2>1, <2>2
  <2> QED
    BY <2>2, <2>3 DEF db
<1> HIDE DEF m
<1> DEFINE mb == m * b
<1>3. mb \in Int /\ w = mb * d + 0
  BY <1>2
<1> HIDE DEF mb
<1>4. w \div d \in Int /\ w % d \in 0 .. d - 1 /\ w = (w \div d) * d + (w % d)
  BY Division
<1>5. w \div d = mb /\ w % d = 0
  BY <1>3, <1>4, Unique
<1> QED
  BY <1>2, <1>5 DEF mb

-----------------------------------------------------------------------------
(* Types, and the clock counter under a divisor of its period.             *)

LEMMA InitType == HInit => TypeOK
<1> SUFFICES ASSUME Init PROVE TypeOK
  BY DEF HInit
<1>1. 0 \in 0 .. ClockWrap - 1 /\ 0 \in Byte /\ BootDIV \in Byte
  BY RatesAssumption DEF Byte
<1>2. {REG_DIV, REG_TIMA, REG_TMA} \subseteq Byte
  BY <1>1 DEF Init
<1>3. {} \in SUBSET INTERRUPT_ID /\ 0 \in RateSelector
  BY DEF RateSelector
<1> QED
  BY <1>1, <1>2, <1>3 DEF Init, TypeOK

LEMMA TimerRequest == INTERRUPT_TIMER \in INTERRUPT_ID
  BY DEF INTERRUPT_TIMER, INTERRUPT_ID, INTERRUPT_VBLANK, INTERRUPT_JOYPAD

LEMMA ClockType == TypeOK /\ machineClock => TypeOK'
<1> SUFFICES ASSUME TypeOK, machineClock PROVE TypeOK'
  OBVIOUS
<1>1. clockCount' \in 0 .. ClockWrap - 1
  BY RatesAssumption, WrapOnce DEF TypeOK, machineClock
<1>2. REG_DIV' \in Byte
  <2>1. CASE incrementDIV
    BY <2>1, RatesAssumption, WrapOnce DEF TypeOK, Byte, incrementDIV
  <2>2. CASE UNCHANGED REG_DIV
    BY <2>2 DEF TypeOK
  <2> QED
    BY <2>1, <2>2 DEF machineClock
<1>3. REG_TIMA' \in Byte /\ REG_IF' \in SUBSET INTERRUPT_ID
  <2>1. CASE incrementTIMA
    BY <2>1, TimerRequest, RatesAssumption DEF TypeOK, Byte, incrementTIMA
  <2>2. CASE UNCHANGED <<REG_TIMA, REG_IF>>
    BY <2>2 DEF TypeOK
  <2> QED
    BY <2>1, <2>2 DEF machineClock
<1> QED
  BY <1>1, <1>2, <1>3 DEF machineClock, TypeOK, tacVars

LEMMA AccessType == TypeOK /\ CpuAccess => TypeOK'
<1> SUFFICES ASSUME TypeOK, CpuAccess PROVE TypeOK'
  OBVIOUS
<1> USE DEF TypeOK, tacVars
<1>1. CASE WriteDIV
  BY <1>1, RatesAssumption DEF WriteDIV, Byte
<1>2. CASE \E value \in TimaWrites : WriteTIMA(value)
  BY <1>2, RatesAssumption DEF WriteTIMA
<1>3. CASE \E value \in TmaWrites : WriteTMA(value)
  BY <1>3, RatesAssumption DEF WriteTMA
<1>4. CASE \E enabled \in BOOLEAN, selector \in RateSelector : WriteTAC(enabled, selector)
  BY <1>4 DEF WriteTAC
<1>5. CASE \E flags \in SUBSET {INTERRUPT_TIMER} : WriteIF(flags)
  BY <1>5, TimerRequest DEF WriteIF
<1> QED
  BY <1>1, <1>2, <1>3, <1>4, <1>5 DEF CpuAccess

LEMMA StepType == TypeOK /\ [HNext]_hvars => TypeOK'
<1> SUFFICES ASSUME TypeOK, [HNext]_hvars PROVE TypeOK'
  OBVIOUS
<1>1. CASE UNCHANGED hvars
  BY <1>1 DEF hvars, vars, tacVars, TypeOK
<1> QED
  BY <1>1, ClockType, AccessType DEF HNext, HClock, HAccess

\* The registers and the counter stay in their ranges: TypeOK.
THEOREM TypeCorrect == HSpec => []TypeOK
<1> QED
  BY InitType, StepType, PTL DEF HSpec

\* Counting a clock counts a remainder, also when the counter wraps around.
LEMMA ClockRemainder ==
  ASSUME TypeOK, machineClock, NEW n \in Nat \ {0}, ClockWrap % n = 0
  PROVE  /\ clockCount % n = n - 1 => clockCount' % n = 0
         /\ clockCount % n # n - 1 => clockCount' % n = (clockCount % n) + 1
<1>1. clockCount \in 0 .. ClockWrap - 1 /\ clockCount' = (clockCount + 1) % ClockWrap
      /\ ClockWrap \in Nat \ {0}
  BY RatesAssumption DEF TypeOK, machineClock
<1>2. /\ clockCount % n = n - 1 => (clockCount + 1) % n = 0
      /\ clockCount % n # n - 1 => (clockCount + 1) % n = (clockCount % n) + 1
  <2>1. clockCount \in Int
    BY <1>1
  <2> QED
    BY <2>1, Successor
<1>3. CASE clockCount + 1 # ClockWrap
  BY <1>1, <1>2, <1>3, WrapOnce
<1>4. CASE clockCount + 1 = ClockWrap
  <2>1. clockCount' = 0 /\ (clockCount + 1) % n = 0
    BY <1>1, <1>4, WrapOnce
  <2>2. clockCount % n \in 0 .. n - 1
    BY <1>1, Division
  <2>3. clockCount % n = n - 1
    BY <1>2, <2>1, <2>2
  <2>4. 0 % n = 0
    OBVIOUS
  <2> QED
    BY <2>1, <2>3, <2>4
<1> QED
  BY <1>3, <1>4

-----------------------------------------------------------------------------
(* DIV                                                                     *)

\* The quotient counts with the ticks, and where the counter wraps around it
\* has counted a multiple of the register's values.
LEMMA ClockQuotient ==
  ASSUME TypeOK, machineClock
  PROVE  IF ticks(clockCount', DIV_RATE)
         THEN \E k \in Int : Boundaries' = Boundaries + 1 + k * ByteSize
         ELSE Boundaries' = Boundaries
<1>1. clockCount \in 0 .. ClockWrap - 1 /\ clockCount' = (clockCount + 1) % ClockWrap
      /\ ClockWrap \in Nat \ {0} /\ DIV_RATE \in Nat \ {0} /\ ByteSize \in Nat \ {0}
  BY RatesAssumption DEF TypeOK, machineClock
<1>2. PICK m \in Int : ClockWrap \div DIV_RATE = m * ByteSize
  BY <1>1, Factor, RatesAssumption
<1>3. ClockWrap % DIV_RATE = 0
  BY <1>1, Factor, RatesAssumption
<1>4. clockCount % DIV_RATE \in 0 .. DIV_RATE - 1 /\ Boundaries \in Int
  BY <1>1, Division DEF Boundaries
<1>5. /\ clockCount % DIV_RATE = DIV_RATE - 1 =>
           (clockCount + 1) % DIV_RATE = 0 /\ (clockCount + 1) \div DIV_RATE = Boundaries + 1
      /\ clockCount % DIV_RATE # DIV_RATE - 1 =>
           /\ (clockCount + 1) % DIV_RATE = (clockCount % DIV_RATE) + 1
           /\ (clockCount + 1) \div DIV_RATE = Boundaries
  <2>1. clockCount \in Int /\ DIV_RATE \in Nat \ {0}
    BY <1>1
  <2> QED
    BY <2>1, Successor DEF Boundaries
<1>6. CASE clockCount + 1 # ClockWrap
  <2>1. clockCount' = clockCount + 1
    BY <1>1, <1>6, WrapOnce
  <2>2. Boundaries' = (clockCount + 1) \div DIV_RATE
    BY <2>1 DEF Boundaries
  <2>3. ticks(clockCount', DIV_RATE) <=> clockCount % DIV_RATE = DIV_RATE - 1
    BY <1>4, <1>5, <2>1 DEF ticks
  <2>4. 0 \in Int /\ Boundaries + 1 = Boundaries + 1 + 0 * ByteSize
    BY <1>1, <1>4
  <2> QED
    BY <1>5, <2>2, <2>3, <2>4
<1>7. CASE clockCount + 1 = ClockWrap
  <2>1. clockCount' = 0 /\ ticks(clockCount', DIV_RATE)
    BY <1>1, <1>7, WrapOnce DEF ticks
  <2>2. Boundaries' = 0
    BY <1>1, <2>1 DEF Boundaries
  <2>3. Boundaries + 1 = m * ByteSize
    BY <1>2, <1>3, <1>4, <1>5, <1>7
  <2>4. -m \in Int /\ (-m) * ByteSize = -(m * ByteSize)
    BY <1>1
  <2>5. Boundaries' = Boundaries + 1 + (-m) * ByteSize
    <3> DEFINE mb == m * ByteSize
    <3>1. mb \in Int /\ Boundaries + 1 = mb /\ (-m) * ByteSize = -mb
      BY <1>1, <2>3, <2>4
    <3> HIDE DEF mb
    <3> QED
      BY <1>4, <2>2, <3>1
  <2> QED
    BY <2>1, <2>4, <2>5
<1> QED
  BY <1>6, <1>7

LEMMA DivStep ==
  ASSUME TypeOK, machineClock
  PROVE  (REG_DIV' - Boundaries') % ByteSize = (REG_DIV - Boundaries) % ByteSize
<1>1. ByteSize \in Nat \ {0} /\ REG_DIV \in 0 .. ByteSize - 1 /\ Boundaries \in Int
  <2>1. clockCount \in Int /\ DIV_RATE \in Nat \ {0}
    BY RatesAssumption DEF TypeOK
  <2> QED
    BY <2>1, Division, RatesAssumption DEF TypeOK, Byte, Boundaries
<1>2. CASE ~ticks(clockCount', DIV_RATE)
  <2>1. Boundaries' = Boundaries /\ REG_DIV' = REG_DIV
    BY <1>2, ClockQuotient DEF machineClock
  <2> QED
    BY <2>1
<1>3. CASE ticks(clockCount', DIV_RATE)
  <2>1. PICK k \in Int : Boundaries' = Boundaries + 1 + k * ByteSize
    BY <1>3, ClockQuotient
  <2>2. REG_DIV' = (REG_DIV + 1) % ByteSize
    BY <1>3 DEF machineClock, incrementDIV
  <2>3. PICK j \in Int : REG_DIV' = REG_DIV + 1 + j * ByteSize
    <3>1. CASE REG_DIV + 1 = ByteSize
      <4>1. REG_DIV' = 0 /\ REG_DIV + 1 + (-1) * ByteSize = 0
        BY <1>1, <2>2, <3>1, WrapOnce
      <4> QED
        BY <4>1
    <3>2. CASE REG_DIV + 1 # ByteSize
      <4>1. REG_DIV' = REG_DIV + 1 /\ REG_DIV + 1 + 0 * ByteSize = REG_DIV + 1
        BY <1>1, <2>2, <3>2, WrapOnce
      <4> QED
        BY <4>1
    <3> QED
      BY <3>1, <3>2
  <2>4. REG_DIV' - Boundaries' = (REG_DIV - Boundaries) + (j - k) * ByteSize
    <3> DEFINE jb == j * ByteSize
    <3> DEFINE kb == k * ByteSize
    <3>1. jb \in Int /\ kb \in Int /\ (j - k) * ByteSize = jb - kb
      BY <1>1
    <3>2. REG_DIV' = REG_DIV + 1 + jb /\ Boundaries' = Boundaries + 1 + kb
      BY <2>1, <2>3
    <3> HIDE DEF jb, kb
    <3> QED
      BY <1>1, <3>1, <3>2
  <2>5. REG_DIV - Boundaries \in Int /\ j - k \in Int
    BY <1>1
  <2> DEFINE a == REG_DIV' - Boundaries'
  <2> DEFINE b == REG_DIV - Boundaries
  <2>6. a \in Int
    <3>1. (j - k) * ByteSize \in Int
      BY <1>1
    <3> QED
      BY <2>4, <2>5, <3>1
  <2>7. b \in Int /\ a = b + (j - k) * ByteSize
    BY <2>4, <2>5
  <2> HIDE DEF a, b
  <2>8. a % ByteSize = b % ByteSize
    BY <1>1, <2>5, <2>6, <2>7, Congruent
  <2> QED
    BY <2>8 DEF a, b
<1> QED
  BY <1>2, <1>3

\* Between stores to it, DIV runs with the quotient of the clock counter,
\* whatever else happens and however often either wraps: DivFollowsClock.
THEOREM DivCorrect == HSpec => DivFollowsClock
<1>1. ASSUME TypeOK, [HNext]_hvars
      PROVE  [HClock => (REG_DIV' - Boundaries') % ByteSize
                          = (REG_DIV - Boundaries) % ByteSize]_hvars
  BY <1>1, DivStep DEF HClock
<1> QED
  BY <1>1, TypeCorrect, PTL DEF HSpec, DivFollowsClock

-----------------------------------------------------------------------------
(* The period of the timer interrupt.                                      *)

Rate == currentTIMARate

LEMMA RateType == TypeOK => Rate \in Nat \ {0} /\ ClockWrap % Rate = 0
  BY RatesAssumption DEF TypeOK, Rate, currentTIMARate

\* What the count of clocks says of the registers: each tick since the
\* request has added a rate, and the clock counter holds the rest.
PeriodInv ==
  \/ sinceRequest = -1
  \/ /\ sinceRequest \in Nat
     /\ timerEnabled
     /\ REG_TMA <= REG_TIMA
     /\ sinceRequest = (REG_TIMA - REG_TMA) * Rate + (clockCount % Rate)

\* A clock of a running count: no tick, a tick below the maximum, or the
\* overflow.
LEMMA CountStep ==
  ASSUME TypeOK, machineClock, PeriodInv, sinceRequest # -1
  PROVE  \/ /\ UNCHANGED <<REG_TIMA, REG_IF>>
            /\ sinceRequest + 1 < Period
            /\ sinceRequest + 1 = (REG_TIMA - REG_TMA) * Rate + (clockCount' % Rate)
         \/ /\ REG_TIMA' = REG_TIMA + 1 /\ UNCHANGED REG_IF
            /\ sinceRequest + 1 < Period
            /\ sinceRequest + 1 = (REG_TIMA' - REG_TMA) * Rate
            /\ clockCount' % Rate = 0
         \/ /\ REG_TIMA' = REG_TMA /\ REG_IF' = REG_IF \cup {INTERRUPT_TIMER}
            /\ sinceRequest + 1 = Period
            /\ clockCount' % Rate = 0
<1> DEFINE d == REG_TIMA - REG_TMA
<1> DEFINE r == Rate
<1> DEFINE c == clockCount % Rate
<1> DEFINE e == clockCount' % Rate
<1> DEFINE top == ByteSize - REG_TMA
<1>1. r \in Nat \ {0} /\ ClockWrap % r = 0
  BY RateType
<1>2. REG_TIMA \in 0 .. ByteSize - 1 /\ REG_TMA \in 0 .. ByteSize - 1 /\ ByteSize \in Nat \ {0}
      /\ clockCount \in Int
  BY RatesAssumption DEF TypeOK, Byte
<1>3. c \in 0 .. r - 1
  BY <1>1, <1>2, Division
<1>4. (c = r - 1 => e = 0) /\ (c # r - 1 => e = c + 1)
  BY <1>1, ClockRemainder
<1>5. d \in Nat /\ top \in Nat /\ d < top /\ timerEnabled /\ REG_TMA <= REG_TIMA
      /\ sinceRequest = d * r + c /\ sinceRequest \in Nat
  BY <1>2 DEF PeriodInv
<1>6. Period = top * r
  BY DEF Period, Rate
<1>7. timerEnabled /\ e = 0 => incrementTIMA
  BY DEF machineClock, ticks, Rate
<1>8. e # 0 => UNCHANGED <<REG_TIMA, REG_IF>>
  BY DEF machineClock, ticks, Rate
<1>9. REG_TIMA + 1 - REG_TMA = d + 1
  BY <1>2
<1>10. (REG_TIMA = ByteSize - 1 <=> d + 1 = top)
  BY <1>2
<1> DEFINE dr == d * r
<1> DEFINE tr == top * r
<1>11. dr \in Nat /\ tr \in Int /\ dr + r <= tr /\ (d + 1) * r = dr + r
  BY <1>1, <1>5, Order, Distribute
<1>12. d + 1 < top => dr + r + r <= tr
  <2> SUFFICES ASSUME d + 1 < top PROVE dr + r + r <= tr
    OBVIOUS
  <2>1. d + 1 \in Int /\ top \in Int /\ r \in Nat \ {0}
    BY <1>1, <1>5
  <2>2. (d + 1) * r + r <= top * r
    BY <2>1, Order
  <2> QED
    BY <2>2, <1>11
<1>13. (REG_TIMA - REG_TMA) * Rate = dr /\ Period = tr /\ sinceRequest = dr + c
       /\ (REG_TIMA + 1 - REG_TMA) * Rate = dr + r
       /\ (d + 1 = top => tr = dr + r)
  BY <1>5, <1>6, <1>9, <1>11
<1> HIDE DEF d, r, c, e, top, dr, tr
<1>14. CASE c # r - 1
  <2>1. e = c + 1 /\ e # 0
    BY <1>3, <1>4, <1>14
  <2>2. sinceRequest + 1 = dr + e /\ sinceRequest + 1 < tr
    BY <1>1, <1>3, <1>11, <1>13, <1>14, <2>1
  <2> QED
    BY <1>8, <1>13, <2>1, <2>2 DEF e
<1>15. CASE c = r - 1 /\ REG_TIMA # ByteSize - 1
  <2>1. REG_TIMA' = REG_TIMA + 1 /\ UNCHANGED REG_IF /\ e = 0
    BY <1>4, <1>5, <1>7, <1>15 DEF incrementTIMA
  <2>2. d + 1 < top
    BY <1>5, <1>10, <1>15
  <2>3. sinceRequest + 1 = dr + r /\ sinceRequest + 1 < tr
    BY <1>1, <1>3, <1>11, <1>12, <1>13, <1>15, <2>2
  <2>4. (REG_TIMA' - REG_TMA) * Rate = dr + r
    <3>1. REG_TIMA' - REG_TMA = REG_TIMA + 1 - REG_TMA
      BY <1>2, <2>1
    <3>2. (REG_TIMA' - REG_TMA) * Rate = (REG_TIMA + 1 - REG_TMA) * Rate
      BY <3>1, Zenon
    <3> QED
      BY <1>13, <3>2, Zenon
  <2> QED
    BY <1>13, <2>1, <2>3, <2>4 DEF e
<1>16. CASE c = r - 1 /\ REG_TIMA = ByteSize - 1
  <2>1. REG_TIMA' = REG_TMA /\ REG_IF' = REG_IF \cup {INTERRUPT_TIMER} /\ e = 0
    BY <1>4, <1>5, <1>7, <1>16 DEF incrementTIMA
  <2>2. sinceRequest + 1 = tr
    BY <1>1, <1>3, <1>10, <1>11, <1>13, <1>16
  <2> QED
    BY <1>13, <2>1, <2>2 DEF e
<1> QED
  BY <1>14, <1>15, <1>16

\* Only an overflow requests the interrupt, and it leaves TMA in TIMA.
LEMMA RequestStep ==
  ASSUME TypeOK, machineClock, Requests
  PROVE  timerEnabled /\ REG_TIMA' = REG_TMA /\ clockCount' % Rate = 0
  BY DEF machineClock, incrementTIMA, ticks, Requests, Rate

LEMMA PeriodStep ==
  ASSUME TypeOK, [HNext]_hvars, PeriodInv
  PROVE  PeriodInv'
<1>1. CASE UNCHANGED hvars
  BY <1>1 DEF hvars, vars, tacVars, PeriodInv, Rate, currentTIMARate
<1>2. CASE HAccess
  <2>1. CASE ~UNCHANGED timerRegs
    BY <1>2, <2>1 DEF HAccess, PeriodInv
  <2>2. CASE UNCHANGED timerRegs
    <3>1. UNCHANGED <<clockCount, sinceRequest>>
      BY <1>2, <2>2 DEF HAccess, CpuAccess, WriteDIV, WriteTIMA, WriteTMA, WriteTAC, WriteIF
    <3> QED
      BY <2>2, <3>1 DEF timerRegs, tacVars, PeriodInv, Rate, currentTIMARate
  <2> QED
    BY <2>1, <2>2
<1>3. CASE HClock
  <2>1. machineClock /\ UNCHANGED <<REG_TMA, timerEnabled, rateSelector>> /\ Rate' = Rate
        /\ Rate \in Nat \ {0} /\ REG_TMA \in Int /\ REG_TIMA \in Int
    BY <1>3, RateType, RatesAssumption
       DEF HClock, machineClock, tacVars, Rate, currentTIMARate, TypeOK, Byte
  <2>2. (REG_TMA - REG_TMA) * Rate + 0 = 0
    BY <2>1
  <2>3. CASE sinceRequest = -1
    <3>1. CASE Requests
      <4>1. sinceRequest' = 0
        BY <1>3, <3>1 DEF HClock
      <4>2. timerEnabled /\ REG_TIMA' = REG_TMA /\ clockCount' % Rate = 0
        BY <2>1, <3>1, RequestStep
      <4> QED
        BY <2>1, <2>2, <4>1, <4>2 DEF PeriodInv
    <3>2. CASE ~Requests
      <4>1. Period # 0
        <5>1. ByteSize - REG_TMA \in Nat \ {0}
          BY <2>1, RatesAssumption DEF TypeOK, Byte
        <5>2. ASSUME NEW x \in Nat \ {0}, NEW y \in Nat \ {0} PROVE x * y # 0
          BY <5>2
        <5> QED
          BY <2>1, <5>1, <5>2 DEF Period, Rate
      <4>2. sinceRequest' = -1
        BY <1>3, <2>3, <3>2, <4>1 DEF HClock
      <4> QED
        BY <4>2 DEF PeriodInv
    <3> QED
      BY <3>1, <3>2
  <2>4. CASE sinceRequest # -1
    <3>1. timerEnabled /\ sinceRequest \in Nat /\ REG_TMA <= REG_TIMA
      BY <2>4 DEF PeriodInv
    <3>2. CASE UNCHANGED <<REG_TIMA, REG_IF>> /\ sinceRequest + 1 < Period
               /\ sinceRequest + 1 = (REG_TIMA - REG_TMA) * Rate + (clockCount' % Rate)
      <4>1. ~Requests /\ sinceRequest + 1 # Period
        BY <3>1, <3>2 DEF Requests
      <4>2. sinceRequest' = sinceRequest + 1
        BY <1>3, <2>4, <4>1 DEF HClock
      <4> QED
        BY <2>1, <3>1, <3>2, <4>2 DEF PeriodInv
    <3>3. CASE REG_TIMA' = REG_TIMA + 1 /\ UNCHANGED REG_IF /\ sinceRequest + 1 < Period
               /\ sinceRequest + 1 = (REG_TIMA' - REG_TMA) * Rate /\ clockCount' % Rate = 0
      <4>1. ~Requests /\ sinceRequest + 1 # Period
        BY <3>1, <3>3 DEF Requests
      <4>2. sinceRequest' = sinceRequest + 1
        BY <1>3, <2>4, <4>1 DEF HClock
      <4>3. sinceRequest' = (REG_TIMA' - REG_TMA) * Rate + 0
        BY <2>1, <3>1, <3>3, <4>2
      <4>4. REG_TMA <= REG_TIMA'
        BY <2>1, <3>1, <3>3
      <4> QED
        BY <2>1, <3>1, <3>3, <4>2, <4>3, <4>4 DEF PeriodInv
    <3>4. CASE REG_TIMA' = REG_TMA /\ sinceRequest + 1 = Period /\ clockCount' % Rate = 0
      <4>1. sinceRequest' = 0
        BY <1>3, <3>4 DEF HClock
      <4> QED
        BY <2>1, <2>2, <3>1, <3>4, <4>1 DEF PeriodInv
    <3> QED
      BY <2>1, <2>4, <3>2, <3>3, <3>4, CountStep
  <2> QED
    BY <2>3, <2>4
<1> QED
  BY <1>1, <1>2, <1>3 DEF HNext

LEMMA PeriodHolds == HSpec => []PeriodInv
<1>1. HInit => PeriodInv
  BY DEF HInit, PeriodInv
<1> QED
  BY <1>1, PeriodStep, TypeCorrect, PTL DEF HSpec

\* While TIMA, TMA and TAC are left alone, the interrupt comes exactly every
\* (256 - TMA) * rate clocks, for every rate and register size:
\* TimerPeriodExact.
THEOREM PeriodExact == HSpec => TimerPeriodExact
<1>1. ASSUME TypeOK, PeriodInv, HClock, sinceRequest # -1, INTERRUPT_TIMER \notin REG_IF
      PROVE  Requests <=> sinceRequest + 1 = Period
  <2>1. sinceRequest \in Nat
    BY <1>1 DEF PeriodInv
  <2>2. machineClock
    BY <1>1 DEF HClock
  <2>3. \/ UNCHANGED REG_IF /\ sinceRequest + 1 < Period
        \/ REG_IF' = REG_IF \cup {INTERRUPT_TIMER} /\ sinceRequest + 1 = Period
    BY <1>1, <2>2, CountStep
  <2>4. CASE UNCHANGED REG_IF /\ sinceRequest + 1 < Period
    <3>1. sinceRequest + 1 # Period
      BY <2>1, <2>4
    <3> QED
      BY <1>1, <2>4, <3>1 DEF Requests
  <2>5. CASE REG_IF' = REG_IF \cup {INTERRUPT_TIMER} /\ sinceRequest + 1 = Period
    BY <1>1, <2>5 DEF Requests
  <2> QED
    BY <2>3, <2>4, <2>5
<1>2. ASSUME TypeOK, PeriodInv, [HNext]_hvars
      PROVE  [(HClock /\ sinceRequest # -1 /\ INTERRUPT_TIMER \notin REG_IF)
               => (Requests <=> sinceRequest + 1 = Period)]_hvars
  BY <1>1, <1>2
<1> QED
  BY <1>2, TypeCorrect, PeriodHolds, PTL DEF HSpec, TimerPeriodExact
=============================================================================
