----------------------------- MODULE ClientProofs -----------------------------
(***************************************************************************)
(* What client code calls: launch, the batch helpers, the futures and the  *)
(* version ring.                                                           *)
(***************************************************************************)
EXTENDS Launch, Batches, Future, VersionRing, WellFoundedInduction, TLAPS

(***************************************************************************)
(* td::launch, for any configurations and any nesting.                     *)
(***************************************************************************)
\* The scheduler is there while lambdas run, and only a launch from outside
\* is under way to construct one.
LaunchInv ==
  /\ phase \in {"user", "check", "refused", "construct", "assert_failed", "start"}
  /\ calls \in Nat
  /\ sCurrentScheduler \in BOOLEAN /\ (sCurrentScheduler <=> calls > 0)
  /\ phase # "user" => calls = 0

LEMMA LaunchInitInv == LaunchInit => LaunchInv
<1>1. ~(0 > 0) /\ 0 \in Nat
  OBVIOUS
<1> QED
  BY <1>1, Zenon DEF LaunchInit, LaunchInv

LEMMA LaunchNextInv == LaunchInv /\ [LaunchNext]_launchVars => LaunchInv'
<1> SUFFICES ASSUME LaunchInv, [LaunchNext]_launchVars PROVE LaunchInv'
  OBVIOUS
<1> USE DEF LaunchInv
<1>1. CASE check
  BY <1>1 DEF check
<1>2. CASE construct
  BY <1>2 DEF construct
<1>3. CASE startScheduler
  BY <1>3 DEF startScheduler
<1>4. CASE leave
  <2>1. calls' \in Nat /\ phase' = "user"
    BY <1>4 DEF leave
  <2>2. sCurrentScheduler' = (calls' > 0)
    BY <1>4 DEF leave
  <2>3. (calls' > 0) \in BOOLEAN
    OBVIOUS
  <2> QED
    BY <2>1, <2>2, <2>3, Zenon
<1>5. ASSUME NEW c \in Requests, launch(c) PROVE LaunchInv'
  BY <1>5 DEF launch
<1>6. CASE UNCHANGED launchVars
  BY <1>6 DEF launchVars
<1> QED
  BY <1>1, <1>2, <1>3, <1>4, <1>5, <1>6 DEF LaunchNext

\* is_scheduler_alive() tells code inside of a launch from code outside, whatever
\* is launched in whatever nesting, and no launch replaces a scheduler whose
\* lambdas still run.
THEOREM LaunchIsScoped == LaunchSpec => LaunchScoped
<1>1. LaunchInv => (phase = "user" => (sCurrentScheduler <=> calls > 0))
  BY DEF LaunchInv
<1>2. LaunchInv /\ [LaunchNext]_launchVars
        => [calls > 0 => config' = config /\ phase' # "start"]_launchVars
  <2> SUFFICES ASSUME LaunchInv, LaunchNext, calls > 0
               PROVE  config' = config /\ phase' # "start"
    OBVIOUS
  <2>1. phase = "user" /\ sCurrentScheduler
    BY DEF LaunchInv
  <2> QED
    BY <2>1 DEF LaunchNext, check, construct, startScheduler, leave, launch
<1> QED
  BY <1>1, <1>2, LaunchInitInv, LaunchNextInv, PTL DEF LaunchSpec, LaunchScoped

\* Induction over the numbers: a set of them has a least one.
LEMMA LeastNumber ==
  ASSUME NEW T, T \subseteq Nat, T # {}
  PROVE  \E m \in T : \A x \in T : m <= x
<1> DEFINE R == OpToRel(<, Nat)
<1>1. IsWellFoundedOn(R, Nat)
  BY NatLessThanWellFounded
<1>2. \A x, y \in Nat : x < y => <<x, y>> \in R
  BY DEF OpToRel
<1> HIDE DEF R
<1>3. PICK m \in T : \A y \in T : ~(<<y, m>> \in R)
  BY <1>1, WFMin
<1>4. ASSUME NEW x \in T PROVE m <= x
  <2>1. x \in Nat /\ m \in Nat
    OBVIOUS
  <2>2. ~(x < m)
    BY <1>2, <1>3, <2>1
  <2> QED
    BY <2>1, <2>2
<1> QED
  BY <1>4

LEMMA TwicePow2 ==
  ASSUME NEW p \in Nat \ {0}, is_pow2(p)
  PROVE  is_pow2(2 * p)
<1> SUFFICES ASSUME NEW d \in 3 .. 2 * p, d % 2 = 1, (2 * p) % d = 0 PROVE FALSE
  BY DEF is_pow2
<1>1. PICK c \in Int : 2 * p = d * c
  <2>1. PICK k \in Int : k = 2 * p /\ k % d = 0
    OBVIOUS
  <2>2. k \div d \in Int /\ k = d * (k \div d) + (k % d)
    OBVIOUS
  <2> QED
    BY <2>1, <2>2
<1>2. PICK m \in Int : d = 2 * m + 1
  <2>1. d \div 2 \in Int /\ d = 2 * (d \div 2) + (d % 2)
    OBVIOUS
  <2> QED
    BY <2>1
<1>3. PICK j \in Int : c = 2 * j
  <2>1. d * c = 2 * (m * c) + c
    BY <1>2
  <2>2. p - m * c \in Int /\ c = 2 * (p - m * c)
    BY <1>1, <2>1
  <2> QED
    BY <2>2
<1>4. p = d * j
  BY <1>1, <1>3
<1>5. j >= 1
  BY <1>4
<1>6. p >= d
  BY <1>4, <1>5
<1>7. p % d = 0
  <2>1. PICK q \in Int, r \in 0 .. d - 1 : p = d * q + r /\ r = p % d
    <3>1. p \div d \in Int /\ p % d \in 0 .. d - 1 /\ p = d * (p \div d) + (p % d)
      OBVIOUS
    <3> QED
      BY <3>1
  <2>2. d * (j - q) = r
    BY <1>4, <2>1
  <2>3. CASE j - q <= 0
    BY <2>1, <2>2, <2>3
  <2>4. CASE j - q >= 1
    BY <2>1, <2>2, <2>4
  <2> QED
    BY <2>3, <2>4
<1> QED
  BY <1>6, <1>7 DEF is_pow2

LEMMA Pow2Above == \A k \in Nat : \E p \in k .. 2 * k : is_pow2(p)
<1> DEFINE Bad == {k \in Nat : ~\E p \in k .. 2 * k : is_pow2(p)}
<1> SUFFICES ASSUME Bad # {} PROVE FALSE
  OBVIOUS
<1>1. PICK k \in Bad : \A x \in Bad : k <= x
  BY LeastNumber
<1>2. k \in Nat /\ \A p \in k .. 2 * k : ~is_pow2(p)
  BY <1>1
<1>3. k > 1
  BY <1>2 DEF is_pow2
<1>4. PICK h \in Nat : h = (k + 1) \div 2 /\ 2 * h >= k /\ h < k /\ h > 0
  BY <1>2, <1>3
<1>5. PICK p \in h .. 2 * h : is_pow2(p)
  BY <1>1, <1>2, <1>4
<1>6. CASE p >= k
  BY <1>2, <1>4, <1>5, <1>6
<1>7. CASE p < k
  <2>1. 2 * p \in k .. 2 * k /\ p \in Nat \ {0}
    BY <1>2, <1>4, <1>5, <1>7
  <2> QED
    BY <1>2, <1>5, <2>1, TwicePow2
<1> QED
  BY <1>2, <1>4, <1>6, <1>7

LEMMA CeilPow2 ==
  ASSUME NEW k \in Nat
  PROVE  ceil_pow2(k) \in k .. 2 * k /\ is_pow2(ceil_pow2(k))
<1> DEFINE S == {p \in k .. 2 * k : is_pow2(p)}
<1>1. S # {} /\ S \subseteq Nat
  BY Pow2Above
<1>2. PICK p \in S : \A q \in S : p <= q
  BY <1>1, LeastNumber
<1>3. p \in k .. 2 * k /\ is_pow2(p) /\ \A q \in k .. 2 * k : is_pow2(q) => p <= q
  BY <1>2
<1> QED
  BY <1>3 DEF ceil_pow2

\* From the constructor to the end of the outermost lambda the configuration is
\* one that launch has rounded and accepted.
Fits ==
  /\ \A x \in Sized : /\ config[x] \in Nat /\ config[x] >= requested[x]
                      /\ is_pow2(config[x]) /\ config[x] > 0
  /\ config["max_num_counters"] < CounterLimit

PoolsInv ==
  /\ phase = "check" => config \in Config /\ requested = config
  /\ phase \in {"construct", "start"} \/ calls > 0 => Fits

LEMMA CheckFits ==
  ASSUME LaunchInv, PoolsInv, check
  PROVE  PoolsInv'
<1>1. /\ phase' \in {"construct", "refused"} /\ calls' = calls /\ calls = 0
      /\ config \in Config /\ requested' = config
      /\ phase' = "construct" => is_valid(config')
  BY DEF check, LaunchInv, PoolsInv
<1>2. ASSUME NEW x \in Sized PROVE config'[x] = ceil_pow2(config[x]) /\ config[x] \in Nat
  <2>1. x \in DOMAIN config /\ config[x] \in Nat
    BY <1>1 DEF Config
  <2> QED
    BY <2>1 DEF check, ceil_to_pow2
<1>3. DOMAIN config' = Sized \cup {"num_threads", "static_alloc"}
  BY <1>1 DEF check, ceil_to_pow2, Config
<1>4. ASSUME phase' = "construct" PROVE Fits'
  <2>1. is_valid(config')
    BY <1>1, <1>4
  <2>2. ASSUME NEW x \in Sized
        PROVE  config'[x] \in Nat /\ config'[x] >= requested'[x] /\ is_pow2(config'[x]) /\ config'[x] > 0
    <3>1. PICK k \in Nat : k = config[x]
      BY <1>2
    <3>2. ceil_pow2(k) \in k .. 2 * k /\ is_pow2(ceil_pow2(k))
      BY CeilPow2
    <3>3. config'[x] > 0
      BY <1>3, <2>1 DEF is_valid
    <3> QED
      BY <1>1, <1>2, <3>1, <3>2, <3>3
  <2>3. config'["max_num_counters"] < CounterLimit
    BY <2>1 DEF is_valid
  <2> QED
    BY <2>2, <2>3 DEF Fits, is_pow2
<1>5. ~(calls' > 0)
  BY <1>1
<1> QED
  BY <1>1, <1>4, <1>5 DEF PoolsInv

LEMMA PoolsNext == LaunchInv /\ PoolsInv /\ [LaunchNext]_launchVars => PoolsInv'
<1> SUFFICES ASSUME LaunchInv, PoolsInv, [LaunchNext]_launchVars PROVE PoolsInv'
  OBVIOUS
<1>1. ASSUME UNCHANGED <<config, requested>> PROVE Fits => Fits'
  BY <1>1 DEF Fits, is_pow2
<1>2. CASE check
  BY <1>2, CheckFits
<1>3. CASE construct
  BY <1>1, <1>3 DEF construct, LaunchInv, PoolsInv
<1>4. CASE startScheduler
  BY <1>1, <1>4 DEF startScheduler, PoolsInv
<1>5. CASE leave
  <2>1. calls > 0 /\ phase' = "user" /\ UNCHANGED <<config, requested>>
    BY <1>5 DEF leave
  <2> QED
    BY <1>1, <2>1 DEF PoolsInv
<1>6. ASSUME NEW c \in Requests, launch(c) PROVE PoolsInv'
  <2>1. CASE sCurrentScheduler
    <3>1. calls > 0 /\ phase' = "user" /\ UNCHANGED <<config, requested>>
      BY <1>6, <2>1 DEF launch, LaunchInv
    <3> QED
      BY <1>1, <3>1 DEF PoolsInv
  <2>2. CASE ~sCurrentScheduler
    <3>1. /\ ~(calls' > 0) /\ phase' = "check" /\ config' = c /\ requested' = c
      BY <1>6, <2>2 DEF launch, LaunchInv
    <3> QED
      BY <3>1, LaunchAssumption DEF PoolsInv
  <2> QED
    BY <2>1, <2>2
<1>7. CASE UNCHANGED launchVars
  BY <1>1, <1>7 DEF launchVars, PoolsInv
<1> QED
  BY <1>2, <1>3, <1>4, <1>5, <1>6, <1>7 DEF LaunchNext

\* Whatever is asked for: code that runs in a scheduler has pools of at least that
\* size, powers of two, and none of its counters has the index that stands for
\* none, because launch refuses what does not fit.
THEOREM LaunchPools == LaunchSpec => []PoolsFit
<1>1. LaunchInit => PoolsInv
  <2> SUFFICES ASSUME LaunchInit PROVE PoolsInv
    OBVIOUS
  <2>1. phase = "user" /\ ~(calls > 0)
    BY DEF LaunchInit
  <2> QED
    BY <2>1 DEF PoolsInv
<1>2. PoolsInv => PoolsFit
  <2> SUFFICES ASSUME Fits PROVE PoolsFit
    BY DEF PoolsInv, PoolsFit
  <2>1. config["max_num_counters"] \in Nat /\ config["max_num_counters"] < CounterLimit
    BY DEF Fits, Sized
  <2>2. \A i \in 0 .. config["max_num_counters"] - 1 : i % (CounterLimit + 1) < CounterLimit
    <3> SUFFICES ASSUME NEW i \in 0 .. config["max_num_counters"] - 1
                 PROVE  i % (CounterLimit + 1) < CounterLimit
      OBVIOUS
    <3>1. PICK m \in Nat \ {0} : m = CounterLimit + 1
      BY LaunchAssumption
    <3>2. i \in 0 .. m - 1 /\ i < CounterLimit
      BY <2>1, <3>1, LaunchAssumption
    <3>3. i % m = i
      BY <3>2
    <3> QED
      BY <3>1, <3>2, <3>3
  <2> QED
    BY <2>2 DEF Fits, PoolsFit
<1> QED
  BY <1>1, <1>2, PoolsNext, LaunchInitInv, LaunchNextInv, PTL DEF LaunchSpec
-----------------------------------------------------------------------------
(***************************************************************************)
(* The batches of td.hh for ranges, batch counts and integers of any size. *)
(***************************************************************************)
\* A product grows with its factors.
LEMMA ProductMonotone ==
  ASSUME NEW x \in Nat, NEW y \in Nat, NEW z \in Nat, x <= y
  PROVE  x * z <= y * z
  OBVIOUS

\* int_div_ceil is the least number of pieces of size y that reach x.
LEMMA DivCeilBounds ==
  ASSUME NEW x \in Nat \ {0}, NEW y \in Nat \ {0}
  PROVE  /\ DivCeil(x, y) \in Nat \ {0}
         /\ (DivCeil(x, y) - 1) * y < x
         /\ x <= DivCeil(x, y) * y
<1> DEFINE q == (x - 1) \div y
<1>1. q \in Nat
  OBVIOUS
<1>2. q * y <= x - 1 /\ x - 1 < q * y + y
  OBVIOUS
<1>3. DivCeil(x, y) = q + 1
  BY DEF DivCeil
<1> HIDE DEF q
<1>4. (q + 1) * y = q * y + y /\ (q + 1) - 1 = q
  BY <1>1
<1> QED
  BY <1>1, <1>2, <1>3, <1>4

\* A number that an unsigned can hold is not changed by it.
LEMMA UnsignedSmall ==
  ASSUME NEW x \in Nat, x < Modulus PROVE Unsigned(x) = x
  BY BatchesAssumption, WordAssumption DEF Unsigned

LEMMA UnsignedNat ==
  ASSUME NEW x \in Nat PROVE Unsigned(x) \in Nat
  BY BatchesAssumption, WordAssumption DEF Unsigned

LEMMA ProductNat == ASSUME NEW x \in Nat, NEW y \in Nat PROVE x * y \in Nat
  OBVIOUS

\* Rounding up twice gives at most as many batches as were asked for.
LEMMA TwiceRounded ==
  ASSUME NEW x \in Nat \ {0}, NEW m \in Nat \ {0}
  PROVE  /\ DivCeil(x, m) \in 1 .. x
         /\ DivCeil(x, DivCeil(x, m)) <= m
<1> DEFINE z == DivCeil(x, m)
           k == DivCeil(x, z)
<1>1. z \in Nat \ {0} /\ (z - 1) * m < x /\ x <= z * m
  BY DivCeilBounds
<1> HIDE DEF z
<1>2. k \in Nat \ {0} /\ (k - 1) * z < x
  BY <1>1, DivCeilBounds
<1> HIDE DEF k
<1>3. z <= x
  <2>1. SUFFICES ASSUME x <= z - 1 PROVE FALSE
    BY <1>1
  <2>2. 1 * (z - 1) <= m * (z - 1)
    BY <1>1, ProductMonotone
  <2>3. m * (z - 1) = (z - 1) * m
    BY <1>1
  <2> QED
    BY <1>1, <2>1, <2>2, <2>3
<1>4. k <= m
  <2>1. SUFFICES ASSUME m <= k - 1 PROVE FALSE
    BY <1>2
  <2>2. m * z <= (k - 1) * z
    BY <1>1, <1>2, <2>1, ProductMonotone
  <2>3. m * z = z * m /\ m * z \in Nat /\ (k - 1) * z \in Nat
    BY <1>1, <1>2
  <2> QED
    BY <1>1, <1>2, <2>2, <2>3
<1> QED
  BY <1>1, <1>3, <1>4 DEF z, k
-----------------------------------------------------------------------------
LEMMA BatchesInitInv == BatchesInit => BatchesInv
  BY BatchesAssumption, WordAssumption DEF BatchesInit, BatchesInv, BatchesTypeOK, BatchesBounded, Sizes, Progress

LEMMA EnterStep == ASSUME BatchesInv, enter PROVE BatchesInv'
<1> DEFINE z == DivCeil(n, num_batches_max)
           k == DivCeil(n, z)
<1>1. n \in Nat \ {0} /\ num_batches_max \in Nat \ {0}
  BY DEF BatchesInv, BatchesTypeOK
<1>2. z \in 1 .. n /\ z \in Nat \ {0} /\ k <= num_batches_max
  BY <1>1, TwiceRounded
<1>3. k \in Nat \ {0} /\ (k - 1) * z < n /\ n <= k * z
  BY <1>1, <1>2, DivCeilBounds
<1>4. batch_size' = z /\ num_batches' = k
  BY DEF enter, SizeOfBatch
<1> HIDE DEF z, k
<1>5. end' = Least(z, n) /\ pc' = "loop"
  BY <1>2, <1>4 DEF enter
<1>6. UNCHANGED <<args, batch, start, tasks>> /\ tasks = <<>> /\ batch = 0 /\ start = 0
  BY DEF enter, BatchesInv, Progress
<1>7. n' = n /\ num_batches_max' = num_batches_max
  BY <1>6 DEF args
<1>8. Least(z, n) \in Nat
  BY <1>1, <1>2 DEF Least
<1>9. BatchesTypeOK' /\ BatchesBounded'
  BY <1>3, <1>2, <1>4, <1>5, <1>6, <1>7, <1>8 DEF BatchesInv, BatchesTypeOK, BatchesBounded
<1>10. Sizes'
  BY <1>2, <1>3, <1>4, <1>5, <1>7 DEF Sizes
<1>11. Progress'
  <2>1. 0 * z = 0 /\ (0 + 1) * z = z
    BY <1>2
  <2> QED
    BY <1>3, <1>4, <1>5, <1>6, <1>7, <2>1 DEF Progress
<1> QED
  BY <1>9, <1>10, <1>11 DEF BatchesInv

LEMMA LoopStep == ASSUME BatchesInv, loop PROVE BatchesInv'
<1> DEFINE z == batch_size
           b == batch + 1
<1>1. /\ n \in Nat \ {0} /\ num_batches \in Nat /\ batch \in Nat /\ start \in Nat /\ end \in Nat
      /\ z \in 1 .. n /\ z \in Nat /\ (num_batches - 1) * z < n /\ n <= num_batches * z
      /\ tasks \in Seq(Nat \X Nat) /\ b \in Nat /\ n < Modulus
  BY BatchesAssumption, WordAssumption DEF BatchesInv, BatchesTypeOK, Sizes, loop
<1>2. /\ pc = "loop" /\ batch < num_batches /\ tasks' = Append(tasks, <<start, end>>)
      /\ batch' = b /\ start' = Unsigned(b * z) /\ end' = EndOf(b)
      /\ UNCHANGED <<args, batch_size, num_batches, pc>>
  BY DEF loop
<1>3. n' = n /\ num_batches_max' = num_batches_max
  BY <1>2 DEF args
<1>4. b * z \in Nat /\ (b + 1) * z \in Nat
  BY <1>1, ProductNat
<1>5. end' = Least(Unsigned((b + 1) * z), n)
  BY <1>2 DEF EndOf
<1>6. BatchesTypeOK'
  <2>1. Unsigned(b * z) \in Nat /\ Unsigned((b + 1) * z) \in Nat
    BY <1>4, UnsignedNat
  <2>2. start' \in Nat /\ end' \in Nat
    BY <1>1, <1>2, <1>5, <2>1 DEF Least
  <2>3. tasks' \in Seq(Nat \X Nat)
    BY <1>1, <1>2
  <2> QED
    BY <1>1, <1>2, <1>3, <2>2, <2>3 DEF BatchesInv, BatchesTypeOK
<1>7. BatchesBounded' /\ Sizes'
  BY <1>2, <1>3 DEF BatchesInv, BatchesBounded, Sizes
<1>8. Progress'
  <2>1. SUFFICES ASSUME NoWrap'
                 PROVE  /\ Len(tasks') = b
                        /\ b < num_batches => /\ start' = b * z
                                              /\ end' = Least((b + 1) * z, n)
                        /\ \A i \in 1 .. b : tasks'[i] = <<(i - 1) * z, Least(i * z, n)>>
    <3>1. b <= num_batches
      BY <1>1, <1>2
    <3> QED
      BY <1>2, <1>3, <3>1 DEF Progress
  <2>2. n + z <= Modulus
    BY <2>1, <1>2, <1>3 DEF NoWrap
  <2>3. /\ Len(tasks) = batch /\ start = batch * z /\ end = Least((batch + 1) * z, n)
        /\ \A i \in 1 .. batch : tasks[i] = <<(i - 1) * z, Least(i * z, n)>>
    BY <1>2, <2>2 DEF BatchesInv, Progress, NoWrap
  <2>4. ASSUME b < num_batches PROVE start' = b * z /\ end' = Least((b + 1) * z, n)
    <3>1. b * z <= (num_batches - 1) * z /\ (b + 1) * z <= num_batches * z
      BY <1>1, <2>4, ProductMonotone
    <3>2. num_batches * z = (num_batches - 1) * z + z /\ (num_batches - 1) * z \in Nat
      BY <1>1, <2>4
    <3>3. b * z < Modulus /\ (b + 1) * z < Modulus
      BY <1>1, <1>4, <2>2, <3>1, <3>2, BatchesAssumption, WordAssumption
    <3> QED
      BY <1>2, <1>4, <1>5, <3>3, UnsignedSmall
  <2>5. \A i \in 1 .. b : tasks'[i] = <<(i - 1) * z, Least(i * z, n)>>
    <3>1. TAKE i \in 1 .. b
    <3>2. CASE i = b
      <4>1. i - 1 = batch /\ tasks'[i] = <<start, end>>
        BY <1>1, <1>2, <2>3, <3>2
      <4> QED
        BY <2>3, <3>2, <4>1
    <3>3. CASE i # b
      <4>1. i \in 1 .. batch /\ tasks'[i] = tasks[i]
        BY <1>1, <1>2, <2>3, <3>3
      <4> QED
        BY <2>3, <4>1
    <3> QED
      BY <3>2, <3>3
  <2>6. Len(tasks') = b
    BY <1>1, <1>2, <2>3
  <2> QED
    BY <2>4, <2>5, <2>6
<1> QED
  BY <1>6, <1>7, <1>8 DEF BatchesInv

LEMMA SubmitStep == ASSUME BatchesInv, submit PROVE BatchesInv'
<1>1. /\ pc = "loop" /\ pc' = "submitted" /\ batch >= num_batches
      /\ UNCHANGED <<args, batch_size, num_batches, batch, start, end, tasks>>
  BY DEF submit
<1>2. n' = n /\ num_batches_max' = num_batches_max
  BY <1>1 DEF args
<1>3. batch = num_batches
  BY <1>1 DEF BatchesInv, BatchesTypeOK, Progress
<1>4. BatchesTypeOK' /\ BatchesBounded' /\ Sizes'
  BY <1>1, <1>2 DEF BatchesInv, BatchesTypeOK, BatchesBounded, Sizes
<1>5. Progress'
  BY <1>1, <1>2, <1>3 DEF BatchesInv, Progress, NoWrap
<1> QED
  BY <1>4, <1>5 DEF BatchesInv

LEMMA BatchesStutter == ASSUME BatchesInv, UNCHANGED batchesVars PROVE BatchesInv'
  BY DEF BatchesInv, BatchesTypeOK, BatchesBounded, Sizes, Progress, NoWrap, batchesVars, args

LEMMA BatchesInvHolds == BatchesSpec => []BatchesInv
<1>1. BatchesInv /\ [BatchesNext]_batchesVars => BatchesInv'
  BY EnterStep, LoopStep, SubmitStep, BatchesStutter DEF BatchesNext
<1> QED
  BY <1>1, BatchesInitInv, PTL DEF BatchesSpec

\* submit_batched never fails its assertion, whatever the range and the number
\* of batches that it is called with.
THEOREM BatchCountBounded == BatchesSpec => []BatchesBounded
<1>1. BatchesInv => BatchesBounded
  BY DEF BatchesInv
<1> QED
  BY <1>1, BatchesInvHolds, PTL

\* The tasks of submit_batched cover the range 0 to n without gap or overlap,
\* for every n, every number of batches and every width of unsigned, as long as
\* n and one batch together do not exceed that width.
THEOREM BatchesTile == BatchesSpec => []TilesRange
<1>1. BatchesInv => TilesRange
  <2>1. SUFFICES ASSUME BatchesInv, pc = "submitted", NoWrap PROVE Tiling
    BY DEF TilesRange
  <2> DEFINE z == batch_size
             k == num_batches
  <2>2. /\ z \in 1 .. n /\ n \in Nat \ {0} /\ k \in Nat \ {0} /\ z \in Nat \ {0}
        /\ (k - 1) * z < n /\ n <= k * z
    BY <2>1 DEF BatchesInv, BatchesTypeOK, Sizes
  <2>3. Len(tasks) = k /\ \A i \in 1 .. k : tasks[i] = <<(i - 1) * z, Least(i * z, n)>>
    BY <2>1 DEF BatchesInv, Progress
  <2> HIDE DEF z
  <2>4. tasks[1][1] = 0
    <3>1. tasks[1] = <<(1 - 1) * z, Least(1 * z, n)>> /\ (1 - 1) * z = 0
      BY <2>2, <2>3
    <3> QED
      BY <3>1
  <2>5. tasks[k][2] = n
    <3>1. tasks[k] = <<(k - 1) * z, Least(k * z, n)>> /\ k * z \in Nat
      BY <2>2, <2>3, ProductNat
    <3>2. Least(k * z, n) = n
      BY <2>2, <3>1 DEF Least
    <3> QED
      BY <3>1, <3>2
  <2>6. \A i \in 1 .. k : tasks[i][1] < tasks[i][2]
    <3>1. TAKE i \in 1 .. k
    <3>2. (i - 1) * z <= (k - 1) * z /\ i * z = (i - 1) * z + z /\ (i - 1) * z \in Nat
          /\ (k - 1) * z \in Nat
      BY <2>2, ProductMonotone
    <3>3. (i - 1) * z < Least(i * z, n)
      BY <2>2, <3>2 DEF Least
    <3> QED
      BY <2>3, <3>3
  <2>7. \A i \in 1 .. k - 1 : tasks[i][2] = tasks[i + 1][1]
    <3>1. TAKE i \in 1 .. k - 1
    <3>2. i * z <= (k - 1) * z /\ i * z \in Nat /\ (k - 1) * z \in Nat
      BY <2>2, ProductMonotone, ProductNat
    <3>3. Least(i * z, n) = i * z
      BY <2>2, <3>2 DEF Least
    <3>4. tasks[i] = <<(i - 1) * z, Least(i * z, n)>>
          /\ tasks[i + 1] = <<((i + 1) - 1) * z, Least((i + 1) * z, n)>>
      BY <2>2, <2>3
    <3>5. (i + 1) - 1 = i
      BY <2>2
    <3> QED
      BY <3>3, <3>4, <3>5
  <2> QED
    BY <2>2, <2>3, <2>4, <2>5, <2>6, <2>7 DEF Tiling
<1> QED
  BY <1>1, BatchesInvHolds, PTL
-----------------------------------------------------------------------------
(***************************************************************************)
(* The invariant of Future, for any number of futures, cells and counters. *)
(***************************************************************************)
USE NullAssumption

\* The states of the constructor: nothing is alive.
LEMMA FutureInitInv == FutureInit => FutureInv
  BY DEF FutureInit, FutureInv, FutureTypeOK, Idle, OneOwner, OneWaiter, WritesOwnCell, ResultReady,
         SyncOf

LEMMA ConstructInv ==
  ASSUME FutureInv, NEW v \in Futures, constructDefault(v) PROVE FutureInv'
<1> PICK c \in Cells : constructAt(v, c)
                       /\ content' = [content EXCEPT ![c] = "default"]
  BY DEF constructDefault
<1> USE DEF FutureInv, constructDefault, constructAt, localVars, taskVars
<1>1. FutureTypeOK' BY DEF FutureTypeOK
<1>2. Idle' BY DEF FutureTypeOK, Idle
<1>3. OneOwner' BY DEF FutureTypeOK, Idle, OneOwner
<1>4. OneWaiter' BY DEF FutureTypeOK, Idle, OneWaiter, SyncOf
<1>5. WritesOwnCell' BY DEF FutureTypeOK, Idle, WritesOwnCell, SyncOf
<1>6. ResultReady' BY DEF FutureTypeOK, Idle, OneOwner, ResultReady, SyncOf
<1> QED BY <1>1, <1>2, <1>3, <1>4, <1>5, <1>6

LEMMA SubmitInv ==
  ASSUME FutureInv, NEW v \in Futures, submitRaw(v) PROVE FutureInv'
<1> PICK c \in Cells, h \in Handles :
      /\ constructAt(v, c)
      /\ task[h] = "none" /\ \A w \in alive : _sync[w] # h
      /\ content' = [content EXCEPT ![c] = "awaited"]
      /\ task' = [task EXCEPT ![h] = "queued"]
      /\ result_ptr' = [result_ptr EXCEPT ![h] = c]
      /\ res' = v /\ s' = h
      /\ UNCHANGED _sync
  BY DEF submitRaw
<1> USE DEF FutureInv, constructAt
<1>1. FutureTypeOK' BY DEF FutureTypeOK
<1>2. Idle' BY DEF FutureTypeOK, Idle
<1>3. OneOwner' BY DEF FutureTypeOK, Idle, OneOwner
<1>4. OneWaiter' BY DEF FutureTypeOK, Idle, OneWaiter, SyncOf
<1>5. WritesOwnCell' BY DEF FutureTypeOK, Idle, WritesOwnCell, SyncOf
<1>6. ResultReady' BY DEF FutureTypeOK, Idle, OneOwner, ResultReady, SyncOf
<1> QED BY <1>1, <1>2, <1>3, <1>4, <1>5, <1>6

LEMMA SetSyncInv == ASSUME FutureInv, set_sync PROVE FutureInv'
<1> USE DEF FutureInv, set_sync, taskVars
<1>1. FutureTypeOK' BY DEF FutureTypeOK
<1>2. Idle' BY DEF FutureTypeOK, Idle
<1>3. OneOwner' BY DEF FutureTypeOK, Idle, OneOwner
<1>4. \A w \in alive : SyncOf(w)' = SyncOf(w) BY DEF FutureTypeOK, Idle, SyncOf
<1>5. OneWaiter' BY <1>4 DEF OneWaiter
<1>6. WritesOwnCell' BY <1>4 DEF WritesOwnCell
<1>7. ResultReady' BY <1>4 DEF ResultReady
<1> QED BY <1>1, <1>2, <1>3, <1>5, <1>6, <1>7

LEMMA ExecuteInv == ASSUME FutureInv, NEW h \in Handles, execute(h) PROVE FutureInv'
<1> USE DEF FutureInv, execute, futureVars, localVars
<1>1. PICK u \in alive : SyncOf(u) = h /\ _value[u] = result_ptr[h] /\ _value[u] # Null
  BY DEF FutureTypeOK, WritesOwnCell
<1>2. result_ptr[h] \in Cells BY <1>1 DEF FutureTypeOK
<1>3. FutureTypeOK' BY <1>2 DEF FutureTypeOK
<1>4. Idle' BY DEF FutureTypeOK, Idle
<1>5. OneOwner' BY <1>1, <1>2 DEF FutureTypeOK, OneOwner
<1>6. \A w \in alive : SyncOf(w)' = SyncOf(w) BY DEF SyncOf
<1>7. OneWaiter' BY <1>6 DEF OneWaiter
<1>8. WritesOwnCell' BY <1>6 DEF FutureTypeOK, WritesOwnCell
<1>9. ResultReady'
  <2> SUFFICES ASSUME NEW v \in alive, _value[v] # Null, content'[_value[v]] = "awaited"
               PROVE  SyncOf(v) # Null /\ task'[SyncOf(v)] = "queued"
    BY <1>6 DEF ResultReady
  <2>1. _value[v] \in Cells /\ v \in Futures BY DEF FutureTypeOK
  <2>2. _value[v] # result_ptr[h] /\ content[_value[v]] = "awaited"
    BY <2>1, <1>2 DEF FutureTypeOK
  <2>3. SyncOf(v) # Null /\ task[SyncOf(v)] = "queued" BY <2>2 DEF ResultReady
  <2>4. SyncOf(v) # h BY <2>2, <2>3, <1>1 DEF OneWaiter
  <2> QED BY <2>3, <2>4 DEF FutureTypeOK
<1> QED BY <1>3, <1>4, <1>5, <1>7, <1>8, <1>9

LEMMA FinishInv == ASSUME FutureInv, NEW h \in Handles, finish(h) PROVE FutureInv'
<1> USE DEF FutureInv, finish, futureVars, localVars
<1>1. FutureTypeOK' BY DEF FutureTypeOK
<1>2. Idle' BY DEF FutureTypeOK, Idle
<1>3. OneOwner' BY DEF FutureTypeOK, OneOwner
<1>4. \A w \in alive : SyncOf(w)' = SyncOf(w) BY DEF SyncOf
<1>5. OneWaiter' BY <1>4 DEF OneWaiter
<1>6. WritesOwnCell' BY <1>4 DEF FutureTypeOK, WritesOwnCell
<1>7. ResultReady' BY <1>4 DEF FutureTypeOK, ResultReady
<1> QED BY <1>1, <1>2, <1>3, <1>5, <1>6, <1>7

LEMMA GetInv == ASSUME FutureInv, NEW v \in Futures, get(v) PROVE FutureInv'
<1> USE DEF FutureInv, get, taskVars, localVars, Waited
<1>1. FutureTypeOK' BY DEF FutureTypeOK
<1>2. Idle' BY DEF FutureTypeOK, Idle
<1>3. OneOwner' BY DEF FutureTypeOK, OneOwner
<1>4. \A w \in Futures : SyncOf(w) = _sync[w] /\ SyncOf(w)' = _sync'[w]
  BY DEF SyncOf
<1>5. OneWaiter' BY <1>4 DEF FutureTypeOK, OneWaiter
<1>6. WritesOwnCell' BY <1>4 DEF FutureTypeOK, WritesOwnCell
<1>7. ResultReady' BY <1>4 DEF FutureTypeOK, ResultReady
<1> QED BY <1>1, <1>2, <1>3, <1>5, <1>6, <1>7

LEMMA MoveConstructInv ==
  ASSUME FutureInv, NEW v \in Futures, NEW w \in Futures, moveConstruct(v, w) PROVE FutureInv'
<1> USE DEF FutureInv, moveConstruct, taskVars, localVars
<1>0. v # w /\ _sync[v] = Null /\ _value[v] = Null BY DEF Idle
<1>1. FutureTypeOK' BY DEF FutureTypeOK
<1>2. Idle' BY <1>0 DEF FutureTypeOK, Idle
<1>3. OneOwner' BY <1>0 DEF FutureTypeOK, OneOwner
<1>4. \A u \in Futures : SyncOf(u) = _sync[u] /\ SyncOf(u)' = _sync'[u]
  BY DEF SyncOf
<1>5. OneWaiter' BY <1>0, <1>4 DEF FutureTypeOK, OneWaiter
<1>6. WritesOwnCell' BY <1>0, <1>4 DEF FutureTypeOK, WritesOwnCell
<1>7. ResultReady' BY <1>0, <1>4 DEF FutureTypeOK, ResultReady
<1> QED BY <1>1, <1>2, <1>3, <1>5, <1>6, <1>7

\* A wait that is over: no task is left to write into the cell.
LEMMA NoTaskLeft ==
  ASSUME FutureInv, res = Null, NEW v \in alive, Waited(v), NEW h \in Handles,
         task[h] # "none"
  PROVE  \E u \in alive \ {v} : _sync[u] = h /\ _value[u] = result_ptr[h]
                               /\ _value[u] # Null /\ _value[u] # _value[v]
<1> USE DEF FutureInv
<1>1. PICK u \in alive : SyncOf(u) = h /\ _value[u] = result_ptr[h] /\ _value[u] # Null
  BY DEF WritesOwnCell
<1>2. _sync[u] = h BY <1>1 DEF SyncOf, FutureTypeOK
<1>3. u # v BY <1>2 DEF Waited, FutureTypeOK
<1> QED BY <1>1, <1>2, <1>3 DEF OneOwner

LEMMA MoveAssignInv ==
  ASSUME FutureInv, NEW v \in Futures, NEW w \in Futures, moveAssign(v, w) PROVE FutureInv'
<1> USE DEF FutureInv, moveAssign, taskVars, localVars
<1>1. FutureTypeOK' BY DEF FutureTypeOK, Freed
<1>2. Idle' BY DEF FutureTypeOK, Idle
<1>3. OneOwner' BY DEF FutureTypeOK, OneOwner, Freed
<1>4. \A u \in Futures : SyncOf(u) = _sync[u] /\ SyncOf(u)' = _sync'[u]
  BY DEF SyncOf
<1>5. OneWaiter' BY <1>4 DEF FutureTypeOK, OneWaiter
<1>6. WritesOwnCell'
  <2> SUFFICES ASSUME NEW h \in Handles, task[h] # "none"
               PROVE  \E u \in alive : /\ _sync'[u] = h /\ _value'[u] = result_ptr[h]
                                       /\ _value'[u] # Null
    BY <1>4 DEF WritesOwnCell, FutureTypeOK
  <2>1. PICK u \in alive \ {v} : _sync[u] = h /\ _value[u] = result_ptr[h] /\ _value[u] # Null
    BY NoTaskLeft
  <2>2. CASE u = w BY <2>1, <2>2 DEF FutureTypeOK
  <2>3. CASE u # w BY <2>1, <2>3 DEF FutureTypeOK
  <2> QED BY <2>2, <2>3
<1>7. ResultReady' BY <1>4 DEF FutureTypeOK, ResultReady, OneOwner, Freed
<1> QED BY <1>1, <1>2, <1>3, <1>5, <1>6, <1>7

LEMMA DestroyInv == ASSUME FutureInv, NEW v \in Futures, destroy(v) PROVE FutureInv'
<1> USE DEF FutureInv, destroy, taskVars, localVars
<1>1. FutureTypeOK' BY DEF FutureTypeOK, Freed
<1>2. Idle' BY DEF FutureTypeOK, Idle
<1>3. OneOwner' BY DEF FutureTypeOK, OneOwner, Freed
<1>4. \A u \in Futures : SyncOf(u) = _sync[u] /\ SyncOf(u)' = _sync'[u]
  BY DEF SyncOf
<1>5. OneWaiter' BY <1>4 DEF FutureTypeOK, OneWaiter
<1>6. WritesOwnCell' BY <1>4, NoTaskLeft DEF FutureTypeOK, WritesOwnCell
<1>7. ResultReady' BY <1>4 DEF FutureTypeOK, ResultReady, OneOwner, Freed
<1> QED BY <1>1, <1>2, <1>3, <1>5, <1>6, <1>7

LEMMA FutureStutter == ASSUME FutureInv, UNCHANGED allFutureVars PROVE FutureInv'
  BY DEF FutureInv, allFutureVars, futureVars, taskVars, localVars, FutureTypeOK, Idle, OneOwner,
         OneWaiter, WritesOwnCell, ResultReady, SyncOf

\* Whatever the order of moves, waits, destructors and running tasks, the
\* invariant of the futures holds.
THEOREM FutureInvariant == FutureSpec => []FutureInv
<1>1. FutureInit => FutureInv BY FutureInitInv
<1>2. FutureInv /\ [FutureNext]_allFutureVars => FutureInv'
  BY ConstructInv, SubmitInv, SetSyncInv, ExecuteInv, FinishInv, GetInv,
     MoveConstructInv, MoveAssignInv, DestroyInv, FutureStutter DEF FutureNext
<1> QED BY <1>1, <1>2, PTL DEF FutureSpec

\* A task never writes into a cell that its future has given up: the waits in
\* the destructor and in the move assignment are enough.
THEOREM FutureWritesOwnCell == FutureSpec => []WritesOwnCell
<1>1. FutureInv => WritesOwnCell BY DEF FutureInv
<1> QED BY <1>1, FutureInvariant, PTL

\* Moves, assignments and destructors neither leak a cell nor free it twice.
THEOREM FutureOwners == FutureSpec => []OneOwner
<1>1. FutureInv => OneOwner BY DEF FutureInv
<1> QED BY <1>1, FutureInvariant, PTL

\* No two futures stand for one counter, also while submit has not stored it yet.
THEOREM FutureWaiters == FutureSpec => []OneWaiter
<1>1. FutureInv => OneWaiter BY DEF FutureInv
<1> QED BY <1>1, FutureInvariant, PTL

\* The reference that get returns is to the result of the future's own task.
THEOREM FutureResultReady == FutureSpec => []ResultReady
<1>1. FutureInv => ResultReady BY DEF FutureInv
<1> QED BY <1>1, FutureInvariant, PTL
-----------------------------------------------------------------------------
(***************************************************************************)
(* The version ring, for any number of slots and of threads.               *)
(***************************************************************************)
\* Division with a rest is unique.
LEMMA UniqueRest ==
  ASSUME NEW d \in Nat \ {0}, NEW p \in Int, NEW q \in Int, NEW u \in 0 .. d - 1, NEW v \in 0 .. d - 1,
         d * p + u = d * q + v
  PROVE  p = q /\ u = v
<1>1. ASSUME p < q PROVE FALSE
  <2>1. q - p - 1 \in Nat /\ d * (q - p - 1) \in Nat
    BY <1>1
  <2>2. d * q = d * p + d + d * (q - p - 1)
    OBVIOUS
  <2> QED
    BY <2>1, <2>2
<1>2. ASSUME q < p PROVE FALSE
  <2>1. p - q - 1 \in Nat /\ d * (p - q - 1) \in Nat
    BY <1>2
  <2>2. d * p = d * q + d + d * (p - q - 1)
    OBVIOUS
  <2> QED
    BY <2>1, <2>2
<1>3. p = q
  BY <1>1, <1>2
<1> QED
  BY <1>3

LEMMA Rest ==
  ASSUME NEW x \in Int, NEW d \in Nat \ {0}
  PROVE  /\ x % d \in 0 .. d - 1
         /\ x \div d \in Int
         /\ x = d * (x \div d) + (x % d)
  OBVIOUS

\* The rest does not change with a multiple of the divisor.
LEMMA RestOfSum ==
  ASSUME NEW x \in Int, NEW d \in Nat \ {0}, NEW k \in Int
  PROVE  (x + d * k) % d = x % d
<1> DEFINE y == x + d * k
<1>1. y \in Int
  OBVIOUS
<1>2. PICK p \in Int, u \in 0 .. d - 1 : x = d * p + u /\ u = x % d
  BY Rest
<1>3. PICK q \in Int, v \in 0 .. d - 1 : y = d * q + v /\ v = y % d
  BY <1>1, Rest
<1>4. d * (p + k) + u = d * q + v /\ p + k \in Int
  BY <1>2, <1>3
<1> HIDE DEF y
<1>5. u = v
  BY <1>4, UniqueRest
<1> QED
  BY <1>2, <1>3, <1>5 DEF y
-----------------------------------------------------------------------------
\* The number of acquires since the one that gave out handle h.
Age(h) == Unsigned(mVersion - 1 - h)

Versions == 0 .. Modulus - 1

RingInv ==
  /\ mVersion \in Versions
  /\ mData \in [0 .. N - 1 -> Versions \cup {None}]
  /\ writing \in [RingUsers -> Versions \cup {None}]
  /\ DOMAIN held \subseteq Versions
  /\ \A h \in DOMAIN held : held[h] = Age(h) /\ held[h] < Modulus - 1
  /\ \A u \in RingUsers : writing[u] # None => Age(writing[u]) < N
  /\ \A h \in DOMAIN held : Age(h) < N => mData[h % N] = h

\* No acquire comes round to a slot that another thread is still writing.
NoLap == \A t \in RingUsers : acquire(t) =>
  \A u \in RingUsers : writing[u] # None => writing[u] % N # mVersion % N

LEMMA RingConstants ==
  /\ N \in Nat \ {0} /\ Modulus \in Nat \ {0} /\ N < Modulus - 1
  /\ MaxAge \in Nat /\ MaxAge < Modulus - 1
  /\ \E k \in Nat : Modulus = N * k
<1>1. /\ N \in Nat \ {0} /\ Modulus \in Nat \ {0} /\ N < (Modulus - 1) \div 2
      /\ MaxAge \in Nat /\ MaxAge < Modulus - 1 /\ Modulus % N = 0
  BY RingAssumption, WordAssumption
<1>2. N < Modulus - 1
  BY <1>1
<1>3. Modulus = N * (Modulus \div N) + (Modulus % N) /\ Modulus \div N \in Int
  BY <1>1, Rest
<1>4. Modulus \div N \in Nat
  BY <1>1
<1> QED
  BY <1>1, <1>2, <1>3, <1>4

\* How the age of a handle tells where it is.
LEMMA AgeOf ==
  ASSUME mVersion \in Versions, NEW h \in Versions
  PROVE  /\ Age(h) \in 0 .. Modulus - 1
         /\ h = mVersion - 1 - Age(h) \/ h = mVersion - 1 - Age(h) + Modulus
<1>1. Modulus \in Nat \ {0}
  BY RingConstants
<1>2. mVersion - 1 - h \in Int /\ mVersion - 1 - h < Modulus /\ mVersion - 1 - h >= -Modulus
  BY <1>1 DEF Versions
<1>3. \/ mVersion - 1 - h >= 0 /\ Age(h) = mVersion - 1 - h
      \/ mVersion - 1 - h < 0 /\ Age(h) = mVersion - 1 - h + Modulus
  BY <1>1, <1>2 DEF Age, Unsigned
<1> QED
  BY <1>1, <1>2, <1>3 DEF Versions

\* The other direction.
LEMMA AgeIs ==
  ASSUME mVersion \in Versions, NEW h \in Versions, NEW x \in 0 .. Modulus - 1,
         h = mVersion - 1 - x \/ h = mVersion - 1 - x + Modulus
  PROVE  Age(h) = x
<1>1. Modulus \in Nat \ {0}
  BY RingConstants
<1>2. mVersion - 1 - h = x \/ mVersion - 1 - h = x - Modulus
  BY <1>1 DEF Versions
<1> QED
  BY <1>1, <1>2 DEF Age, Unsigned

\* Two handles of one slot are at least N acquires apart.
LEMMA OneSlot ==
  ASSUME mVersion \in Versions, NEW g \in Versions, NEW h \in Versions,
         Age(g) < N, Age(h) < N, g % N = h % N
  PROVE  g = h
<1>1. N \in Nat \ {0} /\ Modulus \in Nat \ {0}
  BY RingConstants
<1>2. PICK k \in Nat : Modulus = N * k
  BY RingConstants
<1>3. PICK x \in 0 .. N - 1, y \in 0 .. N - 1 :
        /\ x = Age(g) /\ y = Age(h)
        /\ g = mVersion - 1 - x \/ g = mVersion - 1 - x + Modulus
        /\ h = mVersion - 1 - y \/ h = mVersion - 1 - y + Modulus
  BY <1>1, AgeOf
<1>4. g \in Int /\ h \in Int /\ mVersion \in Int
  BY DEF Versions
<1>5. PICK p \in Int, q \in Int, u \in 0 .. N - 1 : g = N * p + u /\ h = N * q + u
  <2>1. g = N * (g \div N) + (g % N) /\ g \div N \in Int /\ g % N \in 0 .. N - 1
    BY <1>1, <1>4, Rest
  <2>2. h = N * (h \div N) + (h % N) /\ h \div N \in Int
    BY <1>1, <1>4, Rest
  <2> QED
    BY <2>1, <2>2
<1>6. PICK j \in Int : y - x = N * j
  <2>1. \/ y - x = g - h \/ y - x = g - h - Modulus \/ y - x = g - h + Modulus
    BY <1>1, <1>3, <1>4
  <2>2. g - h = N * (p - q) /\ g - h - Modulus = N * (p - q - k) /\ g - h + Modulus = N * (p - q + k)
    BY <1>1, <1>2, <1>4, <1>5
  <2>3. p - q \in Int /\ p - q - k \in Int /\ p - q + k \in Int
    OBVIOUS
  <2> QED
    BY <2>1, <2>2, <2>3
<1>7. N * 0 + y = N * j + x
  BY <1>1, <1>6
<1>8. x = y
  BY <1>1, <1>7, UniqueRest
<1> QED
  BY <1>1, <1>3, <1>4, <1>8 DEF Versions

LEMMA RingInitInv == RingInit => RingInv
<1>1. Modulus \in Nat \ {0}
  BY RingConstants
<1> QED
  BY <1>1 DEF RingInit, RingInv, Versions

\* An acquire makes every handle one older, and the new one is the youngest.
LEMMA AcquireAges ==
  ASSUME mVersion \in Versions, mVersion' = Unsigned(mVersion + 1)
  PROVE  /\ mVersion' \in Versions
         /\ Age(mVersion) = Modulus - 1
         /\ Unsigned(mVersion' - 1 - mVersion) = 0
         /\ \A h \in Versions : Age(h) < Modulus - 1 => Unsigned(mVersion' - 1 - h) = Age(h) + 1
<1>1. Modulus \in Nat \ {0}
  BY RingConstants
<1>2. \/ mVersion + 1 < Modulus /\ mVersion' = mVersion + 1
      \/ mVersion + 1 = Modulus /\ mVersion' = 0
  BY <1>1 DEF Versions, Unsigned
<1>3. mVersion' \in Versions
  BY <1>1, <1>2 DEF Versions
<1>4. Age(mVersion) = Modulus - 1
  BY <1>1, AgeIs DEF Versions
<1>5. Unsigned(mVersion' - 1 - mVersion) = 0
  BY <1>1, <1>2 DEF Versions, Unsigned
<1>6. ASSUME NEW h \in Versions, Age(h) < Modulus - 1
      PROVE  Unsigned(mVersion' - 1 - h) = Age(h) + 1
  <2>1. PICK x \in 0 .. Modulus - 1 :
          x = Age(h) /\ (h = mVersion - 1 - x \/ h = mVersion - 1 - x + Modulus)
    BY AgeOf
  <2>2. /\ h \in Int /\ x + 1 \in 0 .. Modulus - 1 /\ mVersion \in Int
        /\ h \in 0 .. Modulus - 1 /\ mVersion' \in 0 .. Modulus - 1
    BY <1>1, <1>3, <1>6, <2>1 DEF Versions
  <2>3. mVersion' - 1 - h = x + 1 \/ mVersion' - 1 - h = x + 1 - Modulus
    BY <1>1, <1>2, <2>1, <2>2
  <2> QED
    BY <1>1, <2>1, <2>2, <2>3 DEF Unsigned
<1> QED
  BY <1>3, <1>4, <1>5, <1>6

LEMMA AcquireInv ==
  ASSUME RingInv, NoLap, NEW t \in RingUsers, acquire(t) PROVE RingInv'
<1>1. /\ N \in Nat \ {0} /\ Modulus \in Nat \ {0} /\ N < Modulus - 1
      /\ MaxAge \in Nat /\ MaxAge < Modulus - 1
  BY RingConstants
<1>2. /\ mVersion \in Versions /\ mVersion' = Unsigned(mVersion + 1) /\ mData' = mData
      /\ writing' = [writing EXCEPT ![t] = mVersion]
      /\ DOMAIN held' = {g \in DOMAIN held : held[g] < MaxAge}
      /\ \A h \in DOMAIN held' : held'[h] = held[h] + 1
  BY DEF acquire, RingInv
<1>3. /\ mVersion' \in Versions /\ Age(mVersion) = Modulus - 1
      /\ Unsigned(mVersion' - 1 - mVersion) = 0
      /\ \A h \in Versions : Age(h) < Modulus - 1 => Unsigned(mVersion' - 1 - h) = Age(h) + 1
  BY <1>2, AcquireAges
<1>4. \A h \in Versions : Age(h)' = Unsigned(mVersion' - 1 - h)
  BY DEF Age, Unsigned
<1>5. \A h \in Versions : Age(h) \in 0 .. Modulus - 1
  BY <1>2, AgeOf
<1>6. ASSUME NEW h \in DOMAIN held'
      PROVE  /\ held'[h] = Age(h)' /\ held'[h] < Modulus - 1
             /\ Age(h)' < N => mData'[h % N] = h
  <2>1. h \in DOMAIN held /\ h \in Versions /\ held[h] < MaxAge /\ held[h] = Age(h)
    BY <1>2, <1>6 DEF RingInv
  <2>2. Age(h)' = Age(h) + 1
    BY <1>1, <1>3, <1>4, <1>5, <2>1
  <2>3. held'[h] = Age(h)' /\ held'[h] < Modulus - 1
    BY <1>1, <1>2, <1>5, <1>6, <2>1, <2>2
  <2>4. Age(h)' < N => mData'[h % N] = h
    BY <1>1, <1>2, <1>5, <2>1, <2>2 DEF RingInv
  <2> QED
    BY <2>3, <2>4
<1>7. ASSUME NEW u \in RingUsers, writing'[u] # None PROVE (Age(writing[u]) < N)'
  <2>1. CASE u = t
    <3>1. writing'[u] = mVersion
      BY <1>2, <2>1 DEF RingInv
    <3> QED
      BY <1>1, <1>3, <3>1 DEF Age, Unsigned
  <2>2. CASE u # t
    <3>1. writing'[u] = writing[u] /\ writing[u] \in Versions /\ Age(writing[u]) < N
      BY <1>2, <1>7, <2>2 DEF RingInv
    <3>2. PICK w \in Versions : w = writing[u] /\ w = writing'[u] /\ w % N # mVersion % N /\ Age(w) < N
      BY <1>7, <3>1 DEF NoLap
    <3>3. Age(w) # N - 1
      <4> SUFFICES ASSUME Age(w) = N - 1 PROVE w % N = mVersion % N
        BY <3>2
      <4>1. w = mVersion - N \/ w = mVersion - N + Modulus
        <5>1. w = mVersion - 1 - Age(w) \/ w = mVersion - 1 - Age(w) + Modulus
          BY <1>2, AgeOf
        <5>2. w \in Int /\ mVersion \in Int
          BY <1>2 DEF Versions
        <5> QED
          BY <1>1, <5>1, <5>2
      <4>2. PICK k \in Nat : Modulus = N * k
        BY RingConstants
      <4>3. mVersion \in Int /\ w \in Int
        BY <1>2 DEF Versions
      <4>4. CASE w = mVersion - N
        <5>1. PICK j \in Int : w = mVersion + N * j
          BY <1>1, <4>3, <4>4, N * (-1) = -N
        <5> QED
          BY <1>1, <4>3, <5>1, RestOfSum
      <4>5. CASE w = mVersion - N + Modulus
        <5>1. w = mVersion + N * (k - 1) /\ k - 1 \in Int
          BY <1>1, <4>2, <4>3, <4>5
        <5> QED
          BY <1>1, <4>3, <5>1, RestOfSum
      <4> QED
        BY <4>1, <4>4, <4>5
    <3>4. Age(w)' = Age(w) + 1 /\ Age(w) \in Int
      BY <1>1, <1>3, <1>4, <1>5, <3>2
    <3>5. Age(w)' < N
      BY <1>1, <3>2, <3>3, <3>4
    <3> QED
      BY <3>2, <3>5 DEF Age
  <2> QED
    BY <2>1, <2>2
<1>8. /\ mData' \in [0 .. N - 1 -> Versions \cup {None}]
      /\ writing' \in [RingUsers -> Versions \cup {None}]
      /\ DOMAIN held' \subseteq Versions
  BY <1>2 DEF RingInv
<1>9. Versions' = Versions
  BY DEF Versions
<1> QED
  BY <1>3, <1>6, <1>7, <1>8, <1>9 DEF RingInv

LEMMA WriteInv ==
  ASSUME RingInv, NEW t \in RingUsers, write(t) PROVE RingInv'
<1>1. N \in Nat \ {0} /\ Modulus \in Nat \ {0} /\ N < Modulus - 1
  BY RingConstants
<1>2. PICK g \in Versions : g = writing[t] /\ Age(g) < N
  BY DEF write, RingInv
<1>3. /\ mVersion \in Versions /\ mVersion' = mVersion
      /\ mData' = [mData EXCEPT ![g % N] = g] /\ writing' = [writing EXCEPT ![t] = None]
      /\ DOMAIN held' = DOMAIN held \cup {g}
      /\ \A h \in DOMAIN held' : held'[h] = IF h = g THEN Age(g) ELSE held[h]
  BY <1>2 DEF write, RingInv, Age
<1>4. \A h \in Versions : Age(h)' = Age(h) /\ Age(h) \in 0 .. Modulus - 1
  BY <1>3, AgeOf DEF Age
<1>5. g % N \in 0 .. N - 1 /\ \A h \in Versions : h % N \in 0 .. N - 1
  <2>1. \A h \in Versions : h \in Int
    BY <1>1 DEF Versions
  <2> QED
    BY <1>1, <2>1, Rest
<1>6. DOMAIN held' \subseteq Versions
  BY <1>3 DEF RingInv
<1>7. ASSUME NEW h \in DOMAIN held'
      PROVE  /\ held'[h] = Age(h)' /\ held'[h] < Modulus - 1
             /\ Age(h)' < N => mData'[h % N] = h
  <2>1. CASE h = g
    BY <1>1, <1>2, <1>3, <1>4, <1>5, <2>1 DEF RingInv
  <2>2. CASE h # g
    <3>1. h \in DOMAIN held /\ h \in Versions /\ held'[h] = held[h]
      BY <1>3, <1>6, <1>7, <2>2
    <3>2. ASSUME Age(h) < N PROVE mData'[h % N] = h
      <4>1. h % N # g % N
        BY <1>2, <1>3, <2>2, <3>1, <3>2, OneSlot
      <4> QED
        BY <1>3, <1>5, <3>1, <3>2, <4>1 DEF RingInv
    <3> QED
      BY <1>4, <3>1, <3>2 DEF RingInv
  <2> QED
    BY <2>1, <2>2
<1>8. \A u \in RingUsers : writing'[u] # None => (Age(writing[u]) < N)'
  <2> TAKE u \in RingUsers
  <2> HAVE writing'[u] # None
  <2>1. writing'[u] = writing[u] /\ writing[u] # None /\ writing[u] \in Versions
    BY <1>3 DEF RingInv
  <2>2. PICK w \in Versions : w = writing[u] /\ w = writing'[u] /\ Age(w) < N
    BY <2>1 DEF RingInv
  <2>3. Age(w)' < N
    BY <1>4, <2>2
  <2> QED
    BY <2>2, <2>3 DEF Age
<1>9. /\ mData' \in [0 .. N - 1 -> Versions \cup {None}]
      /\ writing' \in [RingUsers -> Versions \cup {None}]
  BY <1>2, <1>3 DEF RingInv
<1>10. Versions' = Versions
  BY DEF Versions
<1> QED
  BY <1>3, <1>6, <1>7, <1>8, <1>9, <1>10 DEF RingInv

LEMMA ResetInv == ASSUME RingInv, reset PROVE RingInv'
<1>1. Modulus \in Nat \ {0}
  BY RingConstants
<1>2. /\ mVersion' = 0 /\ DOMAIN held' = {} /\ UNCHANGED <<mData, writing>>
      /\ \A u \in RingUsers : writing[u] = None
  BY DEF reset
<1> QED
  BY <1>1, <1>2 DEF RingInv, Versions

LEMMA RingInvariant == RingSpec /\ [][NoLap]_ringVars => []RingInv
<1>1. RingInv /\ [RingNext]_ringVars /\ [NoLap]_ringVars => RingInv'
  <2> SUFFICES ASSUME RingInv, [RingNext]_ringVars, [NoLap]_ringVars PROVE RingInv'
    OBVIOUS
  <2>1. CASE UNCHANGED ringVars
    BY <2>1 DEF ringVars, RingInv, Age, Unsigned, Versions
  <2>2. CASE reset
    BY <2>2, ResetInv
  <2>3. ASSUME NEW t \in RingUsers, acquire(t), NoLap PROVE RingInv'
    BY <2>3, AcquireInv
  <2>4. ASSUME NEW t \in RingUsers, write(t) PROVE RingInv'
    BY <2>4, WriteInv
  <2> QED
    BY <2>1, <2>2, <2>3, <2>4 DEF RingNext
<1> QED
  BY <1>1, RingInitInv, PTL DEF RingSpec

\* isExpired compares versions, not ages.
LEMMA ExpiredByAge ==
  ASSUME RingInv, NEW h \in DOMAIN held PROVE isExpired(h) <=> held[h] >= N
<1>1. N \in Nat \ {0} /\ Modulus \in Nat \ {0}
  BY RingConstants
<1>2. h \in Versions /\ mVersion \in Versions /\ held[h] = Age(h) /\ held[h] < Modulus - 1
  BY DEF RingInv
<1>3. PICK x \in 0 .. Modulus - 1 :
        x = held[h] /\ (h = mVersion - 1 - x \/ h = mVersion - 1 - x + Modulus)
  BY <1>2, AgeOf
<1>4. x + 1 \in 0 .. Modulus - 1
  BY <1>1, <1>2, <1>3
<1>5. mVersion - h = x + 1 \/ mVersion - h = x + 1 - Modulus
  BY <1>1, <1>2, <1>3 DEF Versions
<1>6. Unsigned(mVersion - h) = x + 1
  BY <1>1, <1>4, <1>5 DEF Unsigned
<1> QED
  BY <1>1, <1>3, <1>6 DEF isExpired

\* For every number of slots, every number of threads and every width of the
\* version: a handle expires with the acquire that takes its slot, also after the
\* version has wrapped, if no acquire laps a thread that is still writing.
THEOREM RingExpires == RingSpec /\ [][NoLap]_ringVars => []ExpiresWithSlot
<1>1. RingInv => ExpiresWithSlot
  BY ExpiredByAge DEF ExpiresWithSlot
<1> QED
  BY <1>1, RingInvariant, PTL

\* Under the same hypothesis a handle that is not expired finds its own value.
THEOREM RingSlots == RingSpec /\ [][NoLap]_ringVars => []SlotIsOwn
<1>1. RingInv => SlotIsOwn
  <2> SUFFICES ASSUME RingInv, NEW h \in DOMAIN held, ~isExpired(h) PROVE mData[h % N] = h
    BY DEF SlotIsOwn
  <2>1. ~(held[h] >= N) /\ held[h] = Age(h) /\ h \in Versions /\ mVersion \in Versions
    BY ExpiredByAge DEF RingInv
  <2>2. Age(h) \in 0 .. Modulus - 1 /\ N \in Nat \ {0}
    BY <2>1, AgeOf, RingConstants
  <2>3. Age(h) < N
    BY <2>1, <2>2
  <2> QED
    BY <2>3 DEF RingInv
<1> QED
  BY <1>1, RingInvariant, PTL

\* One thread alone never laps itself.
LEMMA AloneNoLap == ASSUME NEW u, RingUsers = {u} PROVE NoLap
  BY DEF NoLap, acquire
==============================================================================
