------------------------ MODULE VolumeServiceProofs ------------------------
(***************************************************************************)
(* Proofs about VolumeService and the sizes and zones of Params, for every *)
(* width of the integers and every granularity that is made of whole GiB.  *)
(***************************************************************************)
EXTENDS VolumeService, FunctionTheorems, FiniteSetTheorems, SequenceTheorems,
        WellFoundedInduction, TLAPS

-----------------------------------------------------------------------------
(* Division. *)

LEMMA DivMod ==
    ASSUME NEW n \in Int, NEW b \in Nat \ {0}
    PROVE  n \div b \in Int /\ n % b \in 0..(b - 1) /\ n = b * (n \div b) + (n % b)
OBVIOUS

LEMMA MulMono ==
    ASSUME NEW b \in Nat \ {0}, NEW k \in Int, NEW q \in Int, k < q
    PROVE  b * k + b <= b * q
<1>1. q - k - 1 \in Nat
  OBVIOUS
<1>2. b * (q - k - 1) \in Nat
  BY <1>1
<1>3. b * (q - k - 1) = b * q - b * k - b
  OBVIOUS
<1> QED  BY <1>2, <1>3

(* Quotient and remainder are unique. *)
LEMMA DivUnique ==
    ASSUME NEW n \in Int, NEW b \in Nat \ {0}, NEW k \in Int, NEW r \in 0..(b - 1), n = b * k + r
    PROVE  n \div b = k /\ n % b = r
<1> DEFINE q == n \div b
           m == n % b
<1>1. b * k \in Int
  OBVIOUS
<1>2. q \in Int /\ m \in 0..(b - 1) /\ n = b * q + m /\ b * q \in Int
  BY DivMod
<1> HIDE DEF q, m
<1>3. ~(k < q)
  <2> SUFFICES ASSUME k < q PROVE FALSE  OBVIOUS
  <2>1. b * k + b <= b * q
    BY <1>2, MulMono
  <2> QED  BY <1>1, <1>2, <2>1
<1>4. ~(q < k)
  <2> SUFFICES ASSUME q < k PROVE FALSE  OBVIOUS
  <2>1. b * q + b <= b * k
    BY <1>2, MulMono
  <2> QED  BY <1>1, <1>2, <2>1
<1>5. q = k
  BY <1>2, <1>3, <1>4
<1>6. m = r
  BY <1>1, <1>2, <1>5
<1> QED  BY <1>5, <1>6 DEF q, m

(* n is a multiple of b. *)
Multiple(n, b) == \E k \in Int : n = b * k

LEMMA ModZero == ASSUME NEW n \in Int, NEW b \in Nat \ {0} PROVE n % b = 0 <=> Multiple(n, b)
<1>1. ASSUME n % b = 0 PROVE Multiple(n, b)
  <2>1. n \div b \in Int /\ n = b * (n \div b) + 0
    BY <1>1, DivMod
  <2>2. b * (n \div b) \in Int
    BY <2>1
  <2> QED  BY <2>1, <2>2 DEF Multiple
<1>2. ASSUME Multiple(n, b) PROVE n % b = 0
  <2>1. PICK k \in Int : n = b * k
    BY <1>2 DEF Multiple
  <2>2. n = b * k + 0 /\ 0 \in 0..(b - 1)
    BY <2>1
  <2> QED  BY <2>2, DivUnique
<1> QED  BY <1>1, <1>2

(* Two different multiples of b are at least b apart. *)
LEMMA Apart ==
    ASSUME NEW b \in Nat \ {0}, NEW m \in Int, NEW n \in Int, Multiple(m, b), Multiple(n, b), m < n
    PROVE  m + b <= n
<1>1. PICK j \in Int : m = b * j
  BY DEF Multiple
<1>2. PICK k \in Int : n = b * k
  BY DEF Multiple
<1>3. ~(k < j) /\ k # j
  BY <1>1, <1>2, MulMono
<1> QED  BY <1>1, <1>2, <1>3, MulMono

-----------------------------------------------------------------------------
(* Sizes. *)

Range64 == [required : 0..MaxInt64, limit : 0..MaxInt64]

(* What roundUp makes of a size: a multiple of the granularity that is no smaller, or, where
   that exceeds 64 bits, a negative number. *)
LEMMA RoundUp ==
    ASSUME NEW value \in 0..MaxInt64
    PROVE  LET n == roundUp(value, VolumeGranularityBytes) IN
           /\ n \in Int
           /\ n < 0 \/ (n \in value..MaxInt64 /\ Multiple(n, VolumeGranularityBytes))
           /\ value + VolumeGranularityBytes <= MaxInt64 => n >= 0
<1> DEFINE g == VolumeGranularityBytes
           q == value \div g
           w == (q + 1) * g
<1>0. MaxInt64 \in Nat /\ g \in 1..MaxInt64 /\ value \in Int
  BY SizesAssumption
<1>1. CASE value % g = 0
  <2>1. Multiple(value, g)
    BY <1>0, <1>1, ModZero
  <2> QED  BY <1>0, <1>1, <2>1 DEF roundUp
<1>2. CASE value % g # 0
  <2>1. q \in Int /\ value % g \in 0..(g - 1) /\ value = g * q + (value % g)
    BY <1>0, DivMod
  <2> HIDE DEF g, q
  <2>2. g * q \in Int /\ w = g * q + g /\ w = g * (q + 1) /\ w \in Int
    BY <1>0, <2>1
  <2> HIDE DEF w
  <2>3. value < w /\ w <= value + g - 1
    BY <1>0, <1>2, <2>1, <2>2
  <2>4. Multiple(w, g)
    BY <2>1, <2>2 DEF Multiple
  <2>5. roundUp(value, g) = Wrap(w)
    BY <1>2 DEF roundUp, w, q
  <2>6. Wrap(w) = IF w > MaxInt64 THEN w - 2 * (MaxInt64 + 1) ELSE w
    BY DEF Wrap
  <2>7. CASE w > MaxInt64
    <3>1. roundUp(value, g) = w - 2 * (MaxInt64 + 1)
      BY <2>5, <2>6, <2>7
    <3>2. w - 2 * (MaxInt64 + 1) < 0 /\ ~(value + g <= MaxInt64)
      BY <1>0, <2>2, <2>3, <2>7
    <3> QED  BY <1>0, <2>2, <3>1, <3>2 DEF g
  <2>8. CASE ~(w > MaxInt64)
    <3>1. roundUp(value, g) = w
      BY <2>5, <2>6, <2>8
    <3> QED  BY <1>0, <2>2, <2>3, <2>4, <2>8, <3>1 DEF g
  <2> QED  BY <2>7, <2>8
<1> QED  BY <1>1, <1>2

(* The size that a request asks for, in whole GiB, is the rounded one, exactly, or no size. *)
LEMMA AskedSize ==
    ASSUME NEW range \in Range64
    PROVE  LET bytes == Rounded(range)
               size  == bytesToGiB(bytes) * bytesPerGiB
           IN /\ bytes \in Int /\ size \in Int
              /\ bytes < 0 => size <= 0
              /\ bytes >= 0 => size = bytes /\ bytes \in range.required..MaxInt64
              /\ Sound(range) /\ range.required # 0 => bytes >= 0
<1> DEFINE g == VolumeGranularityBytes
           b == bytesPerGiB
           value == IF range.required = 0 THEN MinimumVolumeBytes ELSE range.required
           bytes == Rounded(range)
<1>0. MaxInt64 \in Nat /\ g \in 1..MaxInt64 /\ b \in Nat \ {0} /\ range.required \in 0..MaxInt64
  BY SizesAssumption DEF Range64
<1>1. value \in 0..MaxInt64 /\ range.required <= value /\ (range.required # 0 => value = range.required)
  BY SizesAssumption DEF Range64
<1>2. bytes = roundUp(value, g)
  BY DEF Rounded
<1> HIDE DEF value, bytes
<1>3. /\ bytes \in Int /\ (bytes < 0 \/ (bytes \in value..MaxInt64 /\ Multiple(bytes, g)))
      /\ value + g <= MaxInt64 => bytes >= 0
  BY <1>1, <1>2, RoundUp
<1>4. Multiple(g, b) /\ Multiple(MaxInt64 + 1, g)
  BY <1>0, GranularityAssumption, ModZero
<1>5. b <= g
  <2>1. Multiple(0, b)
    BY <1>0 DEF Multiple
  <2> QED  BY <1>0, <1>4, <2>1, Apart
<1> DEFINE n == bytes + b - 1
<1>6. n \in Int /\ n <= MaxInt64
  <2>1. CASE bytes < 0
    BY <1>0, <1>3, <1>5, <2>1
  <2>2. CASE ~(bytes < 0)
    <3>1. bytes + g <= MaxInt64 + 1
      BY <1>0, <1>3, <1>4, <2>2, Apart
    <3> QED  BY <1>0, <1>3, <1>5, <3>1
  <2> QED  BY <2>1, <2>2
<1> DEFINE q == bytesToGiB(bytes)
<1>7. q = IF n >= 0 THEN n \div b ELSE -((-n) \div b)
  BY <1>0, <1>6 DEF bytesToGiB, Wrap
<1>8. q \in Int /\ q * b \in Int
  <2>1. n >= 0 => n \div b \in Int
    BY <1>0, <1>6, DivMod
  <2>2. n < 0 => (-n) \div b \in Int
    BY <1>0, <1>6, DivMod
  <2> HIDE DEF n, q
  <2>3. q \in Int
    BY <1>6, <1>7, <2>1, <2>2
  <2> QED  BY <1>0, <2>3
<1>9. bytes < 0 => q * b <= 0
  <2> SUFFICES ASSUME bytes < 0 PROVE q * b <= 0  OBVIOUS
  <2>1. n < b
    BY <1>0, <1>3
  <2> HIDE DEF n
  <2>2. q <= 0
    <3>1. CASE n >= 0
      <4> DEFINE d == n \div b
      <4>1. d \in Int /\ n % b \in 0..(b - 1) /\ n = b * d + (n % b)
        BY <1>0, <1>6, DivMod
      <4>2. q = d
        BY <1>7, <3>1
      <4> HIDE DEF d, q
      <4>3. 0 < d => b * 0 + b <= b * d /\ b * 0 = 0 /\ b * d \in Int
        BY <1>0, <4>1, MulMono
      <4> QED  BY <1>0, <1>6, <2>1, <4>1, <4>2, <4>3
    <3>2. CASE n < 0
      <4> DEFINE m == -n
                 d == m \div b
      <4>1. m \in Int /\ 0 < m
        BY <1>6, <3>2
      <4>2. q = -d
        BY <1>6, <1>7, <3>2
      <4> HIDE DEF m
      <4>3. d \in Int /\ m % b \in 0..(b - 1) /\ m = b * d + (m % b)
        BY <1>0, <4>1, DivMod
      <4> HIDE DEF d, q
      <4>4. d < 0 => b * d + b <= b * 0 /\ b * 0 = 0 /\ b * d \in Int
        BY <1>0, <4>3, MulMono
      <4> QED  BY <1>0, <4>1, <4>2, <4>3, <4>4
    <3> QED  BY <1>6, <3>1, <3>2
  <2> HIDE DEF q
  <2>3. q < 0 => b * q + b <= b * 0 /\ b * 0 = 0 /\ b * q \in Int /\ q * b = b * q
    BY <1>0, <1>8, MulMono
  <2>4. q = 0 => q * b = 0
    BY <1>0
  <2> QED  BY <1>0, <1>8, <2>2, <2>3, <2>4
<1>10. bytes >= 0 => q * b = bytes
  <2> SUFFICES ASSUME bytes >= 0 PROVE q * b = bytes  OBVIOUS
  <2>1. PICK k \in Int : bytes = g * k
    BY <1>0, <1>3 DEF Multiple
  <2>2. PICK j \in Int : g = b * j
    BY <1>4 DEF Multiple
  <2>3. bytes = b * (j * k) /\ j * k \in Int /\ (j * k) * b = b * (j * k)
    BY <1>0, <2>1, <2>2
  <2>4. n = b * (j * k) + (b - 1) /\ b - 1 \in 0..(b - 1)
    BY <1>0, <1>3, <2>3
  <2>5. n \div b = j * k
    BY <1>0, <1>6, <2>3, <2>4, DivUnique
  <2>6. q = j * k
    BY <1>0, <1>3, <1>7, <2>5
  <2> QED  BY <2>3, <2>6
<1>11. Sound(range) /\ range.required # 0 => bytes >= 0
  BY <1>0, <1>1, <1>3 DEF Sound
<1> QED  BY <1>0, <1>1, <1>3, <1>7, <1>8, <1>9, <1>10, <1>11 DEF bytes

-----------------------------------------------------------------------------
(* Zones. *)

LessThan == {ss \in Nat \X Nat : ss[1] < ss[2]}

LEMMA SmallestIn == ASSUME NEW T, T \subseteq Nat, T # {} PROVE \E x \in T : \A y \in T : x <= y
<1>1. IsWellFoundedOn(LessThan, Nat)
  BY NatLessThanWellFounded DEF OpToRel, LessThan
<1>2. PICK x \in T : \A y \in T : ~ (<<y, x>> \in LessThan)
  BY <1>1, WFMin
<1>3. ASSUME NEW y \in T PROVE x <= y
  <2>1. ~(y < x)
    BY <1>2 DEF LessThan
  <2> QED  BY <2>1
<1> QED  BY <1>3

LEMMA SeqDomain == ASSUME NEW S, NEW s \in Seq(S) PROVE DOMAIN s = 1..Len(s) /\ Len(s) \in Nat
OBVIOUS

LEMMA SeqElement == ASSUME NEW S, NEW s \in Seq(S), NEW i \in DOMAIN s PROVE s[i] \in S
OBVIOUS

LEMMA UpTo == ASSUME NEW n \in Nat, NEW i \in 1..n, NEW j \in 1..n, i <= j PROVE i \in 1..j
OBVIOUS

(* The first topology with one of the zones. *)
LEMMA FirstOfIs ==
    ASSUME NEW S, NEW topologies \in Seq(S), NEW zones, NEW k \in DOMAIN topologies, topologies[k] \in zones
    PROVE  \E i \in DOMAIN topologies :
              /\ FirstOf(topologies, zones) = topologies[i] /\ topologies[i] \in zones
              /\ \A j \in DOMAIN topologies : topologies[j] \in zones => i <= j
<1> DEFINE T == {i \in DOMAIN topologies : topologies[i] \in zones}
           First(i) == topologies[i] \in zones /\ \A j \in 1..(i - 1) : topologies[j] \notin zones
<1>1. DOMAIN topologies = 1..Len(topologies) /\ Len(topologies) \in Nat
  OBVIOUS
<1>2. T \subseteq Nat /\ k \in T
  BY <1>1
<1>3. PICK x \in T : \A y \in T : x <= y
  BY <1>2, SmallestIn
<1>4. x \in DOMAIN topologies /\ First(x)
  BY <1>1, <1>2, <1>3
<1> DEFINE i == CHOOSE m \in DOMAIN topologies : First(m)
<1>5. i \in DOMAIN topologies /\ First(i)
  BY <1>4
<1>6. FirstOf(topologies, zones) = topologies[i]
  BY DEF FirstOf
<1> HIDE DEF i
<1>7. ASSUME NEW j \in DOMAIN topologies, topologies[j] \in zones PROVE i <= j
  <2>1. j \notin 1..(i - 1)
    BY <1>5, <1>7
  <2> QED  BY <1>1, <1>5, <2>1
<1> QED  BY <1>5, <1>6, <1>7

(* A zone that the requisite topologies allow. *)
Allowed(z, requisite) ==
    z # "" /\ (ToSet(requisite) \subseteq {""} \/ z \in ToSet(requisite))

(* What PlacedAsAsked says of the zone of a volume. *)
Placed(zone, requisite, preferred, fallback) ==
    /\ Allowed(zone, requisite)
    /\ \A i \in DOMAIN preferred :
          Allowed(preferred[i], requisite) => \E j \in 1..i : preferred[j] = zone
    /\ Allowed(fallback, requisite) /\ (\A i \in DOMAIN preferred : ~Allowed(preferred[i], requisite))
       => zone = fallback

LEMMA SelectedIs ==
    ASSUME NEW S, NEW requisite \in Seq(S), NEW preferred \in Seq(S),
           NEW fallback, fallback # ""
    PROVE  /\ selectedZone(requisite, preferred, fallback) \in S \cup {fallback}
           /\ Placed(selectedZone(requisite, preferred, fallback), requisite, preferred, fallback)
<1>0. DOMAIN preferred = 1..Len(preferred) /\ Len(preferred) \in Nat
  BY SeqDomain
<1> DEFINE required == topologyZones(requisite)
           wanted   == {z \in topologyZones(preferred) : required = {} \/ z \in required}
           zone     == selectedZone(requisite, preferred, fallback)
<1> SUFFICES zone \in S \cup {fallback} /\ Placed(zone, requisite, preferred, fallback)
  OBVIOUS
<1>1. required = ToSet(requisite) \ {""}
  BY DEF topologyZones, ToSet
<1>2. \A z : Allowed(z, requisite) <=> z # "" /\ (required = {} \/ z \in required)
  BY <1>1 DEF Allowed
<1>3. \A z \in wanted : Allowed(z, requisite) /\ \E i \in DOMAIN preferred : preferred[i] = z
  BY <1>2 DEF topologyZones
<1>4. \A i \in DOMAIN preferred : Allowed(preferred[i], requisite) => preferred[i] \in wanted
  BY <1>2 DEF topologyZones
<1>5. CASE wanted # {}
  <2>1. zone = FirstOf(preferred, wanted)
    BY <1>5 DEF selectedZone
  <2>2. PICK k \in DOMAIN preferred : preferred[k] \in wanted
    BY <1>3, <1>5
  <2> HIDE DEF wanted, zone, required
  <2>3. PICK i \in DOMAIN preferred :
          /\ zone = preferred[i] /\ preferred[i] \in wanted
          /\ \A j \in DOMAIN preferred : preferred[j] \in wanted => i <= j
    BY <2>1, <2>2, FirstOfIs
  <2>4. ASSUME NEW j \in DOMAIN preferred, Allowed(preferred[j], requisite)
        PROVE  \E m \in 1..j : preferred[m] = zone
    <3>1. preferred[j] \in wanted
      BY <1>4, <2>4
    <3>2. i <= j
      BY <2>3, <2>4, <3>1
    <3>3. i \in 1..Len(preferred) /\ j \in 1..Len(preferred)
      BY <1>0
    <3>4. i \in 1..j
      BY <1>0, <3>2, <3>3, UpTo
    <3> QED  BY <2>3, <3>4
  <2>5. zone \in S
    BY <2>3, SeqElement
  <2>6. Allowed(zone, requisite) /\ \E n \in DOMAIN preferred : Allowed(preferred[n], requisite)
    BY <1>3, <2>3 DEF wanted, required
  <2> QED  BY <2>4, <2>5, <2>6 DEF Placed
<1>6. CASE wanted = {} /\ Allowed(fallback, requisite)
  <2>1. zone = fallback
    BY <1>2, <1>6 DEF selectedZone
  <2> QED  BY <1>4, <1>6, <2>1 DEF Placed
<1>7. CASE wanted = {} /\ ~Allowed(fallback, requisite)
  <2>1. required # {} /\ fallback \notin required
    BY <1>2, <1>7
  <2>2. zone = FirstOf(requisite, required)
    BY <1>7, <2>1 DEF selectedZone
  <2>3. PICK k \in DOMAIN requisite : requisite[k] \in required
    BY <2>1 DEF topologyZones
  <2>4. zone \in required
    <3> HIDE DEF required, zone
    <3> QED  BY <2>2, <2>3, FirstOfIs
  <2>5. Allowed(zone, requisite)
    BY <1>1, <1>2, <2>4
  <2>6. required \subseteq S
    BY SeqElement DEF topologyZones
  <2> QED  BY <1>4, <1>7, <2>4, <2>5, <2>6 DEF Placed
<1> QED  BY <1>5, <1>6, <1>7

-----------------------------------------------------------------------------
(* The state.  Of TypeOK only what the properties below rest on. *)

Call == [pc : {"idle", "get", "extend", "read", "answered", "refused", "grown"},
         id : Ids \cup {0}, range : Ranges \cup {NoRange},
         topology : Topologies \cup {NoTopology}, parameter : Parameters \cup {""},
         code : Codes \cup {""}, bytes : 0..MaxInt64]

Volume == [size : 0..MaxInt64, zone : Zones, target : 0..MaxInt64]

(* A handler that was answered OK, or waits for the answer, knows a volume that was made;
   an ID is assigned once. *)
GoodCall(c) ==
    /\ c \in Call
    /\ c.pc # "get" => c.id \notin fresh
    /\ c.pc = "grown" => c.code = "OK"

Types ==
    /\ volumes \in [Ids -> Volume]
    /\ filesystem \in [Ids -> 0..MaxInt64]
    /\ fresh \subseteq Ids \ Live
    /\ call \in [Handlers -> Call] /\ \A h \in Handlers : GoodCall(call[h])

Answered(c) == c.pc \in {"answered", "refused", "grown"} /\ c.code = "OK"

(* What a request that is not rounded beyond 64 bits has brought about. *)
Carried(c) ==
    Sound(c.range) =>
        /\ Answered(c) => c.bytes >= c.range.required
        /\ c.id \in Live /\ (c.pc = "read" \/ Answered(c)) => volumes[c.id].size >= c.range.required
        /\ c.id \in Live /\ c.pc = "grown" => filesystem[c.id] >= c.range.required

(* Where Nobus extends before it answers. *)
InTime ==
    /\ \A v \in Ids : volumes[v].size = volumes[v].target
    /\ \A h \in Handlers : Carried(call[h])

Inv == Types /\ ("late" \notin load => InTime)

LEMMA RangeTypes == \A range \in Ranges \cup {NoRange} : range \in Range64
<1>1. 0 \in 0..MaxInt64
  BY SizesAssumption
<1>2. NoRange \in Range64
  BY <1>1 DEF NoRange, Range64
<1>3. Ranges \subseteq Range64
  BY RequestsAssumption DEF Range64
<1> QED  BY <1>2, <1>3

LEMMA CodeTypes == ASSUME NEW c PROVE statusError(c) \in Codes \ {"OK"}
BY DEF statusError, Codes

(* An error answer. *)
LEMMA FailedGood ==
    ASSUME NEW code \in Codes \ {"OK"}, fresh \subseteq Ids
    PROVE  LET c == [NoCall EXCEPT !.pc = "answered", !.code = code]
           IN GoodCall(c) /\ c.id = 0 /\ ~Answered(c) /\ c.pc = "answered"
<1>1. NoCall \in Call /\ NoCall.id = 0
  BY SizesAssumption DEF NoCall, Call
<1> HIDE DEF NoCall
<1> QED  BY <1>1, IdsAssumption DEF GoodCall, Answered, Call

-----------------------------------------------------------------------------
(* The volumes that were made: they are never made again, keep their size or grow, and a file
   system has the size of the device when it changes. *)
Grows ==
    /\ fresh' \subseteq fresh
    /\ "late" \notin load =>
        \A v \in Ids \ fresh : v \in Live' =>
            /\ v \in Live /\ volumes'[v].size >= volumes[v].size
            /\ filesystem'[v] \in {filesystem[v], volumes'[v].size}

VolumesStep ==
    /\ load' = load
    /\ volumes' \in [Ids -> Volume] /\ filesystem' \in [Ids -> 0..MaxInt64]
    /\ fresh' \subseteq Ids \ Live'
    /\ "late" \notin load => \A v \in Ids : volumes'[v].size = volumes'[v].target
    /\ Grows

LEMMA CarriedKept ==
    ASSUME Types, VolumesStep, "late" \notin load, NEW c \in Call, GoodCall(c), c.pc # "get", Carried(c)
    PROVE  Carried(c)'
<1> SUFFICES ASSUME Sound(c.range), c.id \in Live'
             PROVE  /\ c.pc = "read" \/ Answered(c) => volumes'[c.id].size >= c.range.required
                    /\ c.pc = "grown" => filesystem'[c.id] >= c.range.required
  BY DEF Carried, Answered, Sound
<1>1. c.id \in Ids \ fresh
  BY DEF GoodCall, Live
<1>2. /\ c.id \in Live /\ volumes'[c.id].size >= volumes[c.id].size
      /\ filesystem'[c.id] \in {filesystem[c.id], volumes'[c.id].size}
  BY <1>1 DEF VolumesStep, Grows
<1>3. volumes[c.id].size \in Int /\ volumes'[c.id].size \in Int /\ c.range.required \in Int
  <2>1. c.range \in Range64
    BY RangeTypes DEF Call
  <2> QED  BY <1>1, <2>1, SizesAssumption DEF Types, VolumesStep, Volume, Range64
<1>4. c.pc = "grown" => Answered(c)
  BY DEF GoodCall, Answered
<1>5. c.pc = "read" \/ Answered(c) => volumes'[c.id].size >= c.range.required
  BY <1>2, <1>3 DEF Carried
<1> QED  BY <1>2, <1>4, <1>5 DEF Carried

(* One handler's step. *)
LEMMA HandlerStep ==
    ASSUME Inv, VolumesStep, NEW h \in Handlers, NEW c \in Call, call' = [call EXCEPT ![h] = c],
           GoodCall(c)', "late" \notin load => Carried(c)'
    PROVE  Inv'
<1>1. call \in [Handlers -> Call] /\ \A q \in Handlers : GoodCall(call[q])
  BY DEF Inv, Types
<1>2. ASSUME NEW q \in Handlers PROVE call'[q] \in Call /\ GoodCall(call[q])'
  <2>1. GoodCall(call[q])
    BY <1>1
  <2>2. CASE q = h
    BY <1>1, <2>2 DEF GoodCall
  <2>3. CASE q # h
    BY <1>1, <2>1, <2>3 DEF GoodCall, VolumesStep, Grows
  <2> QED  BY <2>2, <2>3
<1>3. ASSUME "late" \notin load, NEW q \in Handlers PROVE Carried(call[q])'
  <2>1. CASE q = h
    BY <1>1, <1>3, <2>1 DEF Carried, Answered, Live
  <2>2. CASE q # h /\ call[q].pc # "get"
    <3>1. PICK d \in Call : d = call[q] /\ d = call'[q]
      BY <1>1, <2>2
    <3>2. Carried(d)'
      BY <1>1, <1>3, <2>2, <3>1, CarriedKept DEF Inv, InTime
    <3> QED  BY <3>1, <3>2 DEF Carried, Answered, Live
  <2>3. CASE q # h /\ call[q].pc = "get"
    BY <1>1, <2>3 DEF Carried, Answered
  <2> QED  BY <2>1, <2>2, <2>3
<1>4. Types'
  BY <1>1, <1>2 DEF Types, VolumesStep
<1> QED  BY <1>3, <1>4 DEF Inv, InTime, VolumesStep

LEMMA CallsKept == ASSUME Inv, VolumesStep, call' = call PROVE Inv'
<1>1. call \in [Handlers -> Call] /\ \A q \in Handlers : GoodCall(call[q])
  BY DEF Inv, Types
<1>2. \A q \in Handlers : GoodCall(call[q])'
  BY <1>1 DEF GoodCall, VolumesStep, Grows
<1>3. ASSUME "late" \notin load, NEW q \in Handlers PROVE Carried(call[q])'
  <2>1. PICK d \in Call : d = call[q] /\ d = call'[q]
    BY <1>1
  <2>2. CASE d.pc # "get"
    <3>1. Carried(d)'
      BY <1>1, <1>3, <2>1, <2>2, CarriedKept DEF Inv, InTime
    <3> QED  BY <2>1, <3>1 DEF Carried, Answered, Live
  <2>3. CASE d.pc = "get"
    BY <2>1, <2>3 DEF Carried, Answered
  <2> QED  BY <2>2, <2>3
<1>4. Types'
  BY <1>1, <1>2 DEF Types, VolumesStep
<1> QED  BY <1>3, <1>4 DEF Inv, InTime, VolumesStep

LEMMA QuietVolumes ==
    ASSUME Inv, UNCHANGED <<load, volumes, fresh, filesystem>> PROVE VolumesStep
<1>1. Live' = Live
  BY DEF Live
<1>2. \A v \in Ids : volumes[v].size \in Int
  BY SizesAssumption DEF Inv, Types, Volume
<1> QED  BY <1>1, <1>2 DEF Inv, Types, InTime, VolumesStep, Grows, Live

LEMMA FailedStep ==
    ASSUME Inv, VolumesStep, NEW h \in Handlers, NEW code \in Codes \ {"OK"}, Failed(h, code)
    PROVE  Inv'
<1> DEFINE c == [NoCall EXCEPT !.pc = "answered", !.code = code]
<1>1. GoodCall(c) /\ ~Answered(c) /\ c.pc = "answered" /\ c.id = 0
  BY FailedGood DEF Inv, Types
<1>2. call' = [call EXCEPT ![h] = c]
  BY DEF Failed
<1> HIDE DEF c
<1>3. c \in Call /\ GoodCall(c)' /\ Carried(c)'
  BY <1>1, IdsAssumption DEF GoodCall, Carried, Answered, VolumesStep
<1> QED  BY <1>2, <1>3, HandlerStep

(* The codes of error answers. *)
Errors == Codes \ {"OK"}

LEMMA ReturnFails ==
    ASSUME Inv, VolumesStep, NEW h \in Handlers, NEW code \in Errors, NEW bytes, Return(h, code, bytes)
    PROVE  Inv'
<1>1. Failed(h, code)
  BY DEF Return, Errors
<1> QED  BY <1>1, FailedStep DEF Errors

LEMMA RefusedStep ==
    ASSUME Inv, VolumesStep, NEW h \in Handlers, Refused(h) PROVE Inv'
<1>1. Refusals \subseteq Errors
  <2> SUFFICES ASSUME NEW code \in Refusals PROVE code \in Errors  OBVIOUS
  <2>1. PICK r : code = statusError(mapHTTPError(r))
    BY Zenon DEF Refusals
  <2> QED  BY <2>1, CodeTypes DEF Errors
<1>2. PICK code \in Refusals : Return(h, code, 0)
  BY DEF Refused
<1> HIDE DEF Refusals
<1> QED  BY <1>1, <1>2, ReturnFails

LEMMA InZoneMade ==
    ASSUME Types, NEW v \in InZone
    PROVE  v \in Ids /\ v \in Live /\ v \notin fresh /\ volumes[v] \in Volume
BY DEF InZone, Live, Types

(* A size that is enough for the rounded one is enough for what was asked. *)
LEMMA EnoughIsAsked ==
    ASSUME NEW range \in Range64, Sound(range), NEW n \in 0..MaxInt64, n >= Rounded(range)
    PROVE  n >= range.required
<1>1. /\ Rounded(range) \in Int
      /\ Rounded(range) >= 0 => Rounded(range) \in range.required..MaxInt64
      /\ range.required # 0 => Rounded(range) >= 0
  BY AskedSize
<1>2. range.required \in Int /\ n \in Int /\ n >= 0
  BY SizesAssumption DEF Range64
<1> QED  BY <1>1, <1>2, SizesAssumption

LEMMA RequestedIs ==
    ASSUME NEW range, NEW bytes \in requestedBytes(range)
    PROVE  bytes = Rounded(range) /\ (range.limit > 0 => ~(bytes > range.limit))
BY DEF requestedBytes

-----------------------------------------------------------------------------
(* The actions. *)

(* The handler is answered OK with the size of its volume. *)
LEMMA ReturnOK ==
    ASSUME Inv, VolumesStep, NEW h \in Handlers, call[h].id \in InZone,
           Return(h, "OK", volumes[call[h].id].size), volumes' = volumes,
           "late" \notin load /\ Sound(call[h].range)
               => volumes[call[h].id].size >= call[h].range.required
    PROVE  Inv'
<1>1. /\ call[h] \in Call /\ call[h].id \notin fresh
      /\ volumes[call[h].id].size \in 0..MaxInt64
  BY InZoneMade DEF Inv, Types, Volume
<1>2. PICK n \in 0..MaxInt64 : n = volumes[call[h].id].size
  BY <1>1
<1>3. PICK c \in Call : c = [call[h] EXCEPT !.pc = "answered", !.code = "OK", !.bytes = n]
  BY <1>1 DEF Call, Codes
<1>6. call' = [call EXCEPT ![h] = c]
  BY <1>2, <1>3 DEF Return
<1>7. /\ c.id = call[h].id /\ c.pc = "answered" /\ c.range = call[h].range
      /\ c.bytes = n
  BY <1>1, <1>3 DEF Call
<1>4. GoodCall(c)'
  BY <1>1, <1>7 DEF GoodCall, VolumesStep, Grows
<1>5. "late" \notin load => Carried(c)'
  BY <1>2, <1>7 DEF Carried, Answered, Sound
<1> QED  BY <1>4, <1>5, <1>6, HandlerStep

(* The handler goes on, at pc. *)
LEMMA GoesOn ==
    ASSUME Inv, VolumesStep, NEW h \in Handlers, NEW pc \in {"extend", "read"},
           call' = [call EXCEPT ![h].pc = pc], call[h].id \notin fresh,
           "late" \notin load /\ Sound(call[h].range) /\ pc = "read"
               => volumes'[call[h].id].size >= call[h].range.required
    PROVE  Inv'
<1>1. call[h] \in Call
  BY DEF Inv, Types
<1>2. PICK c \in Call : c = [call[h] EXCEPT !.pc = pc]
  BY <1>1 DEF Call
<1>6. call' = [call EXCEPT ![h] = c]
  BY <1>2
<1>3. c.id = call[h].id /\ c.pc = pc /\ c.range = call[h].range
  BY <1>1, <1>2 DEF Call
<1>4. GoodCall(c)'
  BY <1>3 DEF GoodCall, VolumesStep, Grows
<1>5. "late" \notin load => Carried(c)'
  BY <1>3 DEF Carried, Answered, Sound
<1> QED  BY <1>4, <1>5, <1>6, HandlerStep

(* The handler is answered an error, and Nobus has carried out what it was asked. *)
LEMMA LostIs ==
    ASSUME Types, NEW h \in Handlers, AnswerLost(h)
    PROVE  \E c \in Call : /\ call' = [call EXCEPT ![h] = c]
                           /\ c.id = call[h].id /\ c.range = call[h].range
                           /\ c.pc = "answered" /\ c.code # "OK"
<1>1. call[h] \in Call
  BY DEF Types
<1>2. PICK code \in {statusError("Unavailable"), "Internal"} :
        call' = [call EXCEPT ![h] = [@ EXCEPT !.pc = "answered", !.code = code]]
  BY DEF AnswerLost
<1>3. code \in Codes \ {"OK"}
  BY <1>2, CodeTypes DEF Codes
<1>4. PICK c \in Call : c = [call[h] EXCEPT !.pc = "answered", !.code = code]
  BY <1>1, <1>3 DEF Call
<1>5. c.id = call[h].id /\ c.range = call[h].range /\ c.pc = "answered" /\ c.code = code
  BY <1>1, <1>4 DEF Call
<1>6. call' = [call EXCEPT ![h] = c]
  BY <1>2, <1>4
<1> QED  BY <1>3, <1>5, <1>6

LEMMA LostStep ==
    ASSUME Inv, VolumesStep, NEW h \in Handlers, AnswerLost(h), call[h].id \notin fresh
    PROVE  Inv'
<1>1. PICK c \in Call : /\ call' = [call EXCEPT ![h] = c]
                        /\ c.id = call[h].id /\ c.pc = "answered" /\ c.code # "OK"
  BY LostIs DEF Inv
<1>2. GoodCall(c)' /\ Carried(c)'
  BY <1>1 DEF GoodCall, Carried, Answered, VolumesStep, Grows
<1> QED  BY <1>1, <1>2, HandlerStep

LEMMA StartInv == ASSUME Inv, NEW h \in Handlers, ExpandStart(h) PROVE Inv'
<1>0. VolumesStep
  BY QuietVolumes DEF ExpandStart
<1>1. PICK id \in Targets, range \in Ranges :
        \/ Failed(h, "Aborted") \/ Failed(h, "OutOfRange")
        \/ call' = [call EXCEPT ![h] = [NoCall EXCEPT !.pc = "get", !.id = id, !.range = range]]
  BY DEF ExpandStart
<1>2. CASE Failed(h, "Aborted") \/ Failed(h, "OutOfRange")
  BY <1>0, <1>2, FailedStep DEF Codes
<1>3. CASE call' = [call EXCEPT ![h] = [NoCall EXCEPT !.pc = "get", !.id = id, !.range = range]]
  <2> DEFINE c == [NoCall EXCEPT !.pc = "get", !.id = id, !.range = range]
  <2>1. NoCall \in Call /\ NoCall.code = ""
    BY SizesAssumption DEF NoCall, Call
  <2> HIDE DEF NoCall
  <2>2. c \in Call /\ c.pc = "get" /\ c.code = ""
    BY <2>1, IdsAssumption DEF Call
  <2>3. call' = [call EXCEPT ![h] = c]
    BY <1>3
  <2> HIDE DEF c
  <2>4. GoodCall(c)' /\ Carried(c)'
    BY <2>2 DEF GoodCall, Carried, Answered
  <2> QED  BY <1>0, <2>2, <2>3, <2>4, HandlerStep
<1> QED  BY <1>1, <1>2, <1>3

LEMMA GetInv == ASSUME Inv, NEW h \in Handlers, ExpandGet(h) PROVE Inv'
<1>0. VolumesStep /\ volumes' = volumes /\ Types
  BY QuietVolumes DEF ExpandGet, Inv
<1>1. CASE Refused(h)
  BY <1>0, <1>1, RefusedStep
<1>2. CASE ~Refused(h)
  <2>1. PICK size \in requestedBytes(call[h].range) :
          IF call[h].id \notin InZone THEN Return(h, "NotFound", 0)
          ELSE IF Enough(call[h].id, size) THEN Return(h, "OK", volumes[call[h].id].size)
          ELSE call' = [call EXCEPT ![h].pc = "extend"]
    BY <1>2 DEF ExpandGet
  <2>2. CASE call[h].id \notin InZone
    BY <1>0, <2>1, <2>2, ReturnFails DEF Codes, Errors
  <2>3. CASE call[h].id \in InZone /\ Enough(call[h].id, size)
    <3>1. call[h].range \in Range64 /\ volumes[call[h].id].size \in 0..MaxInt64
      BY <1>0, <2>3, RangeTypes, InZoneMade DEF Types, Call, Volume
    <3>2. Sound(call[h].range) => volumes[call[h].id].size >= call[h].range.required
      BY <2>3, <3>1, RequestedIs, EnoughIsAsked DEF Enough
    <3> QED  BY <1>0, <2>1, <2>3, <3>2, ReturnOK
  <2>4. CASE call[h].id \in InZone /\ ~Enough(call[h].id, size)
    BY <1>0, <2>1, <2>4, InZoneMade, GoesOn
  <2> QED  BY <2>2, <2>3, <2>4
<1> QED  BY <1>1, <1>2

LEMMA ReadInv == ASSUME Inv, NEW h \in Handlers, ExpandRead(h) PROVE Inv'
<1>0. VolumesStep /\ volumes' = volumes /\ Types /\ call[h].pc = "read"
  BY QuietVolumes DEF ExpandRead, Inv
<1>1. CASE Refused(h)
  BY <1>0, <1>1, RefusedStep
<1>2. CASE call[h].id \in InZone /\ Return(h, "OK", volumes[call[h].id].size)
  <2>1. "late" \notin load /\ Sound(call[h].range)
          => volumes[call[h].id].size >= call[h].range.required
    BY <1>0, <1>2, InZoneMade DEF Inv, InTime, Carried
  <2> QED  BY <1>0, <1>2, <2>1, ReturnOK
<1>3. CASE Return(h, "NotFound", 0)
  BY <1>0, <1>3, ReturnFails DEF Codes, Errors
<1> QED  BY <1>1, <1>2, <1>3 DEF ExpandRead

(* The extend that Nobus takes: the size is the rounded one. *)
Extends(h, id, bytes) ==
    LET size == bytesToGiB(bytes) * bytesPerGiB IN
    /\ bytes \in requestedBytes(call[h].range) /\ id = call[h].id /\ id \in InZone
    /\ ~(size <= volumes[id].target)
    /\ volumes' = ResizeVolume(id, size)
    /\ (call' = [call EXCEPT ![h].pc = "read"] /\ locks' = locks) \/ AnswerLost(h)

LEMMA ExtendIs ==
    ASSUME NEW h \in Handlers, ExpandExtend(h)
    PROVE  \/ Refused(h) \/ \E code \in Errors : Return(h, code, 0) /\ volumes' = volumes
           \/ \E id, bytes : Extends(h, id, bytes)
<1>1. CASE ~Refused(h)
  <2>1. PICK bytes \in requestedBytes(call[h].range) :
             LET id == call[h].id
                 size == bytesToGiB(bytes) * bytesPerGiB
             IN IF id \notin InZone
                  THEN Return(h, statusError("NotFound"), 0) /\ volumes' = volumes
                ELSE IF size <= volumes[id].target
                  THEN Return(h, statusError("Invalid"), 0) /\ volumes' = volumes
                ELSE /\ volumes' = ResizeVolume(id, size)
                     /\ (call' = [call EXCEPT ![h].pc = "read"] /\ locks' = locks) \/ AnswerLost(h)
    BY <1>1 DEF ExpandExtend
  <2>2. statusError("NotFound") \in Errors /\ statusError("Invalid") \in Errors
    BY CodeTypes DEF Errors
  <2> DEFINE size == bytesToGiB(bytes) * bytesPerGiB
  <2>3. CASE call[h].id \notin InZone
    BY <2>1, <2>2, <2>3
  <2>4. CASE call[h].id \in InZone /\ size <= volumes[call[h].id].target
    BY <2>1, <2>2, <2>4
  <2>5. CASE call[h].id \in InZone /\ ~(size <= volumes[call[h].id].target)
    <3>1. Extends(h, call[h].id, bytes)
      BY <2>1, <2>5 DEF Extends
    <3> QED  BY <3>1
  <2> QED  BY <2>3, <2>4, <2>5
<1> QED  BY <1>1

LEMMA ExtendsIs ==
    ASSUME Types, NEW h \in Handlers, NEW id, NEW bytes, Extends(h, id, bytes)
    PROVE  /\ id \in InZone /\ id \in Live /\ id \in Ids \ fresh /\ call[h].range \in Range64
           /\ bytes \in call[h].range.required..MaxInt64 /\ bytes > volumes[id].target /\ bytes > 0
           /\ volumes' = ResizeVolume(id, bytes)
           /\ call[h].range.limit > 0 => bytes <= call[h].range.limit
<1> DEFINE range == call[h].range
           size  == bytesToGiB(bytes) * bytesPerGiB
<1>1. range \in Range64
  BY RangeTypes DEF Types, Call
<1>2. bytes = Rounded(range) /\ (range.limit > 0 => ~(bytes > range.limit))
  BY RequestedIs DEF Extends
<1>3. id \in InZone /\ id \in Live /\ id \in Ids \ fresh /\ volumes[id].target \in 0..MaxInt64
  BY InZoneMade DEF Extends, Volume
<1> HIDE DEF range
<1>4. /\ bytes \in Int /\ size \in Int /\ (bytes < 0 => size <= 0)
      /\ bytes >= 0 => size = bytes /\ bytes \in range.required..MaxInt64
  BY <1>1, <1>2, AskedSize
<1>5. ~(size <= volumes[id].target) /\ volumes' = ResizeVolume(id, size)
  BY DEF Extends
<1> HIDE DEF size
<1>6. bytes >= 0 /\ size = bytes
  BY <1>3, <1>4, <1>5, SizesAssumption
<1>7. range.limit > 0 => bytes <= range.limit
  BY <1>1, <1>2, <1>4, SizesAssumption DEF Range64
<1>8. bytes > volumes[id].target /\ bytes > 0
  BY <1>3, <1>4, <1>5, <1>6, SizesAssumption
<1> QED  BY <1>1, <1>3, <1>4, <1>5, <1>6, <1>7, <1>8 DEF range

LEMMA ResizeIs ==
    ASSUME volumes \in [Ids -> Volume], NEW id \in Ids, NEW size \in 1..MaxInt64,
           volumes' = ResizeVolume(id, size)
    PROVE  /\ volumes' \in [Ids -> Volume]
           /\ volumes'[id].target = size /\ volumes'[id].zone = volumes[id].zone
           /\ "late" \in load => volumes'[id].size = volumes[id].size
           /\ "late" \notin load => volumes'[id].size = size
           /\ \A v \in Ids \ {id} : volumes'[v] = volumes[v]
<1>1. PICK x \in Volume : x = volumes[id]
  OBVIOUS
<1>2. size \in 0..MaxInt64 /\ x.size \in 0..MaxInt64
  BY SizesAssumption DEF Volume
<1>3. CASE "late" \in load
  <2>1. PICK y : y = [x EXCEPT !.size = x.size, !.target = size]
    OBVIOUS
  <2>2. volumes' = [volumes EXCEPT ![id] = y]
    BY <1>1, <1>3, <2>1 DEF ResizeVolume
  <2>3. y \in Volume /\ y.size = x.size /\ y.target = size /\ y.zone = x.zone
    BY <1>2, <2>1 DEF Volume
  <2> QED  BY <1>1, <1>3, <2>2, <2>3
<1>4. CASE "late" \notin load
  <2>1. PICK y : y = [x EXCEPT !.size = size, !.target = size]
    OBVIOUS
  <2>2. volumes' = [volumes EXCEPT ![id] = y]
    BY <1>1, <1>4, <2>1 DEF ResizeVolume
  <2>3. y \in Volume /\ y.size = size /\ y.target = size /\ y.zone = x.zone
    BY <1>2, <2>1 DEF Volume
  <2> QED  BY <1>1, <1>4, <2>2, <2>3
<1> QED  BY <1>3, <1>4

LEMMA ExtendInv == ASSUME Inv, NEW h \in Handlers, ExpandExtend(h) PROVE Inv'
<1>0. Types /\ UNCHANGED <<load, fresh, filesystem>>
  BY DEF Inv, ExpandExtend
<1>1. CASE Refused(h)
  BY <1>0, <1>1, QuietVolumes, RefusedStep DEF Refused
<1>2. CASE \E code \in Errors : Return(h, code, 0) /\ volumes' = volumes
  BY <1>0, <1>2, QuietVolumes, ReturnFails
<1>3. ASSUME NEW id, NEW bytes, Extends(h, id, bytes) PROVE Inv'
  <2>1. /\ id \in InZone /\ id \in Live /\ id \in Ids \ fresh /\ call[h].range \in Range64
        /\ bytes \in call[h].range.required..MaxInt64 /\ bytes > volumes[id].target /\ bytes > 0
        /\ volumes' = ResizeVolume(id, bytes)
    BY <1>0, <1>3, ExtendsIs
  <2>2. /\ volumes[id] \in Volume /\ volumes \in [Ids -> Volume] /\ bytes \in 1..MaxInt64
        /\ call[h].range.required \in Int
    BY <1>0, <2>1, SizesAssumption DEF Types, Range64
  <2>3. /\ volumes' \in [Ids -> Volume]
        /\ volumes'[id].target = bytes
        /\ "late" \in load => volumes'[id].size = volumes[id].size
        /\ "late" \notin load => volumes'[id].size = bytes
        /\ \A v \in Ids \ {id} : volumes'[v] = volumes[v]
    BY <2>1, <2>2, ResizeIs
  <2>4. Live' = Live
    BY <2>1, <2>2, <2>3 DEF Live
  <2>5. "late" \notin load => volumes'[id].size > volumes[id].size
    BY <2>1, <2>2, <2>3 DEF Inv, InTime
  <2>6. volumes' \in [Ids -> Volume]
    BY <2>3
  <2>7. \A v \in Ids : volumes[v].size \in Int /\ volumes'[v].size \in Int
    BY <2>2, <2>6, SizesAssumption DEF Volume
  <2>8. Grows
    BY <1>0, <2>3, <2>4, <2>5, <2>7 DEF Grows
  <2>9. "late" \notin load => \A v \in Ids : volumes'[v].size = volumes'[v].target
    BY <2>3 DEF Inv, InTime
  <2>10. VolumesStep
    BY <1>0, <2>4, <2>6, <2>8, <2>9 DEF VolumesStep, Types
  <2>11. /\ id = call[h].id
         /\ "late" \notin load => volumes'[id].size >= call[h].range.required
    BY <1>3, <2>1, <2>2, <2>3 DEF Extends
  <2>12. CASE call' = [call EXCEPT ![h].pc = "read"]
    BY <2>1, <2>10, <2>11, <2>12, GoesOn
  <2>13. CASE AnswerLost(h)
    BY <2>1, <2>10, <2>11, <2>13, LostStep
  <2> QED  BY <1>3, <2>12, <2>13 DEF Extends
<1> QED  BY <1>1, <1>2, <1>3, ExtendIs

LEMMA NodeInv == ASSUME Inv, NEW h \in Handlers, NodeExpandVolume(h) PROVE Inv'
<1>0. /\ Types /\ call[h] \in Call /\ GoodCall(call[h]) /\ Answered(call[h]) /\ call[h].pc # "get"
      /\ call[h].id \in Live /\ UNCHANGED <<load, volumes, fresh>>
  BY DEF Inv, Types, NodeExpandVolume, Answered
<1>1. PICK id \in Ids : id = call[h].id
  BY <1>0 DEF Live
<1>2. volumes[id].size \in 0..MaxInt64 /\ \A v \in Ids : volumes[v].size \in Int
  BY <1>0, SizesAssumption DEF Types, Volume
<1>3. PICK grown \in BOOLEAN :
        /\ filesystem' = IF grown THEN [filesystem EXCEPT ![id] = volumes[id].size] ELSE filesystem
        /\ call' = [call EXCEPT ![h].pc = IF grown THEN "grown" ELSE "refused"]
  <2>1. \/ /\ filesystem' = [filesystem EXCEPT ![id] = volumes[id].size]
           /\ call' = [call EXCEPT ![h].pc = "grown"]
        \/ filesystem' = filesystem /\ call' = [call EXCEPT ![h].pc = "refused"]
    BY <1>1 DEF NodeExpandVolume
  <2>2. CASE /\ filesystem' = [filesystem EXCEPT ![id] = volumes[id].size]
             /\ call' = [call EXCEPT ![h].pc = "grown"]
    BY <2>2
  <2>3. CASE filesystem' = filesystem /\ call' = [call EXCEPT ![h].pc = "refused"]
    BY <2>3
  <2> QED  BY <2>1, <2>2, <2>3
<1>4. /\ filesystem' \in [Ids -> 0..MaxInt64]
      /\ \A v \in Ids : filesystem'[v] \in {filesystem[v], volumes[v].size}
      /\ grown => filesystem'[id] = volumes[id].size
  BY <1>0, <1>2, <1>3 DEF Types
<1>5. Live' = Live
  BY <1>0 DEF Live
<1>6. Grows
  BY <1>0, <1>2, <1>4, <1>5 DEF Grows, Types
<1>7. VolumesStep
  BY <1>0, <1>4, <1>5, <1>6 DEF VolumesStep, Types, Inv, InTime
<1>8. PICK c \in Call : c = [call[h] EXCEPT !.pc = IF grown THEN "grown" ELSE "refused"]
  BY <1>0 DEF Call
<1>9. /\ c.id = id /\ c.pc \in {"grown", "refused"} /\ (c.pc = "grown" => grown)
      /\ c.range = call[h].range /\ c.bytes = call[h].bytes
      /\ c.code = "OK" /\ call' = [call EXCEPT ![h] = c]
  BY <1>0, <1>1, <1>3, <1>8 DEF Call, Answered
<1>10. GoodCall(c)'
  BY <1>0, <1>1, <1>9 DEF GoodCall
<1>11. "late" \notin load => Carried(c)'
  <2> SUFFICES ASSUME "late" \notin load, Sound(c.range)
               PROVE  /\ c.bytes >= c.range.required
                      /\ volumes[id].size >= c.range.required
                      /\ grown => filesystem'[id] >= c.range.required
    BY <1>0, <1>9 DEF Carried, Sound
  <2>1. Carried(call[h])
    BY DEF Inv, InTime
  <2> QED  BY <1>0, <1>1, <1>4, <1>9, <2>1 DEF Carried, Types
<1> QED  BY <1>7, <1>9, <1>10, <1>11, HandlerStep

(* The volume that CreateVolume makes. *)
Given == Parameters \cup {""}

Placement(t, p) == selectedZone(t.requisite, t.preferred, fallbackZone(p))

Makes(h, range, t, p, id, size) ==
    /\ id \in fresh /\ size \in range.required..MaxInt64 /\ size > 0
    /\ range.limit > 0 => size <= range.limit
    /\ volumes' = [volumes EXCEPT ![id] =
                      [size |-> size, zone |-> Placement(t, p), target |-> size]]
    /\ fresh' = fresh \ {id}
    /\ filesystem' = [filesystem EXCEPT ![id] = size]
    /\ call' = [call EXCEPT ![h] = [pc |-> "answered", id |-> id, range |-> range, topology |-> t,
                                    parameter |-> p,
                                    code |-> IF Placement(t, p) = ConfigZone THEN "OK" ELSE "Unavailable",
                                    bytes |-> IF Placement(t, p) = ConfigZone THEN size ELSE 0]]
    /\ listing' = [listing EXCEPT !.came = IF listing.on THEN @ \cup {id} ELSE @]

LEMMA CreateIs ==
    ASSUME NEW h \in Handlers, CreateVolume(h)
    PROVE  \/ \E code \in Errors : Failed(h, code) /\ UNCHANGED <<volumes, fresh, filesystem, listing>>
           \/ \E range \in Ranges, t \in Topologies \cup {NoTopology}, p \in Given :
                 \E id, size : Makes(h, range, t, p, id, size)
<1> DEFINE fail(code) == Failed(h, code) /\ UNCHANGED <<volumes, fresh, filesystem, listing>>
           made(range, t, p, size, id) ==
               /\ volumes' = [volumes EXCEPT ![id] =
                     [size |-> size, zone |-> Placement(t, p), target |-> size]]
               /\ fresh' = fresh \ {id}
               /\ filesystem' = [filesystem EXCEPT ![id] = size]
               /\ call' = [call EXCEPT ![h] =
                     [pc |-> "answered", id |-> id, range |-> range, topology |-> t, parameter |-> p,
                      code |-> IF Placement(t, p) = ConfigZone THEN "OK" ELSE "Unavailable",
                      bytes |-> IF Placement(t, p) = ConfigZone THEN size ELSE 0]]
               /\ listing' = [listing EXCEPT !.came = IF listing.on THEN @ \cup {id} ELSE @]
<1>1. PICK range \in Ranges, t \in Topologies \cup {NoTopology}, p \in Given :
        IF requestedBytes(range) = {} THEN fail("OutOfRange")
        ELSE \E bytes \in requestedBytes(range), id \in fresh :
                IF bytesToGiB(bytes) * bytesPerGiB <= 0 THEN fail("InvalidArgument")
                ELSE made(range, t, p, bytesToGiB(bytes) * bytesPerGiB, id)
  <2>1. PICK range \in Ranges, t \in IF "place" \in load THEN Topologies ELSE {NoTopology},
             p \in IF "place" \in load THEN Parameters ELSE {""} :
          IF requestedBytes(range) = {} THEN fail("OutOfRange")
          ELSE \E bytes \in requestedBytes(range), id \in fresh :
                  IF bytesToGiB(bytes) * bytesPerGiB <= 0 THEN fail("InvalidArgument")
                  ELSE made(range, t, p, bytesToGiB(bytes) * bytesPerGiB, id)
    BY DEF CreateVolume, Placement
  <2>2. t \in Topologies \cup {NoTopology} /\ p \in Given
    BY DEF Given
  <2> HIDE DEF fail, made
  <2> QED  BY <2>1, <2>2
<1>2. "OutOfRange" \in Errors /\ "InvalidArgument" \in Errors
  BY DEF Errors, Codes
<1>3. CASE requestedBytes(range) = {}
  <2>1. Failed(h, "OutOfRange") /\ UNCHANGED <<volumes, fresh, filesystem, listing>>
    BY <1>1, <1>3
  <2> QED  BY <1>2, <2>1
<1>4. CASE requestedBytes(range) # {}
  <2>1. PICK bytes \in requestedBytes(range), id \in fresh :
          IF bytesToGiB(bytes) * bytesPerGiB <= 0 THEN fail("InvalidArgument")
          ELSE made(range, t, p, bytesToGiB(bytes) * bytesPerGiB, id)
    <3> HIDE DEF fail, made
    <3> QED  BY <1>1, <1>4
  <2> DEFINE size == bytesToGiB(bytes) * bytesPerGiB
  <2>2. CASE size <= 0
    BY <1>2, <2>1, <2>2
  <2>3. CASE ~(size <= 0)
    <3>1. bytes = Rounded(range) /\ (range.limit > 0 => ~(bytes > range.limit))
      BY RequestedIs
    <3>2. range \in Range64
      BY RequestsAssumption DEF Range64
    <3>3. /\ bytes \in Int /\ size \in Int /\ (bytes < 0 => size <= 0)
          /\ bytes >= 0 => size = bytes /\ bytes \in range.required..MaxInt64
      BY <3>1, <3>2, AskedSize
    <3>4. bytes >= 0 /\ size = bytes /\ size \in range.required..MaxInt64 /\ size > 0
      <4> HIDE DEF size, made, fail
      <4> QED  BY <2>3, <3>3
    <3>5. range.limit > 0 => size <= range.limit
      <4> HIDE DEF size, made, fail
      <4> QED  BY <3>1, <3>2, <3>3, <3>4 DEF Range64
    <3>6. Makes(h, range, t, p, id, size)
      BY <2>1, <2>3, <3>4, <3>5 DEF Makes
    <3> QED  BY <3>6
  <2> QED  BY <2>2, <2>3
<1> QED  BY <1>3, <1>4

LEMMA TopologyTypes ==
    ASSUME NEW t \in Topologies \cup {NoTopology}
    PROVE  t.requisite \in Seq(Zones \cup {""}) /\ t.preferred \in Seq(Zones \cup {""})
<1>1. CASE t \in Topologies
  BY <1>1, RequestsAssumption
<1>2. CASE t = NoTopology
  BY <1>2 DEF NoTopology
<1> QED  BY <1>1, <1>2

LEMMA FallbackType == ASSUME NEW p \in Given PROVE fallbackZone(p) \in Zones
BY RequestsAssumption, ZonesAssumption DEF fallbackZone, Given

LEMMA CreateInv == ASSUME Inv, NEW h \in Handlers, CreateVolume(h) PROVE Inv'
<1>0. Types /\ load' = load
  BY DEF Inv, CreateVolume
<1>1. CASE \E code \in Errors : Failed(h, code) /\ UNCHANGED <<volumes, fresh, filesystem, listing>>
  BY <1>0, <1>1, QuietVolumes, FailedStep DEF Errors
<1>2. ASSUME NEW range \in Ranges, NEW t \in Topologies \cup {NoTopology},
             NEW p \in Given, NEW id, NEW size, Makes(h, range, t, p, id, size)
      PROVE  Inv'
  <2> DEFINE zone == Placement(t, p)
             code == IF zone = ConfigZone THEN "OK" ELSE "Unavailable"
             bytes == IF zone = ConfigZone THEN size ELSE 0
             new == [size |-> size, zone |-> zone, target |-> size]
             c == [pc |-> "answered", id |-> id, range |-> range, topology |-> t, parameter |-> p,
                   code |-> code, bytes |-> bytes]
  <2> HIDE DEF code, bytes, new, c
  <2>1. zone \in Zones
    <3>1. PICK requisite \in Seq(Zones \cup {""}), preferred \in Seq(Zones \cup {""}) :
            zone = selectedZone(requisite, preferred, fallbackZone(p))
      BY TopologyTypes DEF Placement
    <3>2. fallbackZone(p) # "" /\ fallbackZone(p) \in Zones
      BY FallbackType, ZonesAssumption
    <3> HIDE DEF zone
    <3>3. zone \in (Zones \cup {""}) \cup {fallbackZone(p)} /\ Placed(zone, requisite, preferred, fallbackZone(p))
      BY <3>1, <3>2, SelectedIs
    <3> QED  BY <3>2, <3>3 DEF Allowed, Placed
  <2> HIDE DEF zone
  <2>2. /\ id \in fresh /\ id \in Ids /\ range \in Range64 /\ size \in 1..MaxInt64
        /\ size >= range.required
    <3>1. id \in fresh /\ size \in range.required..MaxInt64 /\ size > 0
      BY <1>2 DEF Makes
    <3>2. range \in Range64
      BY RangeTypes
    <3> QED  BY <1>0, <3>1, <3>2, SizesAssumption DEF Types, Range64
  <2>3. new \in Volume /\ new.size = size /\ new.target = size
    BY <2>1, <2>2, SizesAssumption DEF Volume, new
  <2>4. volumes' = [volumes EXCEPT ![id] = new] /\ fresh' = fresh \ {id}
        /\ filesystem' = [filesystem EXCEPT ![id] = size] /\ call' = [call EXCEPT ![h] = c]
    BY <1>2 DEF Makes, zone, code, bytes, new, c
  <2>5. /\ volumes' \in [Ids -> Volume] /\ volumes'[id] = new
        /\ \A v \in Ids \ {id} : volumes'[v] = volumes[v] /\ filesystem'[v] = filesystem[v]
        /\ filesystem' \in [Ids -> 0..MaxInt64] /\ filesystem'[id] = size
    BY <1>0, <2>2, <2>3, <2>4 DEF Types
  <2>6. Live' = Live \cup {id}
    BY <2>2, <2>3, <2>5 DEF Live
  <2>7. \A v \in Ids : volumes[v].size \in Int
    BY <1>0, SizesAssumption DEF Types, Volume
  <2>8. Grows
    BY <1>0, <2>2, <2>4, <2>5, <2>6, <2>7 DEF Grows
  <2>9. fresh' \subseteq Ids \ Live'
    BY <1>0, <2>4, <2>6 DEF Types
  <2>10. "late" \notin load => \A v \in Ids : volumes'[v].size = volumes'[v].target
    BY <2>3, <2>5 DEF Inv, InTime
  <2>11. VolumesStep
    BY <1>0, <2>5, <2>8, <2>9, <2>10 DEF VolumesStep
  <2>12. /\ c \in Call /\ c.pc = "answered" /\ c.id = id /\ c.range = range
         /\ c.code = "OK" => c.bytes = size
    <3>1. code \in Codes /\ bytes \in 0..MaxInt64 /\ (code = "OK" => bytes = size)
      BY <2>2, SizesAssumption DEF Codes, code, bytes
    <3> QED  BY <2>2, <3>1 DEF Call, c, Given
  <2>13. GoodCall(c)'
    BY <2>4, <2>12 DEF GoodCall
  <2>14. Carried(c)'
    BY <2>2, <2>3, <2>5, <2>12 DEF Carried, Answered
  <2> QED  BY <2>4, <2>11, <2>12, <2>13, <2>14, HandlerStep
<1> QED  BY <1>1, <1>2, CreateIs

(* Nobus carries out an extend that it took before. *)
LEMMA GrowInv == ASSUME Inv, Grow PROVE Inv'
<1>0. /\ Types /\ UNCHANGED <<load, fresh, filesystem, call>>
  BY DEF Inv, Grow
<1>1. PICK v \in Live : /\ volumes[v].size # volumes[v].target
                        /\ volumes' = [volumes EXCEPT ![v].size = volumes[v].target]
  BY DEF Grow
<1>2. v \in Ids /\ "late" \in load
  BY <1>1 DEF Live, Inv, InTime
<1>3. PICK x : x = [volumes[v] EXCEPT !.size = volumes[v].target]
  OBVIOUS
<1>4. x \in Volume
  BY <1>0, <1>2, <1>3 DEF Types, Volume
<1>5. volumes' = [volumes EXCEPT ![v] = x]
  BY <1>1, <1>3
<1>6. volumes' \in [Ids -> Volume] /\ Live' \subseteq Live
  BY <1>0, <1>1, <1>2, <1>4, <1>5 DEF Types, Live
<1>7. VolumesStep
  BY <1>0, <1>2, <1>6 DEF VolumesStep, Grows, Types
<1> QED  BY <1>0, <1>7, CallsKept

LEMMA NoneIs == None \in Volume /\ None.size = 0 /\ None.target = 0
<1>1. 0 \in 0..MaxInt64
  BY SizesAssumption
<1>2. ConfigZone \in Zones
  BY ZonesAssumption
<1> QED  BY <1>1, <1>2 DEF None, Volume

LEMMA SmallestIs ==
    ASSUME bytesPerGiB \in 0..MaxInt64, NEW zone \in Zones
    PROVE  Smallest(zone) \in Volume /\ Smallest(zone).size = Smallest(zone).target
BY DEF Smallest, Volume

LEMMA RemovedInv == ASSUME Inv, Removed PROVE Inv'
<1>0. /\ Types /\ UNCHANGED <<load, fresh, call>>
  BY DEF Inv, Removed
<1>1. PICK v \in Live : /\ volumes' = [volumes EXCEPT ![v] = None]
                        /\ filesystem' = [filesystem EXCEPT ![v] = 0]
  BY DEF Removed
<1>2. None \in Volume /\ None.size = 0 /\ None.target = 0 /\ v \in Ids /\ 0 \in 0..MaxInt64
  BY NoneIs, SizesAssumption DEF Live
<1>3. /\ volumes' \in [Ids -> Volume] /\ filesystem' \in [Ids -> 0..MaxInt64]
      /\ volumes'[v].size = 0 /\ volumes'[v].target = 0
      /\ \A i \in Ids \ {v} : volumes'[i] = volumes[i] /\ filesystem'[i] = filesystem[i]
  BY <1>0, <1>1, <1>2 DEF Types
<1>4. Live' = Live \ {v}
  BY <1>2, <1>3 DEF Live
<1>5. \A i \in Ids : volumes[i].size \in Int
  BY <1>0, SizesAssumption DEF Types, Volume
<1>6. VolumesStep
  BY <1>0, <1>3, <1>4, <1>5 DEF VolumesStep, Grows, Types, Inv, InTime
<1> QED  BY <1>0, <1>6, CallsKept

LEMMA NextInv == ASSUME Inv, [Next]_vars PROVE Inv'
<1>1. CASE ListVolumes \/ UNCHANGED vars
  <2>1. UNCHANGED <<load, volumes, fresh, filesystem, call>>
    BY <1>1 DEF ListVolumes, vars
  <2> QED  BY <2>1, QuietVolumes, CallsKept
<1> QED  BY <1>1, StartInv, GetInv, ExtendInv, ReadInv, NodeInv, CreateInv, GrowInv, RemovedInv DEF Next

LEMMA InitInv == Init => Inv
<1> SUFFICES ASSUME Init PROVE Inv  OBVIOUS
<1>1. NoCall \in Call /\ NoCall.pc = "idle" /\ NoCall.id = 0
  BY SizesAssumption DEF NoCall, Call
<1> HIDE DEF NoCall
<1>2. bytesPerGiB \in 0..MaxInt64
  <2>1. Multiple(VolumeGranularityBytes, bytesPerGiB) /\ Multiple(0, bytesPerGiB)
    <3>1. bytesPerGiB * 0 = 0 /\ bytesPerGiB \in Nat \ {0} /\ VolumeGranularityBytes \in Int
      BY SizesAssumption
    <3>2. Multiple(VolumeGranularityBytes, bytesPerGiB)
      BY <3>1, GranularityAssumption, ModZero
    <3>3. Multiple(0, bytesPerGiB)
      BY <3>1 DEF Multiple
    <3> QED  BY <3>2, <3>3
  <2>2. 0 + bytesPerGiB <= VolumeGranularityBytes
    BY <2>1, SizesAssumption, Apart
  <2> QED  BY <2>2, SizesAssumption
<1>3. \A x \in {None} \cup {Smallest(zone) : zone \in Zones} : x \in Volume /\ x.size = x.target
  BY <1>2, NoneIs, SmallestIs
<1>4. volumes \in [Ids -> Volume] /\ \A v \in Ids : volumes[v].size = volumes[v].target
  BY <1>3 DEF Init
<1>5. filesystem \in [Ids -> 0..MaxInt64]
  BY <1>4 DEF Init, Volume
<1>6. Types
  BY <1>1, <1>4, <1>5, IdsAssumption DEF Init, Types, GoodCall
<1>7. \A h \in Handlers : Carried(call[h])
  BY <1>1 DEF Init, Carried, Answered
<1> QED  BY <1>4, <1>6, <1>7 DEF Inv, InTime

LEMMA Invariant == Spec => []Inv
BY InitInv, NextInv, PTL DEF Spec

-----------------------------------------------------------------------------
(* The theorems. *)

(* The size that ControllerExpandVolume or CreateVolume answers with is at least the one that
   was asked for, where Nobus extends before it answers and rounding stays within 64 bits. *)
THEOREM AnswersAreEnough == Spec => []AnsweredIsEnough
<1>1. Inv => AnsweredIsEnough
  BY DEF Inv, InTime, Carried, Answered, AnsweredOK, AnsweredIsEnough
<1> QED  BY <1>1, Invariant, PTL

(* Under the same conditions the file system has the size once the node has answered too,
   whatever other handlers expanded meanwhile. *)
THEOREM NodesGrow == Spec => []NodeGrown
<1>1. Inv => NodeGrown
  BY DEF Inv, Types, InTime, GoodCall, Carried, NodeGrown
<1> QED  BY <1>1, Invariant, PTL

(* How a volume comes to have another size. *)
LEMMA VolumesChange ==
    ASSUME Types, [Next]_vars, NEW v \in Ids, volumes'[v] # volumes[v]
    PROVE  \/ \E h \in Handlers, range \in Ranges, t \in Topologies \cup {NoTopology},
                 p \in Given : \E size :
                 CreateVolume(h) /\ Makes(h, range, t, p, v, size)
           \/ \E h \in Handlers : \E bytes : call[h].pc = "extend" /\ Extends(h, v, bytes)
           \/ v \in Live /\ volumes'[v].target \in {volumes[v].target, 0}
<1>1. ASSUME NEW h \in Handlers, CreateVolume(h)
      PROVE  \E range \in Ranges, t \in Topologies \cup {NoTopology}, p \in Given :
                \E size : Makes(h, range, t, p, v, size)
  <2>3. PICK range \in Ranges, t \in Topologies \cup {NoTopology}, p \in Given :
               \E id, size : Makes(h, range, t, p, id, size)
    BY <1>1, CreateIs
  <2>1. PICK id, size : Makes(h, range, t, p, id, size)
    BY <2>3
  <2>2. id = v
    BY <2>1 DEF Makes, Types
  <2> QED  BY <2>1, <2>2
<1>2. ASSUME NEW h \in Handlers, ExpandExtend(h)
      PROVE  \E bytes : call[h].pc = "extend" /\ Extends(h, v, bytes)
  <2>1. PICK id, bytes : Extends(h, id, bytes)
    BY <1>2, ExtendIs DEF Refused
  <2>2. id = v
    BY <2>1 DEF Extends, ResizeVolume, Types
  <2> QED  BY <1>2, <2>1, <2>2 DEF ExpandExtend
<1>3. CASE Grow
  <2>1. PICK i \in Live : volumes' = [volumes EXCEPT ![i].size = volumes[i].target]
    BY <1>3 DEF Grow
  <2>2. i = v /\ volumes[v] \in Volume
    BY <2>1 DEF Types
  <2> QED  BY <2>1, <2>2 DEF Types, Volume
<1>4. CASE Removed
  <2>1. PICK i \in Live : volumes' = [volumes EXCEPT ![i] = None]
    BY <1>4 DEF Removed
  <2>2. i = v
    BY <2>1 DEF Types
  <2> QED  BY <2>1, <2>2 DEF Types, None
<1>5. ASSUME NEW h \in Handlers, ExpandStart(h) \/ ExpandGet(h) \/ ExpandRead(h) \/ NodeExpandVolume(h)
      PROVE  FALSE
  BY <1>5 DEF ExpandStart, ExpandGet, ExpandRead, NodeExpandVolume
<1>6. ~ListVolumes /\ ~UNCHANGED vars
  BY DEF ListVolumes, vars
<1> QED  BY <1>1, <1>2, <1>3, <1>4, <1>5, <1>6 DEF Next

(* No volume is made or extended beyond the limit of the request that does it, for all sizes
   that an int64 can have: rounding that wraps around makes and extends nothing. *)
THEOREM LimitsAreKept == Spec => GrownWithinLimit
<1>1. Types /\ [Next]_vars =>
        [\A v \in Ids : volumes'[v].target > volumes[v].target =>
            \E h \in Handlers :
               /\ call'[h] # call[h] /\ call'[h].id = v
               /\ call'[h].range.limit > 0 => volumes'[v].target <= call'[h].range.limit]_vars
  <2> SUFFICES ASSUME Types, [Next]_vars, NEW v \in Ids, volumes'[v].target > volumes[v].target
               PROVE  \E h \in Handlers :
                         /\ call'[h] # call[h] /\ call'[h].id = v
                         /\ call'[h].range.limit > 0 => volumes'[v].target <= call'[h].range.limit
    OBVIOUS
  <2>1. volumes[v] \in Volume /\ volumes[v].target \in Nat
    BY SizesAssumption DEF Types, Volume
  <2>2. volumes'[v].target # volumes[v].target /\ volumes'[v].target # 0
    BY <2>1
  <2>3. ASSUME NEW h \in Handlers, NEW range \in Ranges, NEW t \in Topologies \cup {NoTopology},
               NEW p \in Given, NEW size, CreateVolume(h), Makes(h, range, t, p, v, size)
        PROVE  /\ call'[h] # call[h] /\ call'[h].id = v
               /\ call'[h].range.limit > 0 => volumes'[v].target <= call'[h].range.limit
    <3>1. call[h].pc # "get" /\ call[h].id \notin fresh
      BY <2>3 DEF CreateVolume, Free, Types, GoodCall
    <3>2. call'[h].id = v /\ call'[h].range = range /\ volumes'[v].target = size
      BY <2>3 DEF Makes, Types
    <3> QED  BY <2>3, <3>1, <3>2 DEF Makes
  <2>4. ASSUME NEW h \in Handlers, NEW bytes, call[h].pc = "extend", Extends(h, v, bytes)
        PROVE  /\ call'[h] # call[h] /\ call'[h].id = v
               /\ call'[h].range.limit > 0 => volumes'[v].target <= call'[h].range.limit
    <3>1. /\ volumes' = ResizeVolume(v, bytes) /\ bytes \in call[h].range.required..MaxInt64 /\ bytes > 0
          /\ call[h].range.limit > 0 => bytes <= call[h].range.limit
          /\ call[h].range \in Range64
      BY <2>4, ExtendsIs
    <3>2. bytes \in 1..MaxInt64
      BY <3>1, SizesAssumption DEF Range64
    <3>3. volumes'[v].target = bytes
      BY <3>1, <3>2, ResizeIs DEF Types
    <3>4. call[h] \in Call /\ v = call[h].id
      BY <2>4 DEF Types, Extends
    <3>5. call'[h].pc # "extend" /\ call'[h].id = v /\ call'[h].range = call[h].range
      <4>1. CASE call' = [call EXCEPT ![h].pc = "read"]
        BY <3>4, <4>1 DEF Types, Call
      <4>2. CASE AnswerLost(h)
        <5>1. PICK c \in Call : /\ call' = [call EXCEPT ![h] = c]
                                /\ c.id = call[h].id /\ c.range = call[h].range /\ c.pc = "answered"
          BY <4>2, LostIs
        <5> QED  BY <3>4, <5>1 DEF Types
      <4> QED  BY <2>4, <4>1, <4>2 DEF Extends
    <3> QED  BY <2>4, <3>1, <3>3, <3>5
  <2> QED  BY <2>2, <2>3, <2>4, VolumesChange
<1> QED  BY <1>1, Invariant, PTL DEF Spec, Inv, GrownWithinLimit

(* A new volume is in a zone that the requisite topologies allow, in the preferred one of those
   that comes first, and if nothing is preferred in the one of the parameter availability_zone,
   or else the configured one, when it is allowed: also where the answer is Unavailable. *)
THEOREM ZonesAreKept == Spec => PlacedAsAsked
<1>1. Types /\ [Next]_vars =>
        [\A v \in Ids \ Live : volumes'[v].size # 0 =>
            \E h \in Handlers :
               LET requisite  == call'[h].topology.requisite
                   preferred  == call'[h].topology.preferred
                   zone       == volumes'[v].zone
                   fallback   == fallbackZone(call'[h].parameter)
                   allowed(z) == z # "" /\ (ToSet(requisite) \subseteq {""} \/ z \in ToSet(requisite))
               IN /\ call'[h].id = v /\ allowed(zone)
                  /\ \A i \in DOMAIN preferred :
                        allowed(preferred[i]) => \E j \in 1..i : preferred[j] = zone
                  /\ allowed(fallback) /\ (\A i \in DOMAIN preferred : ~allowed(preferred[i]))
                     => zone = fallback]_vars
  <2> SUFFICES ASSUME Types, [Next]_vars, NEW v \in Ids \ Live, volumes'[v].size # 0
               PROVE  \E h \in Handlers :
                         /\ call'[h].id = v
                         /\ Placed(volumes'[v].zone, call'[h].topology.requisite,
                                   call'[h].topology.preferred, fallbackZone(call'[h].parameter))
    BY DEF Allowed, Placed
  <2>1. volumes'[v] # volumes[v]
    BY DEF Live
  <2>2. ~ \E h \in Handlers : \E bytes : call[h].pc = "extend" /\ Extends(h, v, bytes)
    BY ExtendsIs
  <2>8. PICK h \in Handlers, range \in Ranges, t \in Topologies \cup {NoTopology},
             p \in Given : \E size : Makes(h, range, t, p, v, size)
    BY <2>1, <2>2, VolumesChange
  <2>3. PICK size : Makes(h, range, t, p, v, size)
    BY <2>8
  <2>4. /\ volumes'[v].zone = selectedZone(t.requisite, t.preferred, fallbackZone(p))
        /\ call'[h].topology = t /\ call'[h].id = v /\ call'[h].parameter = p
    BY <2>3 DEF Makes, Placement, Types
  <2>5. PICK requisite \in Seq(Zones \cup {""}), preferred \in Seq(Zones \cup {""}) :
          t.requisite = requisite /\ t.preferred = preferred
    BY TopologyTypes
  <2>6. Placed(selectedZone(requisite, preferred, fallbackZone(p)), requisite, preferred, fallbackZone(p))
    BY FallbackType, ZonesAssumption, SelectedIs
  <2> QED  BY <2>4, <2>5, <2>6
<1> QED  BY <1>1, Invariant, PTL DEF Spec, Inv, PlacedAsAsked

-----------------------------------------------------------------------------
(* Ranks: the place that a number has in the sorted sequence of a set. *)

Below(S, v) == {u \in S : u < v}

LEMMA BelowType ==
    ASSUME NEW S \in SUBSET Nat, IsFiniteSet(S), NEW v \in Nat
    PROVE  IsFiniteSet(Below(S, v)) /\ Cardinality(Below(S, v)) \in Nat
<1>1. Below(S, v) \in SUBSET S
  BY DEF Below
<1> QED  BY <1>1, FS_Subset, FS_CardinalityType

(* What is larger has more below it. *)
LEMMA BelowGrows ==
    ASSUME NEW S \in SUBSET Nat, IsFiniteSet(S), NEW u \in S, NEW v \in Nat, u < v
    PROVE  Cardinality(Below(S, u)) < Cardinality(Below(S, v))
<1>0. u \in Nat /\ ~(u < u) /\ \A w \in S : w \in Nat /\ (w < u => w < v)
  OBVIOUS
<1>1. Below(S, u) \in SUBSET Below(S, v) /\ u \in Below(S, v) /\ u \notin Below(S, u)
  BY <1>0 DEF Below
<1>2. /\ IsFiniteSet(Below(S, v))
      /\ Cardinality(Below(S, v)) \in Nat /\ Cardinality(Below(S, u)) \in Nat
  BY <1>0, BelowType
<1>3. /\ Cardinality(Below(S, u)) <= Cardinality(Below(S, v))
      /\ Cardinality(Below(S, v)) = Cardinality(Below(S, u)) => Below(S, v) = Below(S, u)
  BY <1>1, <1>2, FS_Subset
<1> QED  BY <1>1, <1>2, <1>3

LEMMA BelowDiffers ==
    ASSUME NEW S \in SUBSET Nat, IsFiniteSet(S), NEW u \in S, NEW v \in S,
           Cardinality(Below(S, u)) = Cardinality(Below(S, v))
    PROVE  u = v
<1>1. ~(Cardinality(Below(S, u)) < Cardinality(Below(S, v)))
      /\ ~(Cardinality(Below(S, v)) < Cardinality(Below(S, u)))
  BY BelowType
<1>2. ~(u < v) /\ ~(v < u)
  BY <1>1, BelowGrows
<1> QED  BY <1>2

(* Every place is taken. *)
LEMMA BelowOnto ==
    ASSUME NEW S \in SUBSET Nat, IsFiniteSet(S)
    PROVE  /\ \A v \in S : Cardinality(Below(S, v)) \in 0..(Cardinality(S) - 1)
           /\ \A k \in 0..(Cardinality(S) - 1) : \E v \in S : Cardinality(Below(S, v)) = k
<1> DEFINE n == Cardinality(S)
           R == 0..(n - 1)
           f == [v \in S |-> Cardinality(Below(S, v))]
<1>1. n \in Nat
  BY FS_CardinalityType
<1>2. ASSUME NEW v \in S PROVE Cardinality(Below(S, v)) \in R
  <2>1. Below(S, v) \in SUBSET S /\ Below(S, v) # S /\ v \in Nat
    BY DEF Below
  <2>2. Cardinality(Below(S, v)) <= n /\ Cardinality(Below(S, v)) # n
    BY <2>1, FS_Subset
  <2>3. Cardinality(Below(S, v)) \in Nat
    BY <2>1, BelowType
  <2> HIDE DEF n
  <2> QED  BY <1>1, <2>2, <2>3
<1>3. IsFiniteSet(R) /\ Cardinality(R) = n
  <2> HIDE DEF n
  <2>1. IsFiniteSet(R) /\ Cardinality(R) = IF 0 > n - 1 THEN 0 ELSE n - 1 - 0 + 1
    BY <1>1, FS_Interval
  <2> QED  BY <1>1, <2>1
<1>4. f \in Injection(S, R)
  BY <1>2, BelowDiffers, Fun_IsInj
<1>5. f \in Surjection(S, R)
  BY <1>3, <1>4, FS_Injection
<1>6. \A k \in R : \E v \in S : f[v] = k
  BY <1>5 DEF Surjection
<1> QED  BY <1>2, <1>6

(* An order in which Nobus can list a set has all of it. *)
LEMMA ListedIs ==
    ASSUME NEW S, IsFiniteSet(S), NEW items \in SetToSeqs(S)
    PROVE  DOMAIN items = 1..Cardinality(S) /\ ToSet(items) = S
<1> DEFINE D == 1..Cardinality(S)
<1>1. items \in [D -> S] /\ \A i, j \in D : i # j => items[i] # items[j]
  BY DEF SetToSeqs
<1>2. Cardinality(S) \in Nat
  BY FS_CardinalityType
<1>3. IsFiniteSet(D) /\ Cardinality(D) = Cardinality(S)
  BY <1>2, FS_Interval
<1>4. items \in Injection(D, S)
  BY <1>1, Fun_IsInj
<1>5. items \in Surjection(D, S)
  BY <1>3, <1>4, FS_Injection
<1> QED  BY <1>1, <1>5 DEF Surjection, ToSet

(* The sorted list has each number at its place. *)
LEMMA SortedIs ==
    ASSUME NEW S \in SUBSET Nat, IsFiniteSet(S), NEW items \in SetToSeqs(S)
    PROVE  /\ Sorted(items) \in Seq(S) /\ Len(Sorted(items)) = Cardinality(S)
           /\ \A i \in 1..Cardinality(S) : Cardinality(Below(S, Sorted(items)[i])) = i - 1
           /\ \A v \in S : /\ Cardinality(Below(S, v)) + 1 \in 1..Cardinality(S)
                           /\ Sorted(items)[Cardinality(Below(S, v)) + 1] = v
<1> DEFINE n == Cardinality(S)
           Place(v, i) == Cardinality(Below(S, v)) = i - 1
           s == Sorted(items)
<1>1. n \in Nat
  BY FS_CardinalityType
<1>2. DOMAIN items = 1..n /\ ToSet(items) = S
  BY ListedIs
<1>3. s = [i \in 1..n |-> CHOOSE v \in S : Place(v, i)]
  BY <1>2 DEF Sorted, Below
<1>4. ASSUME NEW i \in 1..n PROVE s[i] \in S /\ Place(s[i], i)
  <2>1. i - 1 \in 0..(n - 1)
    BY <1>1
  <2>2. \E v \in S : Place(v, i)
    BY <2>1, BelowOnto
  <2> HIDE DEF Place
  <2>3. s[i] = CHOOSE v \in S : Place(v, i)
    BY <1>3
  <2> QED  BY <2>2, <2>3
<1> HIDE DEF s
<1>5. s \in Seq(S) /\ Len(s) = n
  <2>1. s \in [1..n -> S]
    BY <1>3, <1>4
  <2> QED  BY <1>1, <2>1
<1>6. ASSUME NEW v \in S
      PROVE  Cardinality(Below(S, v)) + 1 \in 1..n /\ s[Cardinality(Below(S, v)) + 1] = v
  <2>1. PICK k \in 0..(n - 1) : k = Cardinality(Below(S, v))
    BY BelowOnto
  <2>2. k + 1 \in 1..n /\ (k + 1) - 1 = k
    BY <1>1, <2>1
  <2>3. PICK w \in S : w = s[k + 1] /\ Cardinality(Below(S, w)) = k
    BY <1>4, <2>2
  <2>4. w = v
    BY <2>1, <2>3, BelowDiffers
  <2> QED  BY <2>1, <2>2, <2>3, <2>4
<1> QED  BY <1>4, <1>5, <1>6 DEF s

(* A page has the places from its token on, in order; what is at a later place is at the next
   token or after it. *)
Paged(S, start, page, next) ==
    /\ page \in Seq(S) /\ next \in Nat
    /\ next # 0 => next = start + Len(page)
    /\ \A i \in 1..Len(page) : Cardinality(Below(S, page[i])) = start + i - 1
    /\ \A v \in S : Cardinality(Below(S, v)) >= start =>
          v \in ToSet(page) \/ (next # 0 /\ Cardinality(Below(S, v)) >= next)

LEMMA SubSeqPaged ==
    ASSUME NEW S \in SUBSET Nat, IsFiniteSet(S), NEW items \in SetToSeqs(S),
           NEW start \in Nat, NEW last \in 0..Cardinality(S), NEW next \in Nat,
           next # 0 => next = last /\ start <= last, next = 0 => last = Cardinality(S)
    PROVE  Paged(S, start, SubSeq(Sorted(items), start + 1, last), next)
<1> DEFINE s == Sorted(items)
           n == Cardinality(S)
           page == SubSeq(s, start + 1, last)
<1>1. n \in Nat
  BY FS_CardinalityType
<1>2. /\ s \in Seq(S) /\ Len(s) = n
      /\ \A i \in 1..n : Cardinality(Below(S, s[i])) = i - 1
      /\ \A v \in S : Cardinality(Below(S, v)) + 1 \in 1..n /\ s[Cardinality(Below(S, v)) + 1] = v
  BY SortedIs
<1> HIDE DEF s, n
<1>3. \A i \in (start + 1)..last : i \in 1..n /\ s[i] \in S
  <2> SUFFICES ASSUME NEW i \in (start + 1)..last PROVE i \in 1..n /\ s[i] \in S  OBVIOUS
  <2>1. i \in 1..n
    BY <1>1 DEF n
  <2> QED  BY <1>2, <2>1, ElementOfSeq
<1>4. /\ page \in Seq(S)
      /\ Len(page) = IF start + 1 <= last THEN last - (start + 1) + 1 ELSE 0
      /\ \A i \in 1..(last - (start + 1) + 1) : page[i] = s[start + 1 + i - 1]
  BY <1>1, <1>3, SubSeqProperties
<1> HIDE DEF page
<1>5. last \in Nat /\ last <= n
  BY <1>1 DEF n
<1>6. next # 0 => next = start + Len(page)
  BY <1>4, <1>5
<1>7. ASSUME NEW i \in 1..Len(page) PROVE page[i] = s[start + i] /\ start + i \in 1..n
  <2>1. start + 1 <= last /\ i \in 1..(last - start) /\ i \in 1..(last - (start + 1) + 1)
    BY <1>4, <1>5
  <2>2. page[i] = s[start + 1 + i - 1] /\ start + 1 + i - 1 = start + i
    BY <1>4, <2>1
  <2>3. start + i \in 1..n
    BY <1>1, <1>5, <2>1
  <2> QED  BY <2>2, <2>3
<1>8. \A i \in 1..Len(page) : Cardinality(Below(S, page[i])) = start + i - 1
  BY <1>2, <1>7
<1>9. ASSUME NEW v \in S, Cardinality(Below(S, v)) >= start
      PROVE  v \in ToSet(page) \/ (next # 0 /\ Cardinality(Below(S, v)) >= next)
  <2>1. PICK k \in 1..n : k = Cardinality(Below(S, v)) + 1 /\ s[k] = v
    BY <1>2
  <2>2. PICK b \in Nat : b = Cardinality(Below(S, v)) /\ k = b + 1
    BY <2>1, BelowType
  <2>3. CASE b >= last
    <3>1. next # 0 /\ b >= next
      BY <1>1, <1>5, <2>2, <2>3 DEF n
    <3> QED  BY <2>2, <3>1
  <2>4. CASE ~(b >= last)
    <3>1. PICK i \in 1..(last - (start + 1) + 1) : start + i = k /\ i \in 1..Len(page)
      <4>1. k - start \in 1..(last - (start + 1) + 1) /\ k - start \in 1..Len(page)
            /\ start + (k - start) = k
        BY <1>4, <1>5, <1>9, <2>2, <2>4
      <4> QED  BY <4>1
    <3>2. page[i] = v /\ i \in DOMAIN page
      BY <1>4, <1>7, <2>1, <3>1, LenProperties
    <3> QED  BY <3>2 DEF ToSet
  <2> QED  BY <2>3, <2>4
<1> QED  BY <1>4, <1>6, <1>8, <1>9 DEF Paged, page, s

LEMMA PageIs ==
    ASSUME NEW S \in SUBSET Nat, IsFiniteSet(S), NEW items \in SetToSeqs(S),
           NEW start \in Nat, NEW size \in Nat
    PROVE  \E page, next : /\ paginate(Sorted(items), start, size) = [page |-> page, next |-> next]
                           /\ Paged(S, start, page, next)
<1> DEFINE s == Sorted(items)
           n == Cardinality(S)
<1>1. n \in Nat /\ Len(s) = n
  BY FS_CardinalityType, SortedIs
<1>2. CASE size = 0 \/ start + size >= n
  <2>1. paginate(s, start, size) = [page |-> SubSeq(s, start + 1, n), next |-> 0]
    BY <1>1, <1>2 DEF paginate
  <2>2. Paged(S, start, SubSeq(s, start + 1, n), 0)
    BY <1>1, SubSeqPaged
  <2> QED  BY <2>1, <2>2
<1>3. CASE ~(size = 0 \/ start + size >= n)
  <2>1. paginate(s, start, size) = [page |-> SubSeq(s, start + 1, start + size), next |-> start + size]
    BY <1>1, <1>3 DEF paginate
  <2>2. Paged(S, start, SubSeq(s, start + 1, start + size), start + size)
    <3>1. start + size \in 0..n /\ start + size \in Nat /\ start + size # 0 /\ start <= start + size
      BY <1>1, <1>3
    <3> QED  BY <3>1, SubSeqPaged
  <2> QED  BY <2>1, <2>2
<1> QED  BY <1>2, <1>3

LEMMA BelowMono ==
    ASSUME NEW T \in SUBSET Nat, IsFiniteSet(T), NEW S \in SUBSET T, NEW v \in Nat
    PROVE  Cardinality(Below(S, v)) <= Cardinality(Below(T, v))
<1>1. Below(S, v) \in SUBSET Below(T, v)
  BY DEF Below
<1> QED  BY <1>1, BelowType, FS_Subset

-----------------------------------------------------------------------------
(* The listing.  A volume has a rank among those that a page lists: its index in the sorted
   list.  While a caller reads on, a volume that was there from the first page is listed, or has
   a rank that the token did not pass, or something below it was removed; what is listed has a
   rank that the token passed, or something below it was created. *)

Rank(v) == Cardinality(Below(InZone, v))

Listing == [on : BOOLEAN, size : Nat, token : Nat, seen : Seq(Ids),
            first : SUBSET Ids, came : SUBSET Ids, gone : SUBSET Ids]

Ahead(l) ==
    \A v \in l.first \ l.gone :
        v \in InZone /\ (v \in ToSet(l.seen) \/ (\E g \in l.gone : g < v) \/ Rank(v) >= l.token)

Behind(l) ==
    \A v \in ToSet(l.seen) :
        v \notin fresh /\ (v \in InZone => (\E c \in l.came : c < v) \/ Rank(v) < l.token)

Complete(l) ==
    \A v \in l.first \ l.gone : v \in ToSet(l.seen) \/ \E g \in l.gone : g < v

Once(l) ==
    \A i, j \in DOMAIN l.seen :
        i # j /\ l.seen[i] = l.seen[j] => \E c \in l.came : c < l.seen[i]

Reading(l) ==
    /\ l \in Listing /\ Once(l)
    /\ l.on => Ahead(l) /\ Behind(l)
    /\ ~l.on => Complete(l)

LEMMA ZoneFinite == InZone \in SUBSET Nat /\ IsFiniteSet(InZone) /\ InZone \subseteq Ids /\ Ids \subseteq Nat
<1>1. InZone \in SUBSET Ids
  BY DEF InZone, Live
<1> QED  BY <1>1, IdsAssumption, FS_Subset

LEMMA RankType == ASSUME NEW v \in Ids PROVE Rank(v) \in Nat
BY ZoneFinite, BelowType DEF Rank

LEMMA RankTypeNext == ASSUME NEW v \in Ids PROVE Rank(v)' \in Nat
<1>1. InZone' \in SUBSET Ids /\ Ids \subseteq Nat /\ v \in Nat
  BY IdsAssumption DEF InZone, Live
<1>2. InZone' \in SUBSET Nat /\ IsFiniteSet(InZone')
  BY <1>1, IdsAssumption, FS_Subset
<1> QED  BY <1>1, <1>2, BelowType DEF Rank

(* The fields of a listing one of which changes. *)
LEMMA CameIs ==
    ASSUME NEW l \in Listing, NEW X \in SUBSET Ids, NEW m, m = [l EXCEPT !.came = X]
    PROVE  /\ m \in Listing /\ m.came = X /\ m.on = l.on
           /\ m.token = l.token /\ m.seen = l.seen /\ m.first = l.first /\ m.gone = l.gone
BY DEF Listing

LEMMA GoneIs ==
    ASSUME NEW l \in Listing, NEW X \in SUBSET Ids, NEW m, m = [l EXCEPT !.gone = X]
    PROVE  /\ m \in Listing /\ m.gone = X /\ m.on = l.on
           /\ m.token = l.token /\ m.seen = l.seen /\ m.first = l.first /\ m.came = l.came
BY DEF Listing

(* A volume that is created raises the ranks above it only, and is remembered. *)
LEMMA CameReading ==
    ASSUME Reading(listing), fresh \subseteq Ids, NEW id \in fresh, fresh' = fresh \ {id},
           InZone \subseteq InZone', InZone' \subseteq InZone \cup {id},
           listing' = [listing EXCEPT !.came = IF listing.on THEN @ \cup {id} ELSE @]
    PROVE  Reading(listing)'
<1>0. listing \in Listing /\ Once(listing)
  BY DEF Reading
<1>1. PICK X \in SUBSET Ids : /\ X = IF listing.on THEN listing.came \cup {id} ELSE listing.came
                              /\ listing' = [listing EXCEPT !.came = X]
  BY <1>0 DEF Listing
<1>2. /\ listing' \in Listing /\ listing'.came = X /\ listing'.on = listing.on
      /\ listing'.token = listing.token /\ listing'.seen = listing.seen
      /\ listing'.first = listing.first /\ listing'.gone = listing.gone
  BY <1>0, <1>1, CameIs
<1>3. listing.came \subseteq X /\ (listing.on => id \in X)
  BY <1>1
<1>4. /\ InZone \in SUBSET Nat /\ IsFiniteSet(InZone) /\ InZone \subseteq Ids /\ Ids \subseteq Nat
      /\ InZone' \in SUBSET Nat /\ IsFiniteSet(InZone')
  <2>1. InZone \in SUBSET Nat /\ IsFiniteSet(InZone) /\ InZone \subseteq Ids /\ Ids \subseteq Nat
    BY ZoneFinite
  <2>2. InZone' \in SUBSET Ids
    BY <2>1
  <2>3. IsFiniteSet(InZone')
    BY <2>2, IdsAssumption, FS_Subset
  <2> QED  BY <2>1, <2>2, <2>3
<1>5. ASSUME NEW v \in Ids
      PROVE  Rank(v) \in Nat /\ Rank(v)' \in Nat /\ Rank(v) <= Rank(v)' /\ (~(id < v) => Rank(v)' = Rank(v))
  <2>1. v \in Nat /\ Rank(v) = Cardinality(Below(InZone, v)) /\ Rank(v)' = Cardinality(Below(InZone', v))
    BY <1>4 DEF Rank
  <2>2. ~(id < v) => Below(InZone', v) = Below(InZone, v)
    BY DEF Below
  <2> QED  BY <1>4, <2>1, <2>2, BelowMono, BelowType
<1>6. Once(listing)'
  BY <1>0, <1>2, <1>3 DEF Once
<1>7. ASSUME listing.on PROVE Ahead(listing)' /\ Behind(listing)'
  <2>1. Ahead(listing) /\ Behind(listing)
    BY <1>7 DEF Reading
  <2>2. listing.token \in Nat /\ listing.first \subseteq Ids /\ ToSet(listing.seen) \subseteq Ids
    BY <1>0, SeqElement DEF Listing, ToSet
  <2>3. Ahead(listing)'
    <3> SUFFICES ASSUME NEW v \in listing.first \ listing.gone
                 PROVE  /\ v \in InZone'
                        /\ v \in ToSet(listing.seen) \/ (\E g \in listing.gone : g < v)
                           \/ Rank(v)' >= listing.token
      BY <1>2 DEF Ahead, Rank
    <3>1. /\ v \in InZone
          /\ v \in ToSet(listing.seen) \/ (\E g \in listing.gone : g < v) \/ Rank(v) >= listing.token
      BY <2>1 DEF Ahead
    <3>2. Rank(v) \in Nat /\ Rank(v)' \in Nat /\ Rank(v) <= Rank(v)'
      BY <1>5, <2>2
    <3>3. Rank(v) >= listing.token => Rank(v)' >= listing.token
      BY <2>2, <3>2
    <3> QED  BY <3>1, <3>3
  <2>4. Behind(listing)'
    <3> SUFFICES ASSUME NEW v \in ToSet(listing.seen)
                 PROVE  /\ v \notin fresh'
                        /\ v \in InZone' => (\E c \in X : c < v) \/ Rank(v)' < listing.token
      BY <1>2 DEF Behind, Rank
    <3>1. v \notin fresh /\ (v \in InZone => (\E c \in listing.came : c < v) \/ Rank(v) < listing.token)
      BY <2>1 DEF Behind
    <3>2. v \in InZone' => v \in InZone
      BY <3>1
    <3>3. id \in X
      BY <1>3, <1>7
    <3>4. ~(id < v) => Rank(v)' = Rank(v)
      BY <1>5, <2>2
    <3> QED  BY <1>3, <3>1, <3>2, <3>3, <3>4
  <2> QED  BY <2>3, <2>4
<1>8. ASSUME ~listing.on PROVE Complete(listing)'
  BY <1>2, <1>8 DEF Complete, Reading
<1> QED  BY <1>2, <1>6, <1>7, <1>8 DEF Reading

(* A volume that is removed lowers the ranks above it only, and is remembered. *)
LEMMA GoneReading ==
    ASSUME Reading(listing), NEW id \in Ids, fresh' = fresh, InZone' = InZone \ {id},
           listing' = [listing EXCEPT !.gone = IF listing.on THEN @ \cup {id} ELSE @]
    PROVE  Reading(listing)'
<1>0. listing \in Listing /\ Once(listing)
  BY DEF Reading
<1>1. PICK X \in SUBSET Ids : /\ X = IF listing.on THEN listing.gone \cup {id} ELSE listing.gone
                              /\ listing' = [listing EXCEPT !.gone = X]
  BY <1>0 DEF Listing
<1>2. /\ listing' \in Listing /\ listing'.gone = X /\ listing'.on = listing.on
      /\ listing'.token = listing.token /\ listing'.seen = listing.seen
      /\ listing'.first = listing.first /\ listing'.came = listing.came
  BY <1>0, <1>1, GoneIs
<1>3. listing.gone \subseteq X /\ (listing.on => id \in X)
  BY <1>1
<1>4. /\ InZone \in SUBSET Nat /\ IsFiniteSet(InZone) /\ InZone \subseteq Ids /\ Ids \subseteq Nat
      /\ InZone' \in SUBSET Nat /\ IsFiniteSet(InZone') /\ InZone' \in SUBSET InZone
  <2>1. InZone \in SUBSET Nat /\ IsFiniteSet(InZone) /\ InZone \subseteq Ids /\ Ids \subseteq Nat
    BY ZoneFinite
  <2>2. InZone' \in SUBSET InZone
    OBVIOUS
  <2>3. IsFiniteSet(InZone')
    BY <2>1, <2>2, FS_Subset
  <2> QED  BY <2>1, <2>2, <2>3
<1>5. ASSUME NEW v \in Ids
      PROVE  Rank(v) \in Nat /\ Rank(v)' \in Nat /\ Rank(v)' <= Rank(v) /\ (~(id < v) => Rank(v)' = Rank(v))
  <2>1. v \in Nat /\ Rank(v) = Cardinality(Below(InZone, v)) /\ Rank(v)' = Cardinality(Below(InZone', v))
    BY <1>4 DEF Rank
  <2>2. ~(id < v) => Below(InZone', v) = Below(InZone, v)
    BY DEF Below
  <2> QED  BY <1>4, <2>1, <2>2, BelowMono, BelowType
<1>6. Once(listing)'
  BY <1>0, <1>2 DEF Once
<1>7. ASSUME listing.on PROVE Ahead(listing)' /\ Behind(listing)'
  <2>1. Ahead(listing) /\ Behind(listing)
    BY <1>7 DEF Reading
  <2>2. listing.token \in Nat /\ listing.first \subseteq Ids /\ ToSet(listing.seen) \subseteq Ids
    BY <1>0, SeqElement DEF Listing, ToSet
  <2>3. Ahead(listing)'
    <3> SUFFICES ASSUME NEW v \in listing.first \ X
                 PROVE  /\ v \in InZone'
                        /\ v \in ToSet(listing.seen) \/ (\E g \in X : g < v) \/ Rank(v)' >= listing.token
      BY <1>2 DEF Ahead, Rank
    <3>1. v \in listing.first \ listing.gone /\ v # id
      BY <1>3, <1>7
    <3>2. /\ v \in InZone
          /\ v \in ToSet(listing.seen) \/ (\E g \in listing.gone : g < v) \/ Rank(v) >= listing.token
      BY <2>1, <3>1 DEF Ahead
    <3>3. ~(id < v) => Rank(v)' = Rank(v)
      BY <1>5, <2>2
    <3> QED  BY <1>3, <1>7, <3>1, <3>2, <3>3
  <2>4. Behind(listing)'
    <3> SUFFICES ASSUME NEW v \in ToSet(listing.seen)
                 PROVE  /\ v \notin fresh'
                        /\ v \in InZone' => (\E c \in listing.came : c < v) \/ Rank(v)' < listing.token
      BY <1>2 DEF Behind, Rank
    <3>1. v \notin fresh /\ (v \in InZone => (\E c \in listing.came : c < v) \/ Rank(v) < listing.token)
      BY <2>1 DEF Behind
    <3>2. Rank(v) \in Nat /\ Rank(v)' \in Nat /\ Rank(v)' <= Rank(v)
      BY <1>5, <2>2
    <3>3. Rank(v) < listing.token => Rank(v)' < listing.token
      BY <2>2, <3>2
    <3> QED  BY <3>1, <3>3
  <2> QED  BY <2>3, <2>4
<1>8. ASSUME ~listing.on PROVE Complete(listing)'
  BY <1>1, <1>2, <1>8 DEF Complete, Reading
<1> QED  BY <1>2, <1>6, <1>7, <1>8 DEF Reading

(* What a page adds to a listing has no rank that the token passed. *)
LEMMA AddPage ==
    ASSUME NEW l \in Listing, Ahead(l), Behind(l), Once(l), InZone \cap fresh = {},
           NEW page, NEW next, Paged(InZone, l.token, page, next),
           NEW m, m = [l EXCEPT !.on = next # 0, !.token = next, !.seen = @ \o page]
    PROVE  Reading(m)
<1> DEFINE seen == l.seen \o page
           n == Len(l.seen)
<1>1. /\ InZone \in SUBSET Nat /\ IsFiniteSet(InZone) /\ InZone \subseteq Ids /\ Ids \subseteq Nat
  BY ZoneFinite
<1>2. /\ page \in Seq(InZone) /\ next \in Nat /\ (next # 0 => next = l.token + Len(page))
      /\ \A i \in 1..Len(page) : Rank(page[i]) = l.token + i - 1
      /\ \A v \in InZone : Rank(v) >= l.token =>
            v \in ToSet(page) \/ (next # 0 /\ Rank(v) >= next)
  BY DEF Paged, Rank
<1>3. /\ page \in Seq(Ids) /\ l.seen \in Seq(Ids) /\ l.token \in Nat
      /\ l.first \subseteq Ids /\ l.gone \subseteq Ids /\ l.came \subseteq Ids
  BY <1>1, <1>2 DEF Listing
<1>4. /\ n \in Nat /\ DOMAIN l.seen = 1..n /\ Len(page) \in Nat /\ DOMAIN page = 1..Len(page)
  BY <1>3, LenProperties
<1>5. /\ seen \in Seq(Ids) /\ Len(seen) = n + Len(page)
      /\ \A i \in 1..(n + Len(page)) : seen[i] = IF i <= n THEN l.seen[i] ELSE page[i - n]
  BY <1>3, ConcatProperties
<1>6. DOMAIN seen = 1..(n + Len(page))
  BY <1>5, LenProperties
<1>7. PICK on \in BOOLEAN : on = (next # 0)
  OBVIOUS
<1>8. m = [l EXCEPT !.on = on, !.token = next, !.seen = seen]
  BY <1>7
<1> HIDE DEF seen, n
<1>9. /\ m \in Listing /\ m.on = on /\ m.token = next /\ m.seen = seen
      /\ m.first = l.first /\ m.came = l.came /\ m.gone = l.gone
  <2>1. PICK q \in Seq(Ids), t \in Nat : q = seen /\ t = next
    BY <1>2, <1>5
  <2>2. m = [l EXCEPT !.on = on, !.token = t, !.seen = q]
    BY <1>8, <2>1
  <2>3. /\ m \in Listing /\ m.on = on /\ m.token = t /\ m.seen = q
        /\ m.first = l.first /\ m.came = l.came /\ m.gone = l.gone
    BY <2>2 DEF Listing
  <2> QED  BY <2>1, <2>3
<1>10. ASSUME NEW i \in DOMAIN seen
       PROVE  \/ i \in DOMAIN l.seen /\ seen[i] = l.seen[i]
              \/ \E a \in DOMAIN page : i = n + a /\ seen[i] = page[a]
  <2>1. CASE i <= n
    BY <1>4, <1>5, <1>6, <2>1
  <2>2. CASE ~(i <= n)
    <3>1. i - n \in DOMAIN page /\ i = n + (i - n) /\ seen[i] = page[i - n]
      BY <1>4, <1>5, <1>6, <2>2
    <3> QED  BY <3>1
  <2> QED  BY <2>1, <2>2
<1>11. ASSUME NEW i \in DOMAIN l.seen PROVE i \in DOMAIN seen /\ seen[i] = l.seen[i]
  BY <1>4, <1>5, <1>6
<1>12. ASSUME NEW a \in DOMAIN page PROVE n + a \in DOMAIN seen /\ seen[n + a] = page[a]
  <2>1. n + a \in 1..(n + Len(page)) /\ ~(n + a <= n) /\ (n + a) - n = a
    BY <1>4
  <2> QED  BY <1>5, <1>6, <2>1
<1>13. ToSet(seen) = ToSet(l.seen) \cup ToSet(page)
  BY <1>10, <1>11, <1>12 DEF ToSet
<1>14. ASSUME NEW a \in DOMAIN page
       PROVE  page[a] \in InZone /\ Rank(page[a]) = l.token + a - 1 /\ Rank(page[a]) \in Nat
  BY <1>1, <1>2, <1>4, SeqElement, RankType
<1>15. ASSUME NEW i \in DOMAIN seen, NEW a \in DOMAIN page, i # n + a, seen[i] = page[a]
       PROVE  \E c \in l.came : c < page[a]
  <2>1. CASE i \in DOMAIN l.seen /\ seen[i] = l.seen[i]
    <3>1. page[a] \in ToSet(l.seen)
      BY <1>15, <2>1 DEF ToSet
    <3>2. ~(Rank(page[a]) < l.token)
      BY <1>3, <1>4, <1>14
    <3> QED  BY <1>14, <3>1, <3>2 DEF Behind
  <2>2. ASSUME NEW b \in DOMAIN page, i = n + b, seen[i] = page[b] PROVE FALSE
    <3>1. l.token + a - 1 = l.token + b - 1
      BY <1>14, <1>15, <2>2
    <3>2. a = b
      BY <1>3, <1>4, <3>1
    <3> QED  BY <1>15, <2>2, <3>2
  <2> QED  BY <1>10, <2>1, <2>2
<1>16. Once(m)
  <2> SUFFICES ASSUME NEW i \in DOMAIN seen, NEW j \in DOMAIN seen, i # j, seen[i] = seen[j]
               PROVE  \E c \in l.came : c < seen[i]
    BY <1>9 DEF Once
  <2>1. CASE i \in DOMAIN l.seen /\ seen[i] = l.seen[i] /\ j \in DOMAIN l.seen /\ seen[j] = l.seen[j]
    BY <2>1 DEF Once
  <2>2. ASSUME NEW a \in DOMAIN page, i = n + a, seen[i] = page[a]
        PROVE  \E c \in l.came : c < seen[i]
    BY <1>15, <2>2
  <2>3. ASSUME NEW a \in DOMAIN page, j = n + a, seen[j] = page[a]
        PROVE  \E c \in l.came : c < seen[i]
    BY <1>15, <2>3
  <2> QED  BY <1>10, <2>1, <2>2, <2>3
<1>17. ASSUME NEW v \in l.first \ l.gone
       PROVE  /\ v \in InZone
              /\ \/ v \in ToSet(seen) \/ \E g \in l.gone : g < v
                 \/ next # 0 /\ Rank(v) >= next
  BY <1>2, <1>13 DEF Ahead
<1>18. ASSUME on PROVE Ahead(m)
  BY <1>9, <1>17 DEF Ahead
<1>19. ASSUME on PROVE Behind(m)
  <2>1. next = l.token + Len(page)
    BY <1>2, <1>7, <1>19
  <2> SUFFICES ASSUME NEW v \in ToSet(seen)
               PROVE  v \notin fresh /\ (v \in InZone => (\E c \in l.came : c < v) \/ Rank(v) < next)
    BY <1>9 DEF Behind
  <2>2. CASE v \in ToSet(l.seen)
    <3>1. v \notin fresh /\ (v \in InZone => (\E c \in l.came : c < v) \/ Rank(v) < l.token)
      BY <2>2 DEF Behind
    <3>2. v \in InZone /\ Rank(v) < l.token => Rank(v) < next
      BY <1>1, <1>3, <1>4, <2>1, RankType
    <3> QED  BY <3>1, <3>2
  <2>3. CASE v \in ToSet(page)
    <3>1. PICK a \in DOMAIN page : page[a] = v
      BY <2>3 DEF ToSet
    <3>2. Rank(v) = l.token + a - 1 /\ v \in InZone
      BY <1>14, <3>1
    <3>3. Rank(v) < next
      BY <1>3, <1>4, <2>1, <3>2
    <3> QED  BY <3>2, <3>3
  <2> QED  BY <1>13, <2>2, <2>3
<1>20. ASSUME ~on PROVE Complete(m)
  BY <1>7, <1>9, <1>17, <1>20 DEF Complete
<1> QED  BY <1>9, <1>16, <1>18, <1>19, <1>20 DEF Reading

(* The first page starts with what is there, at rank 0. *)
LEMMA NowReading ==
    ASSUME Reading(listing), ~listing.on, NEW size \in Nat, NEW l,
           l = [Unlisted EXCEPT !.on = TRUE, !.size = size, !.first = InZone]
    PROVE  l \in Listing /\ Ahead(l) /\ Behind(l) /\ Once(l)
<1>1. /\ l.seen = <<>> /\ l.first = InZone /\ l.gone = {} /\ l.came = {} /\ l.token = 0
  BY DEF Unlisted
<1>2. l \in Listing
  <2>1. <<>> \in Seq(Ids) /\ InZone \subseteq Ids
    BY ZoneFinite
  <2> QED  BY <2>1 DEF Unlisted, Listing
<1>3. ToSet(l.seen) = {} /\ DOMAIN l.seen = {}
  BY <1>1 DEF ToSet
<1>4. \A v \in InZone : Rank(v) >= 0
  BY ZoneFinite, RankType
<1> QED  BY <1>1, <1>2, <1>3, <1>4 DEF Ahead, Behind, Once

LEMMA PageReading ==
    ASSUME Reading(listing), InZone \cap fresh = {}, ListVolumes PROVE Reading(listing)'
<1>1. PICK items \in SetToSeqs(InZone),
           size \in IF listing.on THEN {listing.size} ELSE PageSizes :
          LET now  == IF listing.on THEN listing
                      ELSE [Unlisted EXCEPT !.on = TRUE, !.size = size, !.first = InZone]
              part == paginate(Sorted(items), now.token, size)
          IN listing' = [now EXCEPT !.on = part.next # 0, !.token = part.next,
                                    !.seen = @ \o part.page]
  BY DEF ListVolumes
<1>2. listing \in Listing /\ size \in Nat
  BY RequestsAssumption DEF Reading, Listing
<1>3. PICK l : l = IF listing.on THEN listing
                   ELSE [Unlisted EXCEPT !.on = TRUE, !.size = size, !.first = InZone]
  OBVIOUS
<1>4. l \in Listing /\ Ahead(l) /\ Behind(l) /\ Once(l)
  <2>1. CASE listing.on
    BY <1>2, <1>3, <2>1 DEF Reading
  <2>2. CASE ~listing.on
    BY <1>2, <1>3, <2>2, NowReading
  <2> QED  BY <2>1, <2>2
<1>5. l.token \in Nat
  BY <1>4 DEF Listing
<1>6. PICK page, next : /\ paginate(Sorted(items), l.token, size) = [page |-> page, next |-> next]
                        /\ Paged(InZone, l.token, page, next)
  BY <1>2, <1>5, ZoneFinite, PageIs
<1>7. listing' = [l EXCEPT !.on = next # 0, !.token = next, !.seen = @ \o page]
  <2>1. PICK part : /\ part = paginate(Sorted(items), l.token, size)
                    /\ listing' = [l EXCEPT !.on = part.next # 0, !.token = part.next,
                                           !.seen = @ \o part.page]
    BY <1>1, <1>3, Zenon
  <2>2. part.page = page /\ part.next = next
    BY <1>6, <2>1
  <2> QED  BY <2>1, <2>2
<1>8. PICK m : m = listing'
  OBVIOUS
<1>9. Reading(m)
  BY <1>4, <1>6, <1>7, <1>8, AddPage
<1>10. InZone' = InZone /\ fresh' = fresh
  BY DEF ListVolumes, InZone, Live
<1>11. Reading(m)'
  BY <1>9, <1>10 DEF Reading, Ahead, Behind, Once, Complete, Rank
<1> QED  BY <1>8, <1>11 DEF Reading, Ahead, Behind, Once, Complete, Rank

(* Which volumes the configured zone has changes when one is created or removed: expansions
   change neither a zone nor, as no size becomes 0, the volumes that are there. *)
Sized == \A v \in Live : volumes[v].target # 0

ZoneKept == InZone' = InZone /\ fresh' = fresh /\ listing' = listing

ZoneGrows(id) ==
    /\ id \in fresh /\ fresh' = fresh \ {id} /\ InZone \subseteq InZone' /\ InZone' \subseteq InZone \cup {id}
    /\ listing' = [listing EXCEPT !.came = IF listing.on THEN @ \cup {id} ELSE @]

ZoneShrinks(id) ==
    /\ id \in Ids /\ fresh' = fresh /\ InZone' = InZone \ {id}
    /\ listing' = [listing EXCEPT !.gone = IF listing.on THEN @ \cup {id} ELSE @]

LEMMA QuietZone ==
    ASSUME Sized, UNCHANGED <<volumes, fresh, listing>> PROVE Sized' /\ ZoneKept
BY DEF Sized, ZoneKept, InZone, Live

LEMMA CreateZone ==
    ASSUME Inv, Sized, NEW h \in Handlers, CreateVolume(h)
    PROVE  Sized' /\ (ZoneKept \/ \E id : ZoneGrows(id))
<1>1. CASE \E code \in Errors : Failed(h, code) /\ UNCHANGED <<volumes, fresh, filesystem, listing>>
  BY <1>1, QuietZone
<1>2. ASSUME NEW range, NEW t, NEW p, NEW id, NEW size, Makes(h, range, t, p, id, size)
      PROVE  Sized' /\ ZoneGrows(id)
  <2>0. PICK new : new = [size |-> size, target |-> size,
                          zone |-> Placement(t, p)]
    OBVIOUS
  <2>1. volumes' = [volumes EXCEPT ![id] = new] /\ new.size = size /\ new.target = size
    BY <1>2, <2>0 DEF Makes
  <2>2. /\ id \in fresh /\ fresh' = fresh \ {id} /\ id \in Ids /\ id \notin Live /\ size # 0
        /\ listing' = [listing EXCEPT !.came = IF listing.on THEN @ \cup {id} ELSE @]
    BY <1>2 DEF Makes, Inv, Types
  <2>3. volumes'[id] = new /\ \A v \in Ids \ {id} : volumes'[v] = volumes[v]
    BY <2>1, <2>2 DEF Inv, Types
  <2>4. Live' = Live \cup {id}
    BY <2>1, <2>2, <2>3 DEF Live
  <2>5. Sized'
    BY <2>1, <2>2, <2>3, <2>4 DEF Sized, Live
  <2>6. InZone \subseteq InZone' /\ InZone' \subseteq InZone \cup {id}
    BY <2>2, <2>3, <2>4 DEF InZone, Live
  <2> QED  BY <2>2, <2>5, <2>6 DEF ZoneGrows
<1> QED  BY <1>1, <1>2, CreateIs

LEMMA ExtendZone ==
    ASSUME Inv, Sized, NEW h \in Handlers, ExpandExtend(h)
    PROVE  Sized' /\ ZoneKept
<1>0. UNCHANGED <<fresh, listing>>
  BY DEF ExpandExtend
<1>1. CASE volumes' = volumes
  BY <1>0, <1>1, QuietZone
<1>2. ASSUME NEW id, NEW bytes, Extends(h, id, bytes)
      PROVE  Sized' /\ ZoneKept
  <2>1. /\ id \in Live /\ id \in Ids /\ call[h].range \in Range64
        /\ bytes \in call[h].range.required..MaxInt64 /\ bytes > 0
        /\ volumes' = ResizeVolume(id, bytes)
    BY <1>2, ExtendsIs DEF Inv
  <2>2. volumes \in [Ids -> Volume] /\ bytes \in 1..MaxInt64
    BY <2>1, SizesAssumption DEF Inv, Types, Range64
  <2>3. /\ volumes'[id].target = bytes /\ volumes'[id].zone = volumes[id].zone
        /\ "late" \in load => volumes'[id].size = volumes[id].size
        /\ "late" \notin load => volumes'[id].size = bytes
        /\ \A v \in Ids \ {id} : volumes'[v] = volumes[v]
    BY <2>1, <2>2, ResizeIs
  <2>4. Live' = Live
    BY <2>1, <2>2, <2>3 DEF Live
  <2>5. Sized'
    BY <2>1, <2>2, <2>3, <2>4 DEF Sized, Live
  <2>6. InZone' = InZone
    BY <2>1, <2>3, <2>4 DEF InZone, Live
  <2> QED  BY <1>0, <2>5, <2>6 DEF ZoneKept
<1> QED  BY <1>1, <1>2, ExtendIs DEF Refused

LEMMA GrowZone == ASSUME Inv, Sized, Grow PROVE Sized' /\ ZoneKept
<1>1. PICK v \in Live : volumes' = [volumes EXCEPT ![v].size = volumes[v].target]
  BY DEF Grow
<1>2. UNCHANGED <<fresh, listing>> /\ volumes \in [Ids -> Volume] /\ v \in Ids
  BY DEF Grow, Inv, Types, Live
<1>3. PICK x : x = [volumes[v] EXCEPT !.size = volumes[v].target]
  OBVIOUS
<1>4. x.size = volumes[v].target /\ x.target = volumes[v].target /\ x.zone = volumes[v].zone
  BY <1>2, <1>3 DEF Volume
<1>5. volumes'[v] = x /\ \A i \in Ids \ {v} : volumes'[i] = volumes[i]
  BY <1>1, <1>2, <1>3
<1>6. volumes[v].target # 0
  BY DEF Sized
<1>7. Live' = Live
  BY <1>2, <1>4, <1>5, <1>6 DEF Live
<1>8. Sized'
  BY <1>2, <1>4, <1>5, <1>6, <1>7 DEF Sized, Live
<1>9. InZone' = InZone
  BY <1>2, <1>4, <1>5, <1>7 DEF InZone, Live
<1> QED  BY <1>2, <1>8, <1>9 DEF ZoneKept

LEMMA RemovedZone == ASSUME Inv, Sized, Removed PROVE Sized' /\ \E id : ZoneShrinks(id)
<1>1. PICK v \in Live :
        /\ volumes' = [volumes EXCEPT ![v] = None]
        /\ listing' = [listing EXCEPT !.gone = IF listing.on THEN @ \cup {v} ELSE @]
  BY DEF Removed
<1>2. fresh' = fresh /\ volumes \in [Ids -> Volume] /\ v \in Ids /\ None.size = 0
  BY NoneIs DEF Removed, Inv, Types, Live
<1>3. volumes'[v] = None /\ \A i \in Ids \ {v} : volumes'[i] = volumes[i]
  BY <1>1, <1>2
<1>4. Live' = Live \ {v}
  BY <1>2, <1>3 DEF Live
<1>5. Sized'
  BY <1>3, <1>4 DEF Sized, Live
<1>6. InZone' = InZone \ {v}
  BY <1>3, <1>4 DEF InZone, Live
<1> QED  BY <1>1, <1>2, <1>5, <1>6 DEF ZoneShrinks

-----------------------------------------------------------------------------
(* The rest of the state: what is chosen once, and the locks. *)
Fixed == load \in Loads /\ host \in Hosts /\ locks \subseteq Controllers \X Ids

LEMMA ReturnLocks == ASSUME NEW h, NEW code, NEW bytes, Return(h, code, bytes) PROVE locks' \subseteq locks
BY DEF Return

LEMMA NextFixed == ASSUME Fixed, [Next]_vars PROVE Fixed'
<1>1. UNCHANGED <<load, host>>
  BY DEF Next, vars, CreateVolume, ExpandStart, ExpandGet, ExpandExtend, ExpandRead,
         NodeExpandVolume, ListVolumes, Removed, Grow
<1>2. ASSUME NEW h \in Handlers, ExpandStart(h) PROVE locks' \subseteq Controllers \X Ids
  <2>1. host[h] \in Controllers /\ Targets \subseteq Ids
    BY HostsAssumption, IdsAssumption DEF Fixed
  <2>2. locks' = locks \/ \E id \in Targets : TryLock(h, id)
    BY <1>2 DEF ExpandStart
  <2>3. ASSUME NEW id \in Targets, TryLock(h, id) PROVE locks' \subseteq Controllers \X Ids
    <3>1. <<host[h], id>> \in Controllers \X Ids /\ locks' = locks \cup {<<host[h], id>>}
      BY <2>1, <2>3 DEF TryLock
    <3> QED  BY <3>1 DEF Fixed
  <2> QED  BY <2>2, <2>3 DEF Fixed
<1>3. ASSUME NEW h \in Handlers, ExpandGet(h) PROVE locks' \subseteq locks
  BY <1>3, ReturnLocks DEF ExpandGet, Refused
<1>4. ASSUME NEW h \in Handlers, ExpandExtend(h) PROVE locks' \subseteq locks
  <2>1. CASE \E code : Return(h, code, 0)
    BY <2>1, ReturnLocks
  <2>2. CASE locks' = locks
    BY <2>2
  <2>3. CASE AnswerLost(h)
    BY <2>3 DEF AnswerLost
  <2> QED  BY <1>4, <2>1, <2>2, <2>3, ExtendIs DEF Refused, Extends
<1>5. ASSUME NEW h \in Handlers, ExpandRead(h) PROVE locks' \subseteq locks
  BY <1>5, ReturnLocks DEF ExpandRead, Refused
<1>6. ASSUME NEW h \in Handlers, CreateVolume(h) \/ NodeExpandVolume(h) PROVE locks' = locks
  BY <1>6 DEF CreateVolume, NodeExpandVolume
<1>7. CASE ListVolumes \/ Removed \/ Grow \/ UNCHANGED vars
  BY <1>7 DEF ListVolumes, Removed, Grow, vars, Fixed
<1>8. locks' \subseteq Controllers \X Ids
  BY <1>2, <1>3, <1>4, <1>5, <1>6, <1>7 DEF Next, Fixed
<1> QED  BY <1>1, <1>8 DEF Fixed

-----------------------------------------------------------------------------
(* The theorems about the listing. *)

ListInv == Inv /\ Fixed /\ Sized /\ Reading(listing)

LEMMA NextListInv == ASSUME ListInv, [Next]_vars PROVE ListInv'
<1>0. Inv /\ Fixed /\ Sized /\ Reading(listing) /\ fresh \subseteq Ids /\ InZone \cap fresh = {}
  BY DEF ListInv, Inv, Types, InZone
<1>1. Inv' /\ Fixed'
  BY <1>0, NextInv, NextFixed
<1>2. CASE ListVolumes
  <2>1. Sized'
    BY <1>0, <1>2 DEF ListVolumes, Sized, Live
  <2> QED  BY <1>0, <1>1, <1>2, <2>1, PageReading DEF ListInv
<1>3. CASE ~ListVolumes
  <2>1. ASSUME NEW h \in Handlers, ExpandStart(h) \/ ExpandGet(h) \/ ExpandRead(h) \/ NodeExpandVolume(h)
        PROVE  UNCHANGED <<volumes, fresh, listing>>
    <3>1. ASSUME ExpandStart(h) PROVE UNCHANGED <<volumes, fresh, listing>>
      BY <3>1 DEF ExpandStart
    <3>2. ASSUME ExpandGet(h) PROVE UNCHANGED <<volumes, fresh, listing>>
      BY <3>2 DEF ExpandGet
    <3>3. ASSUME ExpandRead(h) PROVE UNCHANGED <<volumes, fresh, listing>>
      BY <3>3 DEF ExpandRead
    <3>4. ASSUME NodeExpandVolume(h) PROVE UNCHANGED <<volumes, fresh, listing>>
      BY <3>4 DEF NodeExpandVolume
    <3> QED  BY <2>1, <3>1, <3>2, <3>3, <3>4
  <2>2. ASSUME UNCHANGED <<volumes, fresh, listing>> PROVE Sized' /\ ZoneKept
    BY <1>0, <2>2, QuietZone
  <2>3. Sized' /\ (ZoneKept \/ (\E id : ZoneGrows(id)) \/ (\E id : ZoneShrinks(id)))
    <3>1. ASSUME NEW h \in Handlers, CreateVolume(h) \/ ExpandExtend(h)
          PROVE  Sized' /\ (ZoneKept \/ \E id : ZoneGrows(id))
      BY <1>0, <3>1, CreateZone, ExtendZone
    <3>2. CASE Grow \/ Removed
      BY <1>0, <3>2, GrowZone, RemovedZone
    <3>3. CASE UNCHANGED vars
      BY <2>2, <3>3 DEF vars
    <3>4. ASSUME NEW h \in Handlers,
                 ExpandStart(h) \/ ExpandGet(h) \/ ExpandRead(h) \/ NodeExpandVolume(h)
          PROVE  Sized' /\ ZoneKept
      BY <2>1, <2>2, <3>4
    <3> QED  BY <1>3, <2>2, <3>1, <3>2, <3>3, <3>4 DEF Next
  <2>4. CASE ZoneKept
    <3>1. Reading(listing)'
      BY <1>0, <2>4 DEF ZoneKept, Reading, Ahead, Behind, Once, Complete, Rank
    <3> QED  BY <1>1, <2>3, <3>1 DEF ListInv
  <2>5. ASSUME NEW id, ZoneGrows(id) PROVE Reading(listing)'
    BY <1>0, <2>5, CameReading DEF ZoneGrows
  <2>6. ASSUME NEW id, ZoneShrinks(id) PROVE Reading(listing)'
    BY <1>0, <2>6, GoneReading DEF ZoneShrinks
  <2> QED  BY <1>1, <2>3, <2>4, <2>5, <2>6 DEF ListInv
<1> QED  BY <1>2, <1>3

LEMMA InitListInv == Init => ListInv
<1> SUFFICES ASSUME Init PROVE ListInv  OBVIOUS
<1>1. Fixed
  BY DEF Init, Fixed
<1>2. Sized
  BY SizesAssumption DEF Init, Sized, Live, None, Smallest
<1>3. Unlisted \in Listing /\ Unlisted.on = FALSE /\ Unlisted.seen = <<>> /\ Unlisted.first = {}
  BY DEF Unlisted, Listing
<1>4. Reading(Unlisted)
  BY <1>3 DEF Reading, Once, Complete
<1> QED  BY <1>1, <1>2, <1>4, InitInv DEF Init, ListInv, Reading, Once, Complete, Ahead, Behind

LEMMA ListInvariant == Spec => []ListInv
BY InitListInv, NextListInv, PTL DEF Spec

(* Every size is a 64-bit number, and calls, locks and the listing keep their shape. *)
THEOREM TypeCorrect == Spec => []TypeOK
<1>1. ListInv => TypeOK
  <2> SUFFICES ASSUME ListInv PROVE TypeOK  OBVIOUS
  <2>1. listing.on \in BOOLEAN /\ listing.token \in Nat /\ listing.seen \in Seq(Ids)
    BY DEF ListInv, Reading, Listing
  <2>2. call \in [Handlers -> Call] /\ volumes \in [Ids -> Volume]
    BY DEF ListInv, Inv, Types
  <2> QED  BY <2>1, <2>2 DEF ListInv, Inv, Types, Fixed, TypeOK, Call, Volume
<1> QED  BY <1>1, ListInvariant, PTL

(* A caller that reads ListVolumes to the last page has seen every volume that was there all the
   time, whatever was created, expanded and removed between the pages, unless a volume with a
   lower ID was removed. *)
THEOREM NoneAreSkipped == Spec => []NoneSkipped
<1>1. ListInv => NoneSkipped
  BY DEF ListInv, Reading, Complete, NoneSkipped
<1> QED  BY <1>1, ListInvariant, PTL

(* A caller of ListVolumes sees no volume twice, unless a volume with a lower ID was created
   between the pages: IDs are assigned once. *)
THEOREM NoneAreTwice == Spec => []NoneTwice
<1>1. ListInv => NoneTwice
  BY DEF ListInv, Reading, Once, NoneTwice
<1> QED  BY <1>1, ListInvariant, PTL
=============================================================================
