-------------------------- MODULE RouteSplit_proofs --------------------------
(***************************************************************************)
(* Theorems about RouteSplit for every address length and every set of     *)
(* networks: the result is disjoint, where the networks that cover an      *)
(* address agree the result agrees with them, and for regular networks it  *)
(* routes as the longest prefix does and no assertion fails.               *)
(***************************************************************************)
EXTENDS RouteSplit, TLAPS

LEMMA Quotient ==
  ASSUME NEW x \in Nat, NEW s \in Nat \ {0}, x % s = 0
  PROVE  \E q \in Nat : x = s * q
<1>1. x = s * (x \div s) + (x % s)
  OBVIOUS
<1>2. x \div s \in Nat
  OBVIOUS
<1>3. s * (x \div s) \in Nat
  BY <1>2
<1>4. x = s * (x \div s)
  BY <1>1, <1>3
<1> QED BY <1>2, <1>4

(* A longer prefix makes a smaller network.                                *)
LEMMA SizeShrinks ==
  ASSUME NEW m \in 0..Bits, NEW k \in 0..Bits, m <= k
  PROVE  /\ Size[m] \in Nat \ {0} /\ Size[k] \in Nat \ {0}
         /\ \E q \in Nat \ {0} : Size[m] = Size[k] * q
         /\ Size[m] >= Size[k]
         /\ m < k => Size[m] > Size[k]
<1>1. \A i, j \in 0..Bits : i <= j => 
        /\ Size[i] \in Nat \ {0} /\ Size[j] \in Nat \ {0}
        /\ \E q \in Nat \ {0} : Size[i] = Size[j] * q
  <2> SUFFICES ASSUME NEW i \in 0..Bits, NEW j \in 0..Bits, i <= j
               PROVE  /\ Size[i] \in Nat \ {0} /\ Size[j] \in Nat \ {0}
                      /\ \E q \in Nat \ {0} : Size[i] = Size[j] * q
    OBVIOUS
  <2>1. Size[i] \in Nat \ {0} /\ Size[j] \in Nat \ {0} /\ Size[i] % Size[j] = 0
    BY SizeAssumption
  <2>2. PICK q \in Nat : Size[i] = Size[j] * q
    BY <2>1, Quotient
  <2>3. q # 0
    BY <2>1, <2>2
  <2> QED BY <2>1, <2>2, <2>3
<1>2. \A i, j \in 0..Bits : i <= j => Size[i] >= Size[j]
  <2> SUFFICES ASSUME NEW i \in 0..Bits, NEW j \in 0..Bits, i <= j
               PROVE  Size[i] >= Size[j]
    OBVIOUS
  <2> DEFINE y == Size[j]
  <2>1. PICK q \in Nat \ {0} : Size[i] = y * q
    BY <1>1
  <2>2. y \in Nat \ {0}
    BY <1>1
  <2> HIDE DEF y
  <2>3. y * q >= y
    BY <2>2
  <2> QED BY <2>1, <2>3 DEF y
<1>3. ASSUME m < k
      PROVE  Size[m] > Size[k]
  <2>1. m + 1 \in 0..Bits /\ m + 1 <= k /\ Size[m] = 2 * Size[m + 1]
    BY <1>3, SizeAssumption
  <2>2. Size[m + 1] >= Size[k] /\ Size[m + 1] \in Nat \ {0} /\ Size[k] \in Nat \ {0}
    BY <1>1, <1>2, <2>1
  <2> QED BY <2>1, <2>2
<1> QED BY <1>1, <1>2, <1>3

LEMMA NetBounds ==
  ASSUME NEW n \in IpAddress
  PROVE  /\ n.first \in Nat /\ n.first \in Address /\ Last(n) \in Address
         /\ Last(n) \in Nat /\ n.first <= Last(n)
         /\ n.mask \in 0..Bits /\ n.mask \in Nat /\ n.included \in BOOLEAN
  BY SizeAssumption DEF IpAddress, Net, Address, Last

LEMMA LongerIsInside ==
  ASSUME NEW n \in IpAddress, NEW k \in IpAddress,
         n.first = k.first, n.mask >= k.mask
  PROVE  Last(n) <= Last(k)
<1>1. n.mask \in 0..Bits /\ k.mask \in 0..Bits /\ n.first \in Nat
  BY NetBounds
<1>2. Size[k.mask] >= Size[n.mask] /\ Size[k.mask] \in Nat /\ Size[n.mask] \in Nat
  BY <1>1, SizeShrinks
<1> QED BY <1>1, <1>2 DEF Last

(* Multiples of s below one another are s apart.                           *)
LEMMA Multiples ==
  ASSUME NEW s \in Nat \ {0}, NEW x \in Nat, NEW y \in Nat, s * x < s * y
  PROVE  s * x + s <= s * y
<1>1. x < y
  <2> SUFFICES ASSUME x >= y PROVE FALSE
    OBVIOUS
  <2>1. s * x >= s * y
    OBVIOUS
  <2> QED BY <2>1
<1>2. s * (x + 1) <= s * y
  BY <1>1
<1> QED BY <1>2

(* Two networks that share an address are equal or one in the other.       *)
LEMMA Nested ==
  ASSUME NEW n \in IpAddress, NEW k \in IpAddress,
         n.first <= Last(k), k.first <= Last(n)
  PROVE  /\ n.mask >= k.mask => k.first <= n.first /\ Last(n) <= Last(k)
         /\ n.mask = k.mask => SameNet(n, k)
         /\ n.mask > k.mask => Inside(n, k)
<1> DEFINE Within(i, j) == j.first <= i.first /\ Last(i) <= Last(j)
<1>1. ASSUME NEW i \in IpAddress, NEW j \in IpAddress,
             i.first <= Last(j), j.first <= Last(i), i.mask >= j.mask
      PROVE  Within(i, j)
  <2> DEFINE s == Size[i.mask]
             S == Size[j.mask]
  <2>1. /\ i.mask \in 0..Bits /\ j.mask \in 0..Bits
        /\ i.first \in Nat /\ j.first \in Nat
    BY NetBounds
  <2>2. s \in Nat \ {0} /\ S \in Nat \ {0} /\ \E q \in Nat \ {0} : S = s * q
    BY <1>1, <2>1, SizeShrinks
  <2>3. PICK q \in Nat \ {0} : S = s * q
    BY <2>2
  <2>4. PICK x \in Nat : i.first = s * x
    BY <2>1, <2>2, Quotient DEF IpAddress
  <2>5. PICK y \in Nat : j.first = S * y
    BY <2>1, <2>2, Quotient DEF IpAddress
  <2>6. Last(i) = s * x + s - 1 /\ Last(j) = S * y + S - 1
    BY <2>4, <2>5 DEF Last
  <2> HIDE DEF s, S
  <2>7. S * y = s * (q * y) /\ S * y + S = s * (q * y + q)
        /\ q * y \in Nat /\ q * y + q \in Nat
    BY <2>2, <2>3
  <2> DEFINE lo == q * y
             hi == q * y + q
  <2>8. lo \in Nat /\ hi \in Nat /\ j.first = s * lo /\ Last(j) = s * hi - 1
    <3>1. lo \in Nat /\ hi \in Nat /\ S * y = s * lo /\ S * y + S = s * hi
      BY <2>7 DEF lo, hi
    <3>2. Last(j) = (S * y + S) - 1
      BY <2>2, <2>6
    <3> QED BY <2>5, <3>1, <3>2
  <2> HIDE DEF lo, hi
  <2>9. s * x \in Nat /\ s * lo \in Nat /\ s * hi \in Nat
    BY <2>2, <2>8
  <2>10. s * x < s * hi
    BY <1>1, <2>2, <2>4, <2>8, <2>9
  <2>11. s * x + s <= s * hi
    BY <2>2, <2>8, <2>10, Multiples
  <2>12. s * lo <= s * x
    <3> SUFFICES ASSUME s * x < s * lo PROVE FALSE
      BY <2>9
    <3>1. s * x + s <= s * lo
      BY <2>2, <2>8, Multiples
    <3> QED BY <1>1, <2>2, <2>6, <2>8, <2>9, <3>1
  <2> QED BY <2>2, <2>4, <2>6, <2>8, <2>9, <2>11, <2>12
<1>2. n.mask >= k.mask => Within(n, k)
  BY <1>1
<1>3. n.mask = k.mask => n.first = k.first
  <2>1. n.mask = k.mask => Within(n, k) /\ Within(k, n)
    BY <1>1, NetBounds
  <2> QED BY <2>1, NetBounds
<1> QED BY <1>2, <1>3, NetBounds DEF Inside, SameNet

LEMMA HalfAligned ==
  ASSUME NEW x \in Nat, NEW s \in Nat \ {0}, x % (2 * s) = 0
  PROVE  x % s = 0 /\ (x + s) % s = 0
<1>1. PICK q \in Nat : x = (2 * s) * q
  <2>1. x = (2 * s) * (x \div (2 * s)) + (x % (2 * s))
    OBVIOUS
  <2>2. x \div (2 * s) \in Nat
    OBVIOUS
  <2>3. (2 * s) * (x \div (2 * s)) \in Nat
    BY <2>2
  <2>4. x = (2 * s) * (x \div (2 * s))
    BY <2>1, <2>3
  <2> QED BY <2>2, <2>4
<1>2. x = s * (2 * q) /\ x + s = s * (2 * q + 1)
  BY <1>1
<1>3. \A r \in Nat : (s * r) % s = 0
  OBVIOUS
<1> QED BY <1>2, <1>3

(* Splitting a network gives two that share its addresses.                 *)
LEMMA Halves ==
  ASSUME NEW n \in IpAddress, n.mask < Bits
  PROVE  /\ LowerHalf(n) \in IpAddress /\ UpperHalf(n) \in IpAddress
         /\ LowerHalf(n).first = n.first /\ UpperHalf(n).first > n.first
         /\ Last(LowerHalf(n)) = UpperHalf(n).first - 1
         /\ Last(UpperHalf(n)) = Last(n)
         /\ LowerHalf(n).included = n.included
         /\ UpperHalf(n).included = n.included
<1> DEFINE s == Size[n.mask + 1]
<1>0. Bits \in Nat
  BY SizeAssumption
<1>1. n.mask \in 0..Bits /\ n.mask + 1 \in 0..Bits /\ n.first \in Nat
  BY <1>0, NetBounds
<1>2. s \in Nat \ {0} /\ Size[n.mask] = 2 * s
  BY <1>1, SizeAssumption
<1>3. n.first % s = 0 /\ (n.first + s) % s = 0
  BY <1>1, <1>2, HalfAligned DEF IpAddress
<1> HIDE DEF s
<1>4. /\ n = [first |-> n.first, mask |-> n.mask, included |-> n.included]
      /\ n.included \in BOOLEAN /\ Last(n) = n.first + 2 * s - 1
      /\ Last(n) \in Address
  BY <1>2 DEF IpAddress, Net, Last
<1>5. LowerHalf(n) = [first |-> n.first, mask |-> n.mask + 1, included |-> n.included]
  BY DEF LowerHalf
<1>6. UpperHalf(n) = [first |-> n.first + s, mask |-> n.mask + 1, included |-> n.included]
  BY <1>5 DEF UpperHalf, s
<1>7. Last(LowerHalf(n)) = n.first + s - 1 /\ Last(UpperHalf(n)) = n.first + 2 * s - 1
  BY <1>1, <1>2, <1>5, <1>6 DEF Last, s
<1>8. Size[0] \in Nat
  BY SizeAssumption
<1>9. {n.first, n.first + s, n.first + s - 1} \subseteq Address
  BY <1>1, <1>2, <1>4, <1>8 DEF Address
<1>10. LowerHalf(n) \in IpAddress /\ UpperHalf(n) \in IpAddress
  BY <1>1, <1>3, <1>4, <1>5, <1>6, <1>7, <1>9 DEF IpAddress, Net, s
<1> QED BY <1>1, <1>2, <1>4, <1>5, <1>6, <1>7, <1>10

LEMMA PolledMembers ==
  ASSUME networks \in [IpAddress -> Nat], NEW n \in Queued
  PROVE  /\ Polled(n) \in [IpAddress -> Nat]
         /\ Members(Polled(n)) \subseteq Queued
         /\ Queued \subseteq Members(Polled(n)) \union {n}
  BY DEF Polled, Queued, Members

LEMMA WithMembers ==
  ASSUME NEW queue \in [IpAddress -> Nat], NEW n \in IpAddress
  PROVE  /\ With(queue, n) \in [IpAddress -> Nat]
         /\ Members(With(queue, n)) = Members(queue) \union {n}
  BY DEF With, Members

LEMMA WithNewMembers ==
  ASSUME NEW queue \in [IpAddress -> Nat], NEW n \in IpAddress
  PROVE  /\ WithNew(queue, n) \in [IpAddress -> Nat]
         /\ Members(queue) \subseteq Members(WithNew(queue, n))
         /\ Members(WithNew(queue, n)) \subseteq Members(queue) \union {n}
         /\ \E k \in Members(WithNew(queue, n)) : SameNet(n, k)
  BY WithMembers DEF WithNew, SameNet

LEMMA AddMembers ==
  ASSUME NEW nets, NEW n
  PROVE  /\ nets \subseteq Add(nets, n) /\ Add(nets, n) \subseteq nets \union {n}
         /\ \E k \in Add(nets, n) : SameNet(n, k)
  BY DEF Add, SameNet
-------------------------------------------------------------------------------
LEMMA InitType == Init => TypeOK
  BY DEF Init, TypeOK, IpAddress, Queued, Members

(* An iteration leaves a queue of well formed networks and a current one.  *)
LEMMA IterateType ==
  ASSUME TypeOK, Iterate
  PROVE  TypeOK'
<1>1. PICK n \in Queued :
        \/ Emit(n) \/ ForgetCurrent(n) \/ SplitNext(n)
        \/ IgnoreNext(n) \/ SplitCurrent(n) \/ AssertionFails(n)
  BY DEF Iterate
<1> USE DEF TypeOK, Iterate
<1>2. n \in IpAddress /\ currentNet \in IpAddress
  BY DEF Queued, Members
<1>3. Polled(n) \in [IpAddress -> Nat]
  BY PolledMembers
<1>4. CASE Emit(n)
  BY <1>2, <1>3, <1>4, AddMembers DEF Emit
<1>5. CASE ForgetCurrent(n) \/ IgnoreNext(n) \/ AssertionFails(n)
  BY <1>2, <1>3, <1>5 DEF ForgetCurrent, IgnoreNext, AssertionFails
<1>6. CASE SplitNext(n)
  <2>1. LowerHalf(n) \in IpAddress /\ UpperHalf(n) \in IpAddress
    BY <1>2, <1>6, Halves DEF SplitNext
  <2>2. WithNew(Polled(n), UpperHalf(n)) \in [IpAddress -> Nat]
    BY <1>3, <2>1, WithNewMembers
  <2>3. WithNew(WithNew(Polled(n), UpperHalf(n)), LowerHalf(n)) \in [IpAddress -> Nat]
    BY <2>1, <2>2, WithNewMembers
  <2> QED BY <1>2, <1>6, <2>2, <2>3 DEF SplitNext
<1>7. CASE SplitCurrent(n)
  <2>1. LowerHalf(currentNet) \in IpAddress /\ UpperHalf(currentNet) \in IpAddress
    <3>1. currentNet.mask < Bits
      BY <1>2, <1>7, NetBounds, SizeAssumption DEF SplitCurrent, NextAsserted
    <3> QED BY <1>2, <3>1, Halves
  <2>2. With(networks, UpperHalf(currentNet)) \in [IpAddress -> Nat]
    BY <2>1, WithMembers
  <2> QED BY <1>7, <2>1, <2>2 DEF SplitCurrent
<1> QED BY <1>1, <1>4, <1>5, <1>6, <1>7

LEMMA NextType ==
  ASSUME TypeOK, [Next]_vars
  PROVE  TypeOK'
<1>1. CASE \E n \in IpAddress : AddIP(n)
  BY <1>1, AddMembers DEF AddIP, TypeOK, Queued
<1>2. CASE \E n \in IpAddress : AddIPSplit(n)
  <2>1. PICK n \in IpAddress : AddIPSplit(n)
    BY <1>2
  <2>2. LowerHalf(n) \in IpAddress /\ UpperHalf(n) \in IpAddress
    BY <2>1, Halves DEF AddIPSplit
  <2>3. Add(Add(mIpAddresses, LowerHalf(n)), UpperHalf(n))
          \subseteq mIpAddresses \union {LowerHalf(n), UpperHalf(n)}
    BY AddMembers
  <2> QED BY <2>1, <2>2, <2>3 DEF AddIPSplit, TypeOK, Queued
<1>3. CASE GenerateIPList
  <2>1. CASE mIpAddresses = {}
    BY <1>3, <2>1 DEF GenerateIPList, TypeOK, Queued
  <2>2. CASE mIpAddresses # {}
    <3>1. PICK n \in mIpAddresses :
            /\ currentNet' = n /\ pc' = "loop"
            /\ networks' = [[k \in IpAddress |-> IF k \in mIpAddresses THEN 1 ELSE 0]
                               EXCEPT ![n] = 0]
      BY <1>3, <2>2 DEF GenerateIPList
    <3>2. networks' \in [IpAddress -> Nat]
      BY <3>1
    <3> QED BY <1>3, <3>1, <3>2 DEF GenerateIPList, TypeOK
  <2> QED BY <2>1, <2>2
<1>4. CASE EmitLast
  BY <1>4, AddMembers DEF EmitLast, TypeOK, Queued
<1>5. CASE Clear
  BY <1>5 DEF Clear, TypeOK, Queued, Members
<1>6. CASE UNCHANGED vars
  BY <1>6 DEF vars, TypeOK, Queued
<1> QED BY <1>1, <1>2, <1>3, <1>4, <1>5, <1>6, IterateType DEF Next, Generate

(* The sets are well typed, and the queue is empty at the end.             *)
THEOREM RouteTypes == Spec => []TypeOK
<1>1. TypeOK /\ [Next]_vars => TypeOK'
  BY NextType
<1> QED BY InitType, <1>1, PTL DEF Spec
-------------------------------------------------------------------------------
(* What is done lies before what is current, which lies before what waits. *)
Ordered ==
  /\ RoutesDisjoint
  /\ pc = "adding" => ipsDone = {}
  /\ pc = "loop" => /\ \A d \in ipsDone : Last(d) < currentNet.first
                    /\ \A n \in Queued : currentNet.first <= n.first

LEMMA IterateOrdered ==
  ASSUME TypeOK, Ordered, Iterate
  PROVE  Ordered'
<1>1. PICK n \in Queued :
        /\ Least(n, Queued)
        /\ \/ Emit(n) \/ ForgetCurrent(n) \/ SplitNext(n)
           \/ IgnoreNext(n) \/ SplitCurrent(n) \/ AssertionFails(n)
  BY DEF Iterate
<1>2. n \in IpAddress /\ currentNet \in IpAddress /\ networks \in [IpAddress -> Nat]
  BY DEF Queued, Members, TypeOK, Iterate
<1>3. \A k \in Queued : k \in IpAddress /\ n.first <= k.first
  BY <1>1, <1>2, NetBounds DEF Least, Before, Queued, Members
<1>4. \A d \in ipsDone : d \in IpAddress /\ Last(d) < currentNet.first
  BY DEF Ordered, Iterate, TypeOK
<1>5. currentNet.first <= n.first
  BY <1>1 DEF Ordered, Iterate
<1>6. Members(Polled(n)) \subseteq Queued
  BY <1>2, PolledMembers
<1>7. pc = "loop"
  BY DEF Iterate
<1>8. CASE Emit(n)
  <2>1. \A d \in ipsDone' : d \in IpAddress /\ Last(d) < n.first
    BY <1>2, <1>4, <1>5, <1>8, AddMembers, NetBounds DEF Emit
  <2>2. RoutesDisjoint'
    BY <1>2, <1>4, <1>8, AddMembers DEF Emit, RoutesDisjoint, Ordered
  <2> QED BY <1>3, <1>6, <1>7, <1>8, <2>1, <2>2 DEF Emit, Ordered, Queued
<1>9. CASE ForgetCurrent(n) \/ IgnoreNext(n) \/ AssertionFails(n)
  BY <1>3, <1>4, <1>5, <1>6, <1>7, <1>9
  DEF ForgetCurrent, IgnoreNext, AssertionFails, Ordered, Queued, RoutesDisjoint,
      CurrentInNext
<1>10. CASE SplitNext(n)
  <2> DEFINE upper == WithNew(Polled(n), UpperHalf(n))
  <2>1. /\ LowerHalf(n) \in IpAddress /\ LowerHalf(n).first = n.first
        /\ UpperHalf(n) \in IpAddress /\ UpperHalf(n).first >= n.first
    BY <1>2, <1>10, Halves, NetBounds DEF SplitNext
  <2>2. upper \in [IpAddress -> Nat] /\ Members(upper) \subseteq Queued \union {UpperHalf(n)}
    BY <1>2, <1>6, <2>1, PolledMembers, WithNewMembers
  <2>3. Members(WithNew(upper, LowerHalf(n)))
          \subseteq Queued \union {UpperHalf(n), LowerHalf(n)}
    BY <2>1, <2>2, WithNewMembers
  <2>4. Members(networks') \subseteq Queued \union {UpperHalf(n), LowerHalf(n)}
    BY <1>10, <2>2, <2>3 DEF SplitNext
  <2>5. \A k \in Members(networks') : currentNet.first <= k.first
    BY <1>2, <1>3, <1>5, <2>1, <2>4, NetBounds
  <2> QED BY <1>4, <1>7, <1>10, <2>5 DEF SplitNext, Ordered, Queued, RoutesDisjoint
<1>11. CASE SplitCurrent(n)
  <2>1. /\ LowerHalf(currentNet).first = currentNet.first
        /\ UpperHalf(currentNet) \in IpAddress
        /\ UpperHalf(currentNet).first > currentNet.first
    <3>1. currentNet.mask < Bits
      BY <1>2, <1>11, NetBounds, SizeAssumption DEF SplitCurrent, NextAsserted
    <3> QED BY <1>2, <3>1, Halves
  <2>2. Members(networks') \subseteq Queued \union {UpperHalf(currentNet)}
    BY <1>2, <1>11, <2>1, WithMembers DEF SplitCurrent, Queued
  <2>3. \A k \in Members(networks') : currentNet'.first <= k.first
    BY <1>2, <1>3, <1>5, <1>11, <2>1, <2>2, NetBounds DEF SplitCurrent
  <2> QED BY <1>4, <1>7, <1>11, <2>1, <2>3 DEF SplitCurrent, Ordered, Queued, RoutesDisjoint
<1> QED BY <1>1, <1>8, <1>9, <1>10, <1>11

LEMMA NextOrdered ==
  ASSUME TypeOK, Ordered, [Next]_vars
  PROVE  Ordered'
<1> USE DEF Ordered, RoutesDisjoint
<1>1. CASE (\E n \in IpAddress : AddIP(n) \/ AddIPSplit(n)) \/ Clear \/ UNCHANGED vars
  BY <1>1 DEF AddIP, AddIPSplit, Clear, vars, Queued
<1>2. CASE GenerateIPList
  <2>1. CASE mIpAddresses = {}
    BY <1>2, <2>1 DEF GenerateIPList
  <2>2. CASE mIpAddresses # {}
    <3>1. PICK n \in mIpAddresses :
            /\ Least(n, mIpAddresses) /\ currentNet' = n /\ pc' = "loop"
            /\ networks' = [[k \in IpAddress |-> IF k \in mIpAddresses THEN 1 ELSE 0]
                               EXCEPT ![n] = 0]
      BY <1>2, <2>2 DEF GenerateIPList
    <3>2. Queued' \subseteq mIpAddresses /\ mIpAddresses \subseteq IpAddress
      BY <3>1 DEF Queued, Members, TypeOK
    <3>3. \A k \in Queued' : n.first <= k.first
      BY <3>1, <3>2, NetBounds DEF Least, Before
    <3> QED BY <1>2, <3>1, <3>3 DEF GenerateIPList
  <2> QED BY <2>1, <2>2
<1>3. CASE EmitLast
  BY <1>3, AddMembers DEF EmitLast
<1> QED BY <1>1, <1>2, <1>3, IterateOrdered DEF Next, Generate

(* No address is in two networks of the result.                            *)
THEOREM DisjointRoutes == Spec => []RoutesDisjoint
<1>1. Init => TypeOK /\ Ordered
  BY InitType DEF Init, Ordered, RoutesDisjoint
<1>2. TypeOK /\ Ordered /\ [Next]_vars => (TypeOK /\ Ordered)'
  BY NextType, NextOrdered
<1>3. Ordered => RoutesDisjoint
  BY DEF Ordered
<1> QED BY <1>1, <1>2, <1>3, PTL DEF Spec
-------------------------------------------------------------------------------
(* The networks that generateIPList still holds.                           *)
Held == ipsDone \union Queued \union (IF pc = "loop" THEN {currentNet} ELSE {})

PartOf(n, m) ==
  n.included = m.included /\ m.first <= n.first /\ Last(n) <= Last(m)

(* Each of them is part of a network of its kind that was added, and each  *)
(* address of a network that was added is still in one of them.            *)
FromInput == \A n \in Held : \E m \in mIpAddresses : PartOf(n, m)

Kept ==
  pc \in {"loop", "done"} =>
    \A a \in Address, m \in mIpAddresses : In(a, m) => Covered(a, Held)

(* What a step may do to the networks it holds: whatever is new is part of *)
(* an old one, and no address is lost.                                     *)
LEMMA Exchange ==
  ASSUME TypeOK, FromInput, Kept, pc = "loop", mIpAddresses' = mIpAddresses,
         \A n \in Held' : n \in IpAddress /\ \E k \in Held : PartOf(n, k),
         pc' \in {"loop", "done"} =>
           \A a \in Address, k \in Held : In(a, k) => Covered(a, Held')
  PROVE  FromInput' /\ Kept'
<1>1. \A k \in Held : k \in IpAddress
  BY DEF Held, TypeOK, Queued, Members
<1>2. ASSUME NEW n \in Held'
      PROVE  \E m \in mIpAddresses : PartOf(n, m)
  <2>1. PICK k \in Held : PartOf(n, k)
    OBVIOUS
  <2>2. PICK m \in mIpAddresses : PartOf(k, m)
    BY <2>1 DEF FromInput
  <2>3. n \in IpAddress /\ k \in IpAddress /\ m \in IpAddress
    BY <1>1, <2>1, <2>2 DEF TypeOK
  <2>4. PartOf(n, m)
    BY <2>1, <2>2, <2>3, NetBounds DEF PartOf
  <2> QED BY <2>4
<1>3. ASSUME pc' \in {"loop", "done"},
             NEW a \in Address, NEW m \in mIpAddresses, In(a, m)
      PROVE  Covered(a, Held')
  <2>1. PICK k \in Held : In(a, k)
    BY <1>3 DEF Kept, Covered
  <2> QED BY <1>3, <2>1
<1> QED BY <1>2, <1>3 DEF FromInput, Kept

LEMMA IterateKeeps ==
  ASSUME TypeOK, Ordered, FromInput, Kept, Iterate
  PROVE  FromInput' /\ Kept'
<1>1. PICK n \in Queued :
        \/ Emit(n) \/ ForgetCurrent(n) \/ SplitNext(n)
        \/ IgnoreNext(n) \/ SplitCurrent(n) \/ AssertionFails(n)
  BY DEF Iterate
<1>2. /\ n \in IpAddress /\ currentNet \in IpAddress /\ ipsDone \subseteq IpAddress
      /\ networks \in [IpAddress -> Nat] /\ Queued \subseteq IpAddress
      /\ pc = "loop" /\ mIpAddresses' = mIpAddresses
  BY DEF Queued, Members, TypeOK, Iterate
<1>3. \A k \in IpAddress : PartOf(k, k)
  BY NetBounds DEF PartOf
<1>4. Held = ipsDone \union Queued \union {currentNet}
  BY <1>2 DEF Held
<1>5. /\ Members(Polled(n)) \subseteq Queued
      /\ Queued \subseteq Members(Polled(n)) \union {n}
  BY <1>2, PolledMembers
<1>6. Queued' = Members(networks')
  BY DEF Queued
<1>7. Held' \subseteq IpAddress
  BY <1>2, <1>6, IterateType DEF Held, TypeOK, Members
<1>8. CASE Emit(n)
  <2>1. Held' = ipsDone' \union Queued' \union {n}
    BY <1>2, <1>8 DEF Held, Emit
  <2>2. \A k \in Held' : k \in Held
    BY <1>4, <1>5, <1>6, <1>8, <2>1, AddMembers DEF Emit
  <2>3. ASSUME NEW a \in Address, NEW k \in Held, In(a, k)
        PROVE  Covered(a, Held')
    <3>1. PICK d \in ipsDone' : SameNet(currentNet, d)
      BY <1>8, AddMembers DEF Emit
    <3>2. CASE k = currentNet
      BY <2>1, <2>3, <3>1, <3>2 DEF Covered, In, SameNet, Last
    <3>3. CASE k # currentNet
      BY <1>4, <1>5, <1>6, <1>8, <2>1, <2>3, <3>3, AddMembers DEF Covered, Emit
    <3> QED BY <3>2, <3>3
  <2> QED BY <1>2, <1>3, <1>7, <2>2, <2>3, Exchange
<1>9. CASE ForgetCurrent(n)
  <2>1. Held' = ipsDone \union Queued' \union {n} /\ Queued' = Members(Polled(n))
    BY <1>2, <1>9 DEF Held, ForgetCurrent, Queued
  <2>2. Last(currentNet) <= Last(n) /\ currentNet.first = n.first
    BY <1>2, <1>9, LongerIsInside DEF ForgetCurrent, CurrentInNext
  <2>3. ASSUME NEW a \in Address, NEW k \in Held, In(a, k)
        PROVE  Covered(a, Held')
    <3>1. CASE k = currentNet
      <4>1. In(a, n)
        BY <1>2, <2>2, <2>3, <3>1, NetBounds DEF In, Address
      <4> QED BY <2>1, <4>1 DEF Covered
    <3>2. CASE k # currentNet
      BY <1>4, <1>5, <2>1, <2>3, <3>2 DEF Covered
    <3> QED BY <3>1, <3>2
  <2> QED BY <1>2, <1>3, <1>4, <1>5, <1>7, <2>1, <2>3, Exchange
<1>10. CASE IgnoreNext(n)
  <2>1. Held' = ipsDone \union Queued' \union {currentNet} /\ Queued' = Members(Polled(n))
    BY <1>2, <1>10 DEF Held, IgnoreNext, Queued
  <2>2. Last(n) <= Last(currentNet) /\ currentNet.first < n.first
    BY <1>10 DEF IgnoreNext, NextAsserted
  <2>3. ASSUME NEW a \in Address, NEW k \in Held, In(a, k)
        PROVE  Covered(a, Held')
    <3>1. CASE k = n
      <4>1. In(a, currentNet)
        BY <1>2, <2>2, <2>3, <3>1, NetBounds DEF In, Address
      <4> QED BY <2>1, <4>1 DEF Covered
    <3>2. CASE k # n
      BY <1>4, <1>5, <2>1, <2>3, <3>2 DEF Covered
    <3> QED BY <3>1, <3>2
  <2> QED BY <1>2, <1>3, <1>4, <1>5, <1>7, <2>1, <2>3, Exchange
<1>11. CASE AssertionFails(n)
  <2>1. Held' \subseteq Held /\ pc' = "failed"
    BY <1>2, <1>4, <1>11 DEF Held, AssertionFails, Queued
  <2> QED BY <1>2, <1>3, <1>7, <2>1, Exchange
<1>12. CASE SplitNext(n)
  <2> DEFINE upper == WithNew(Polled(n), UpperHalf(n))
             lower == LowerHalf(n)
  <2>1. /\ lower \in IpAddress /\ lower.first = n.first
        /\ UpperHalf(n) \in IpAddress /\ UpperHalf(n).first > n.first
        /\ Last(lower) = UpperHalf(n).first - 1 /\ Last(UpperHalf(n)) = Last(n)
        /\ lower.included = n.included /\ UpperHalf(n).included = n.included
    BY <1>2, <1>12, Halves DEF SplitNext
  <2>2. PartOf(lower, n) /\ PartOf(UpperHalf(n), n)
    BY <1>2, <2>1, NetBounds DEF PartOf
  <2>3. Held' = ipsDone \union Queued' \union {currentNet}
    BY <1>2, <1>12 DEF Held, SplitNext, Queued
  <2> HIDE DEF lower
  <2>4. /\ upper \in [IpAddress -> Nat]
        /\ Members(Polled(n)) \subseteq Members(upper)
        /\ Members(upper) \subseteq Members(Polled(n)) \union {UpperHalf(n)}
        /\ \E k \in Members(upper) : SameNet(UpperHalf(n), k)
    BY <1>2, <2>1, PolledMembers, WithNewMembers
  <2> HIDE DEF upper
  <2>5. /\ Members(upper) \subseteq Members(WithNew(upper, lower))
        /\ Members(WithNew(upper, lower)) \subseteq Members(upper) \union {lower}
        /\ \E k \in Members(WithNew(upper, lower)) : SameNet(lower, k)
    BY <2>1, <2>4, WithNewMembers
  <2>6. networks' = IF Last(lower) = Last(currentNet) THEN upper
                                                      ELSE WithNew(upper, lower)
    BY <1>12 DEF SplitNext, upper, lower
  <2>7. /\ Members(upper) \subseteq Queued'
        /\ Queued' \subseteq Queued \union {UpperHalf(n), lower}
    BY <1>5, <1>6, <2>4, <2>5, <2>6
  <2>8. ASSUME NEW a \in Address, NEW k \in Held, In(a, k)
        PROVE  Covered(a, Held')
    <3>1. CASE k # n
      BY <1>4, <1>5, <2>3, <2>4, <2>7, <2>8, <3>1 DEF Covered
    <3>2. CASE k = n /\ a >= UpperHalf(n).first
      <4>1. In(a, UpperHalf(n))
        BY <2>1, <2>8, <3>2 DEF In
      <4>2. PICK u \in Members(upper) : SameNet(UpperHalf(n), u)
        BY <2>4
      <4>3. In(a, u)
        BY <4>1, <4>2 DEF In, SameNet, Last
      <4> QED BY <2>3, <2>7, <4>3 DEF Covered
    <3>3. CASE k = n /\ a < UpperHalf(n).first
      <4>1. In(a, lower)
        BY <1>2, <2>1, <2>8, <3>3, NetBounds DEF In, Address
      <4>2. CASE Last(lower) = Last(currentNet)
        <5>1. lower.first = currentNet.first
          BY <1>12, <2>1 DEF SplitNext, CurrentInNext
        <5>2. In(a, currentNet)
          BY <4>1, <4>2, <5>1 DEF In
        <5> QED BY <2>3, <5>2 DEF Covered
      <4>3. CASE Last(lower) # Last(currentNet)
        <5>1. PICK u \in Queued' : SameNet(lower, u)
          BY <1>6, <2>5, <2>6, <4>3
        <5>2. In(a, u)
          BY <4>1, <5>1 DEF In, SameNet, Last
        <5> QED BY <2>3, <5>2 DEF Covered
      <4> QED BY <4>2, <4>3
    <3> QED BY <1>2, <2>1, <3>1, <3>2, <3>3, NetBounds DEF Address
  <2>9. \A k \in Held' : \E h \in Held : PartOf(k, h)
    BY <1>2, <1>3, <1>4, <2>2, <2>3, <2>7 DEF lower
  <2> QED BY <1>2, <1>7, <2>8, <2>9, Exchange
<1>13. CASE SplitCurrent(n)
  <2> DEFINE lower == LowerHalf(currentNet)
             upper == UpperHalf(currentNet)
  <2>1. /\ lower \in IpAddress /\ lower.first = currentNet.first
        /\ upper \in IpAddress /\ upper.first > currentNet.first
        /\ Last(lower) = upper.first - 1 /\ Last(upper) = Last(currentNet)
        /\ lower.included = currentNet.included
        /\ upper.included = currentNet.included
    <3>1. currentNet.mask < Bits
      BY <1>2, <1>13, NetBounds, SizeAssumption DEF SplitCurrent, NextAsserted
    <3> QED BY <1>2, <3>1, Halves
  <2>2. PartOf(lower, currentNet) /\ PartOf(upper, currentNet)
    BY <1>2, <2>1, NetBounds DEF PartOf
  <2>3. Held' = ipsDone \union Queued' \union {lower}
    BY <1>2, <1>13 DEF Held, SplitCurrent, Queued
  <2>4. Queued \subseteq Queued' /\ Queued' \subseteq Queued \union {upper}
    BY <1>2, <1>6, <1>13, <2>1, WithMembers DEF SplitCurrent, Queued
  <2>5. \E u \in Queued' : SameNet(upper, u)
    <3>1. CASE upper.mask = n.mask
      BY <1>13, <2>4, <3>1 DEF SplitCurrent, SplitAsserted, SameNet
    <3>2. CASE upper.mask # n.mask
      <4>1. upper \in Queued'
        BY <1>2, <1>6, <1>13, <2>1, <3>2, WithMembers DEF SplitCurrent
      <4> QED BY <4>1 DEF SameNet
    <3> QED BY <3>1, <3>2
  <2> HIDE DEF lower, upper
  <2>6. ASSUME NEW a \in Address, NEW k \in Held, In(a, k)
        PROVE  Covered(a, Held')
    <3>1. CASE k # currentNet
      BY <1>4, <2>3, <2>4, <2>6, <3>1 DEF Covered
    <3>2. CASE k = currentNet /\ a >= upper.first
      <4>1. PICK u \in Queued' : SameNet(upper, u)
        BY <2>5
      <4>2. In(a, u)
        BY <2>1, <2>6, <3>2, <4>1 DEF In, SameNet, Last
      <4> QED BY <2>3, <4>2 DEF Covered
    <3>3. CASE k = currentNet /\ a < upper.first
      <4>1. In(a, lower)
        BY <1>2, <2>1, <2>6, <3>3, NetBounds DEF In, Address
      <4> QED BY <2>3, <4>1 DEF Covered
    <3> QED BY <1>2, <2>1, <3>1, <3>2, <3>3, NetBounds DEF Address
  <2>7. \A k \in Held' : \E h \in Held : PartOf(k, h)
    BY <1>2, <1>3, <1>4, <2>2, <2>3, <2>4
  <2> QED BY <1>2, <1>7, <2>6, <2>7, Exchange
<1> QED BY <1>1, <1>8, <1>9, <1>10, <1>11, <1>12, <1>13

(* Before the loop nothing is held; starting it takes what was added.      *)
KeepInv == FromInput /\ Kept /\ (pc = "adding" => ipsDone = {})

LEMMA NextKeeps ==
  ASSUME TypeOK, Ordered, KeepInv, [Next]_vars
  PROVE  KeepInv'
<1> USE DEF KeepInv
<1>1. CASE (\E n \in IpAddress : AddIP(n) \/ AddIPSplit(n)) \/ Clear
  <2>1. Held' = {} /\ pc' = "adding" /\ ipsDone' = {}
    BY <1>1 DEF AddIP, AddIPSplit, Clear, Held, TypeOK, Queued, Members
  <2> QED BY <2>1 DEF FromInput, Kept
<1>2. CASE UNCHANGED vars
  BY <1>2 DEF vars, FromInput, Kept, Held, Queued, Covered, In
<1>3. CASE GenerateIPList
  <2>1. mIpAddresses \subseteq IpAddress /\ mIpAddresses' = mIpAddresses /\ ipsDone' = {}
    BY <1>3 DEF GenerateIPList, TypeOK
  <2>2. CASE mIpAddresses = {}
    <3>1. Held' = {}
      BY <1>3, <2>1, <2>2 DEF GenerateIPList, Held, TypeOK, Queued
    <3> QED BY <1>3, <2>1, <2>2, <3>1 DEF GenerateIPList, FromInput, Kept
  <2>3. CASE mIpAddresses # {}
    <3>1. PICK n \in mIpAddresses :
            /\ currentNet' = n /\ pc' = "loop"
            /\ networks' = [[k \in IpAddress |-> IF k \in mIpAddresses THEN 1 ELSE 0]
                               EXCEPT ![n] = 0]
      BY <1>3, <2>3 DEF GenerateIPList
    <3>2. Held' = mIpAddresses
      BY <2>1, <3>1 DEF Held, Queued, Members
    <3> QED BY <2>1, <3>1, <3>2, NetBounds DEF FromInput, Kept, PartOf, Covered
  <2> QED BY <2>2, <2>3
<1>4. CASE EmitLast
  <2>1. /\ Held = ipsDone \union {currentNet} /\ Held' = ipsDone'
        /\ pc = "loop" /\ pc' = "done" /\ mIpAddresses' = mIpAddresses
    BY <1>4 DEF EmitLast, Held, Queued
  <2>2. /\ ipsDone \subseteq ipsDone' /\ ipsDone' \subseteq Held
        /\ \E d \in ipsDone' : SameNet(currentNet, d)
    BY <1>4, <2>1, AddMembers DEF EmitLast
  <2>3. \A k \in Held' : k \in IpAddress /\ PartOf(k, k)
    BY <1>4, <2>1, <2>2, NetBounds DEF EmitLast, TypeOK, PartOf
  <2>4. ASSUME NEW a \in Address, NEW k \in Held, In(a, k)
        PROVE  Covered(a, Held')
    BY <2>1, <2>2, <2>4 DEF Covered, In, SameNet, Last
  <2> QED BY <2>1, <2>2, <2>3, <2>4, Exchange
<1>5. CASE Iterate
  BY <1>5, IterateKeeps, IterateType DEF Iterate, TypeOK, Emit, ForgetCurrent,
     SplitNext, IgnoreNext, SplitCurrent, AssertionFails
<1> QED BY <1>1, <1>2, <1>3, <1>4, <1>5 DEF Next, Generate

LEMMA KeepImpliesUnanimous ==
  ASSUME TypeOK, KeepInv
  PROVE  UnanimousKept
<1> SUFFICES ASSUME pc = "done", NEW a \in Address, NEW in \in BOOLEAN,
                    \A n \in mIpAddresses : In(a, n) => n.included = in
             PROVE  Covered(a, PositiveIPList) <=> in /\ Covered(a, mIpAddresses)
  BY DEF UnanimousKept
<1>1. Held = ipsDone
  BY DEF Held, TypeOK
<1>2. ASSUME NEW n \in ipsDone, In(a, n)
      PROVE  Covered(a, mIpAddresses) /\ n.included = in
  <2>1. PICK m \in mIpAddresses : PartOf(n, m)
    BY <1>1 DEF KeepInv, FromInput
  <2>2. In(a, m)
    BY <1>2, <2>1, NetBounds DEF In, PartOf, TypeOK, Address
  <2> QED BY <2>1, <2>2 DEF Covered, PartOf
<1>3. Covered(a, mIpAddresses) => \E n \in ipsDone : In(a, n)
  BY <1>1 DEF KeepInv, Kept, Covered
<1> QED BY <1>2, <1>3 DEF Covered, PositiveIPList

(* Where the networks covering an address agree, so does the result.       *)
THEOREM UnanimousIsKept == Spec => []UnanimousKept
<1>1. Init => TypeOK /\ Ordered /\ KeepInv
  BY InitType DEF Init, TypeOK, Ordered, RoutesDisjoint, KeepInv, FromInput, Kept, Held
<1>2. TypeOK /\ Ordered /\ KeepInv /\ [Next]_vars => (TypeOK /\ Ordered /\ KeepInv)'
  BY NextType, NextOrdered, NextKeeps
<1>3. TypeOK /\ KeepInv => UnanimousKept
  BY KeepImpliesUnanimous
<1> QED BY <1>1, <1>2, <1>3, PTL DEF Spec
-------------------------------------------------------------------------------
(* An address that two networks share relates them.                        *)
LEMMA Sharing ==
  ASSUME NEW n \in IpAddress, NEW k \in IpAddress, NEW a \in Address,
         In(a, n), In(a, k)
  PROVE  /\ n.mask = k.mask => SameNet(n, k)
         /\ n.mask > k.mask => Inside(n, k)
<1>1. n.first <= Last(k) /\ k.first <= Last(n)
  BY NetBounds DEF In, Address
<1> QED BY <1>1, Nested

LEMMA InsideIsTransitive ==
  ASSUME NEW n \in IpAddress, NEW k \in IpAddress, NEW m \in IpAddress,
         Inside(n, k), Inside(k, m)
  PROVE  Inside(n, m)
<1>1. /\ n.first \in Nat /\ k.first \in Nat /\ m.first \in Nat
      /\ Last(n) \in Nat /\ Last(k) \in Nat /\ Last(m) \in Nat
      /\ n.mask \in Nat /\ k.mask \in Nat /\ m.mask \in Nat
  BY NetBounds
<1> QED BY <1>1 DEF Inside

IsHalf(h, x) == h \in {LowerHalf(x), UpperHalf(x)}

LEMMA HalfIsInside ==
  ASSUME NEW x \in IpAddress, x.mask < Bits, NEW h, IsHalf(h, x)
  PROVE  /\ h \in IpAddress /\ Inside(h, x)
         /\ h.mask = x.mask + 1 /\ h.included = x.included
<1>1. h.mask = x.mask + 1
  BY DEF IsHalf, LowerHalf, UpperHalf
<1>2. /\ h \in IpAddress /\ h.included = x.included
      /\ x.first <= h.first /\ Last(h) <= Last(x)
  BY Halves, NetBounds DEF IsHalf
<1> QED BY <1>1, <1>2, NetBounds DEF Inside

(* One network of each first address and prefix length.                    *)
OneOfEach(nets) == \A n, k \in nets : SameNet(n, k) => n = k

(* Nothing of the other kind contains x.                                   *)
Outermost(x, nets) == \A m \in nets : Inside(x, m) => m.included = x.included

(* The networks after one of them has been split.                          *)
Halved(x, nets, after) ==
  /\ nets \subseteq IpAddress /\ x \in nets /\ x.mask < Bits
  /\ \A n \in after : n \in nets \/ IsHalf(n, x)
  /\ \A n \in nets : n \in after \/ n = x
  /\ \A h \in {LowerHalf(x), UpperHalf(x)} : \E k \in after : SameNet(h, k)
  /\ OneOfEach(nets) /\ OneOfEach(after)

(* What contains a half of an outermost network is of its kind.            *)
LEMMA HalfIsOutermost ==
  ASSUME NEW nets \in SUBSET IpAddress, NEW x \in nets, x.mask < Bits,
         OneOfEach(nets), Outermost(x, nets),
         NEW h, IsHalf(h, x), NEW m \in nets, Inside(h, m)
  PROVE  m.included = h.included
<1>1. h \in IpAddress /\ Inside(h, x) /\ h.mask = x.mask + 1 /\ h.included = x.included
  BY HalfIsInside
<1>2. m.mask <= x.mask
  BY <1>1, NetBounds DEF Inside
<1>3. x.first <= Last(m) /\ m.first <= Last(x)
  BY <1>1, NetBounds DEF Inside
<1>4. CASE m.mask = x.mask
  <2>1. SameNet(x, m)
    BY <1>3, <1>4, Nested
  <2> QED BY <1>1, <2>1 DEF OneOfEach
<1>5. CASE m.mask < x.mask
  <2>1. Inside(x, m)
    BY <1>3, <1>5, Nested
  <2> QED BY <1>1, <2>1 DEF Outermost
<1> QED BY <1>2, <1>4, <1>5, NetBounds

(* Splitting keeps networks regular.                                       *)
LEMMA SplitHides ==
  ASSUME NEW nets, NEW x, NEW after, Halved(x, nets, after), Outermost(x, nets),
         ~Hidden(nets)
  PROVE  ~Hidden(after)
<1> SUFFICES ASSUME NEW n \in after, NEW k \in after, NEW m \in after,
                    Inside(n, k), n.first = k.first, n.included # k.included,
                    Inside(k, m), n.included = m.included
             PROVE  FALSE
  BY DEF Hidden
<1>1. x \in IpAddress /\ nets \in SUBSET IpAddress
  BY DEF Halved
<1>2. \A h : IsHalf(h, x) => h \in IpAddress /\ Inside(h, x) /\ h.included = x.included
  BY <1>1, HalfIsInside DEF Halved
<1>3. \A i \in after : i \in IpAddress
  BY <1>1, <1>2 DEF Halved
<1>4. PICK o \in nets : Inside(k, o) /\ o.included = m.included
  <2>1. CASE m \in nets
    BY <2>1
  <2>2. CASE IsHalf(m, x)
    BY <1>1, <1>2, <1>3, <2>2, InsideIsTransitive DEF Halved
  <2> QED BY <2>1, <2>2 DEF Halved
<1>5. k \in nets
  <2> SUFFICES ASSUME IsHalf(k, x) PROVE FALSE
    BY DEF Halved
  <2> QED BY <1>1, <1>4, HalfIsOutermost DEF Halved
<1>6. n \in nets
  <2> SUFFICES ASSUME IsHalf(n, x) PROVE FALSE
    BY DEF Halved
  <2> QED BY <1>1, <1>5, HalfIsOutermost DEF Halved
<1> QED BY <1>4, <1>5, <1>6 DEF Hidden

LEMMA SplitClashes ==
  ASSUME NEW nets, NEW x, NEW after, Halved(x, nets, after), Outermost(x, nets),
         ~Clashing(nets)
  PROVE  ~Clashing(after)
<1> SUFFICES ASSUME NEW n \in after, NEW k \in after, NEW m \in after,
                    n.included = k.included, n.included # m.included,
                    Inside(k, m), Before(n, k), NEW p \in IpAddress,
                    p.mask < Bits, SameNet(UpperHalf(p), k),
                    Inside(n, p), p.first < n.first
             PROVE  FALSE
  BY DEF Clashing
<1>1. x \in IpAddress /\ nets \in SUBSET IpAddress
  BY DEF Halved
<1>2. \A h : IsHalf(h, x) => h \in IpAddress /\ Inside(h, x) /\ h.included = x.included
  BY <1>1, HalfIsInside DEF Halved
<1>3. \A i \in after : i \in IpAddress
  BY <1>1, <1>2 DEF Halved
<1>4. PICK o \in nets : Inside(k, o) /\ o.included = m.included
  <2>1. CASE m \in nets
    BY <2>1
  <2>2. CASE IsHalf(m, x)
    BY <1>1, <1>2, <1>3, <2>2, InsideIsTransitive DEF Halved
  <2> QED BY <2>1, <2>2 DEF Halved
<1>5. k \in nets
  <2> SUFFICES ASSUME IsHalf(k, x) PROVE FALSE
    BY DEF Halved
  <2> QED BY <1>1, <1>4, HalfIsOutermost DEF Halved
<1>6. Inside(n, o)
  <2>1. UpperHalf(p) \in IpAddress /\ Inside(UpperHalf(p), p) /\ k.mask = p.mask + 1
    BY HalfIsInside DEF IsHalf, SameNet
  <2>2. k.first = UpperHalf(p).first /\ Last(k) = Last(UpperHalf(p))
    BY DEF SameNet, Last
  <2>3. p.first <= k.first /\ Last(k) <= Last(p)
    BY <2>1, <2>2 DEF Inside
  <2>4. o.mask <= p.mask
    BY <1>1, <1>3, <1>4, <2>1, NetBounds DEF Inside
  <2>5. p.first <= Last(o) /\ o.first <= Last(p)
    BY <1>1, <1>3, <1>4, <2>3, NetBounds DEF Inside
  <2>6. o.first <= p.first /\ Last(p) <= Last(o)
    BY <1>1, <2>4, <2>5, Nested, NetBounds
  <2> QED BY <1>1, <1>3, <2>4, <2>6, NetBounds DEF Inside
<1>7. n \in nets
  <2> SUFFICES ASSUME IsHalf(n, x) PROVE FALSE
    BY DEF Halved
  <2> QED BY <1>1, <1>4, <1>6, HalfIsOutermost DEF Halved
<1> QED BY <1>4, <1>5, <1>7 DEF Clashing

(* A network of kind in has the longest prefix at address a.               *)
Decisive(a, nets, in) ==
  \E n \in nets : /\ In(a, n) /\ n.included = in
                  /\ \A m \in nets : In(a, m) /\ m.included # in => m.mask < n.mask

(* Splitting changes at no address which kind has the longest prefix.      *)
LEMMA SplitDecides ==
  ASSUME NEW nets, NEW x, NEW after, Halved(x, nets, after),
         NEW a \in Address, NEW in, Decisive(a, nets, in)
  PROVE  Decisive(a, after, in)
<1>1. x \in IpAddress /\ nets \in SUBSET IpAddress
  BY DEF Halved
<1>2. \A h : IsHalf(h, x) => h \in IpAddress /\ Inside(h, x) /\ h.included = x.included
                             /\ h.mask = x.mask + 1
  BY <1>1, HalfIsInside DEF Halved
<1>3. \A i \in after : i \in IpAddress
  BY <1>1, <1>2 DEF Halved
<1>4. PICK n \in nets : /\ In(a, n) /\ n.included = in
                        /\ \A m \in nets : In(a, m) /\ m.included # in => m.mask < n.mask
  BY DEF Decisive
<1>5. CASE n \in after
  <2> SUFFICES ASSUME NEW m \in after, In(a, m), m.included # in
               PROVE  m.mask < n.mask
    BY <1>4, <1>5 DEF Decisive
  <2>1. CASE m \in nets
    BY <1>4, <2>1
  <2>2. CASE IsHalf(m, x)
    <3>1. In(a, x) /\ x.included # in
      BY <1>1, <1>2, <2>2, NetBounds DEF In, Inside, Address
    <3>2. x.mask < n.mask
      BY <1>4, <3>1 DEF Halved
    <3>3. m.mask <= n.mask
      BY <1>1, <1>2, <1>3, <2>2, <3>2, NetBounds
    <3>4. m.mask # n.mask
      <4> SUFFICES ASSUME m.mask = n.mask PROVE FALSE
        OBVIOUS
      <4>1. SameNet(m, n)
        BY <1>3, <1>4, <1>5, Sharing
      <4> QED BY <1>4, <1>5, <4>1 DEF Halved, OneOfEach
    <3> QED BY <1>3, <1>5, <3>3, <3>4, NetBounds
  <2> QED BY <2>1, <2>2 DEF Halved
<1>6. CASE n = x
  <2>1. PICK h \in {LowerHalf(x), UpperHalf(x)} : In(a, h)
    BY <1>1, <1>4, <1>6, Halves, NetBounds DEF Halved, In, Address
  <2>2. PICK k \in after : SameNet(h, k)
    BY DEF Halved
  <2>3. In(a, k) /\ k.mask = x.mask + 1 /\ k \in IpAddress
    BY <1>2, <1>3, <2>1, <2>2 DEF IsHalf, In, SameNet, Last
  <2>4. k.included = in
    <3>1. CASE IsHalf(k, x)
      BY <1>2, <1>4, <1>6, <3>1
    <3>2. CASE k \in nets
      BY <1>1, <1>4, <1>6, <2>3, <3>2, NetBounds
    <3> QED BY <3>1, <3>2 DEF Halved
  <2>5. ASSUME NEW m \in after, In(a, m), m.included # in
        PROVE  m.mask < k.mask
    <3>1. m \in nets
      BY <1>2, <1>4, <1>6, <2>5 DEF Halved
    <3>2. m.mask < x.mask
      BY <1>4, <1>6, <2>5, <3>1
    <3> QED BY <1>1, <2>3, <3>1, <3>2, NetBounds
  <2> QED BY <2>3, <2>4, <2>5 DEF Decisive
<1> QED BY <1>5, <1>6 DEF Halved
-------------------------------------------------------------------------------
(* At each covered address some network has the longest prefix.            *)
Decided(nets) ==
  \A a \in Address : \A m \in nets : In(a, m) => Longest(a, nets) # {}

LEMMA AddDecides ==
  ASSUME NEW nets \in SUBSET IpAddress, NEW n \in IpAddress,
         OneOfEach(nets), Decided(nets)
  PROVE  /\ Add(nets, n) \in SUBSET IpAddress
         /\ OneOfEach(Add(nets, n)) /\ Decided(Add(nets, n))
<1>1. CASE \E k \in nets : SameNet(n, k)
  BY <1>1 DEF Add
<1>2. CASE ~\E k \in nets : SameNet(n, k)
  <2> DEFINE more == nets \union {n}
  <2>1. Add(nets, n) = more /\ more \in SUBSET IpAddress
    BY <1>2 DEF Add
  <2>2. OneOfEach(more)
    BY <1>2 DEF OneOfEach, SameNet
  <2>3. ASSUME NEW a \in Address, NEW m \in more, In(a, m)
        PROVE  Longest(a, more) # {}
    <3>1. CASE \E l \in nets : In(a, l)
      <4>1. PICK l \in Longest(a, nets) : TRUE
        BY <3>1 DEF Decided
      <4>2. /\ l \in nets /\ In(a, l) /\ l.mask \in Nat /\ n.mask \in Nat
            /\ \A k \in nets : In(a, k) => k.mask <= l.mask /\ k.mask \in Nat
        BY <4>1, NetBounds DEF Longest
      <4>3. CASE In(a, n) /\ n.mask > l.mask
        <5>1. n \in Longest(a, more)
          BY <4>2, <4>3 DEF Longest
        <5> QED BY <5>1
      <4>4. CASE ~(In(a, n) /\ n.mask > l.mask)
        <5>1. l \in Longest(a, more)
          BY <4>2, <4>4 DEF Longest
        <5> QED BY <5>1
      <4> QED BY <4>3, <4>4
    <3>2. CASE ~\E l \in nets : In(a, l)
      <4>1. n \in Longest(a, more)
        BY <2>3, <3>2, NetBounds DEF Longest
      <4> QED BY <4>1
    <3> QED BY <3>1, <3>2
  <2> QED BY <2>1, <2>2, <2>3 DEF Decided
<1> QED BY <1>1, <1>2

LEMMA FewerAreRegular ==
  ASSUME NEW nets, NEW fewer \in SUBSET nets
  PROVE  /\ OneOfEach(nets) => OneOfEach(fewer)
         /\ ~Hidden(nets) => ~Hidden(fewer)
         /\ ~Clashing(nets) => ~Clashing(fewer)
  BY DEF OneOfEach, Hidden, Clashing

(* No network in the queue comes before the current one.                   *)
FirstInLine == \A n \in Queued : ~Before(n, currentNet)

(* Among the networks still held the longest prefix at an address belongs  *)
(* to the kind it belongs to among those that were added.                  *)
Follows ==
  \A a \in Address : \A n \in Longest(a, mIpAddresses) :
    Decisive(a, Held, n.included)

(* What is held stays regular, and routing by it gives what routing by the *)
(* networks that were added does.                                          *)
Calm ==
  /\ FirstInLine /\ OneOfEach(Held) /\ ~Hidden(Held) /\ ~Clashing(Held)
  /\ Follows

LEMMA LoopTypes ==
  ASSUME TypeOK, pc = "loop"
  PROVE  /\ currentNet \in IpAddress /\ currentNet \in Held
         /\ Queued \subseteq IpAddress /\ Queued \subseteq Held
         /\ ipsDone \subseteq IpAddress /\ ipsDone \subseteq Held
         /\ networks \in [IpAddress -> Nat]
         /\ Held \in SUBSET IpAddress
         /\ \A n \in Held : n \in ipsDone \/ n \in Queued \/ n = currentNet
  BY DEF TypeOK, Held, Queued, Members

(* The next network, where it overlaps the current one: either that lies   *)
(* in it and begins where it does, or it lies in that one further up.      *)
LEMMA Meeting ==
  ASSUME TypeOK, pc = "loop", FirstInLine, OneOfEach(Held),
         NEW n \in Queued, Overlap(n)
  PROVE  /\ CurrentInNext(n) => currentNet = n \/ Inside(currentNet, n)
         /\ ~CurrentInNext(n) =>
              /\ Inside(n, currentNet) /\ currentNet.first < n.first
              /\ NextAsserted(n) /\ SplitAsserted(n)
<1> DEFINE c == currentNet
<1>1. n \in IpAddress /\ c \in IpAddress /\ n \in Held /\ c \in Held
  BY LoopTypes
<1>2. /\ n.first \in Nat /\ c.first \in Nat /\ Last(n) \in Nat /\ Last(c) \in Nat
      /\ n.mask \in Nat /\ c.mask \in Nat /\ n.mask \in 0..Bits
      /\ n.first <= Last(n) /\ c.first <= Last(c)
  BY <1>1, NetBounds
<1>3. c.first <= n.first /\ (c.first = n.first => c.mask >= n.mask)
  BY <1>2 DEF FirstInLine, Before
<1>4. n.first <= Last(c) /\ c.first <= Last(n)
  BY <1>2, <1>3 DEF Overlap
<1>5. SameNet(c, n) => c = n
  BY <1>1 DEF OneOfEach
<1>6. ASSUME CurrentInNext(n)
      PROVE  c = n \/ Inside(c, n)
  <2>1. c.mask = n.mask => SameNet(c, n)
    BY <1>6 DEF CurrentInNext, SameNet
  <2>2. c.mask > n.mask => Inside(c, n)
    BY <1>1, <1>4, Nested
  <2> QED BY <1>2, <1>5, <1>6, <2>1, <2>2 DEF CurrentInNext
<1>7. ASSUME ~CurrentInNext(n)
      PROVE  /\ Inside(n, c) /\ c.first < n.first
             /\ NextAsserted(n) /\ SplitAsserted(n)
  <2>1. c.first < n.first
    BY <1>2, <1>3, <1>7 DEF CurrentInNext
  <2>2. n.mask > c.mask
    <3> SUFFICES ASSUME c.mask >= n.mask PROVE FALSE
      BY <1>2
    <3>1. n.first <= c.first
      BY <1>1, <1>4, Nested
    <3> QED BY <1>2, <2>1, <3>1
  <2>3. Inside(n, c)
    BY <1>1, <1>4, <2>2, Nested
  <2>4. NextAsserted(n)
    BY <1>2, <2>1, <2>2, <2>3 DEF NextAsserted, Inside
  <2>5. SplitAsserted(n)
    <3> DEFINE up == UpperHalf(c)
               lo == LowerHalf(c)
    <3> SUFFICES ASSUME up.mask = n.mask PROVE up.first = n.first
      BY DEF SplitAsserted
    <3>1. c.mask < Bits
      BY <1>1, <1>2, <2>2, NetBounds, SizeAssumption
    <3>2. /\ up \in IpAddress /\ lo \in IpAddress /\ lo.mask = n.mask
          /\ lo.first = c.first /\ Last(lo) = up.first - 1 /\ Last(up) = Last(c)
      <4>1. up.mask = lo.mask
        BY DEF UpperHalf, LowerHalf
      <4> QED BY <1>1, <3>1, <4>1, Halves
    <3>3. up.first \in Nat
      BY <3>2, NetBounds
    <3>4. CASE n.first < up.first
      <4>1. SameNet(n, lo)
        BY <1>1, <1>2, <2>1, <3>2, <3>3, <3>4, Nested
      <4> QED BY <1>2, <2>1, <3>2, <4>1 DEF SameNet
    <3>5. CASE n.first >= up.first
      <4>1. SameNet(n, up)
        BY <1>1, <1>2, <1>4, <3>2, <3>3, <3>5, Nested
      <4> QED BY <4>1 DEF SameNet
    <3> QED BY <1>2, <3>3, <3>4, <3>5
  <2> QED BY <2>1, <2>3, <2>4, <2>5
<1> QED BY <1>6, <1>7

(* What a step that keeps the order and the choice of kind leaves.         *)
LEMMA StaysCalm ==
  ASSUME Calm, mIpAddresses' = mIpAddresses, FirstInLine',
         OneOfEach(Held'), ~Hidden(Held'), ~Clashing(Held'),
         \A a \in Address, in \in BOOLEAN :
           Decisive(a, Held, in) => Decisive(a, Held', in),
         mIpAddresses \subseteq IpAddress
  PROVE  Calm'
<1>1. ASSUME NEW a \in Address, NEW n \in Longest(a, mIpAddresses)
      PROVE  Decisive(a, Held', n.included)
  <2>1. n.included \in BOOLEAN
    BY NetBounds DEF Longest
  <2> QED BY <2>1 DEF Calm, Follows
<1>2. Follows' <=> \A a \in Address : \A n \in Longest(a, mIpAddresses) :
                     Decisive(a, Held', n.included)
  BY DEF Follows, Longest, Decisive, In, Last
<1> QED BY <1>1, <1>2
     DEF Calm, OneOfEach, Hidden, Clashing, SameNet, Inside, Before, Last,
         UpperHalf, LowerHalf

(* An iteration fails no assertion and keeps the loop calm.  The network   *)
(* that is split is outermost: when it is the next one, a larger one of    *)
(* the other kind would make it Hidden; when it is the current one, the    *)
(* larger one would have been polled before the next.  The half that       *)
(* SplitCurrent queues meets no equal one of the other kind, as that and   *)
(* the next network would be Clashing.  Where a network is merged into one *)
(* of its kind, a network between them would be Hidden.                    *)
LEMMA IterateCalm ==
  ASSUME TypeOK, Ordered, Calm, Iterate
  PROVE  pc' = "loop" /\ Calm'
<1>1. PICK n \in Queued :
        /\ Least(n, Queued)
        /\ \/ Emit(n) \/ ForgetCurrent(n) \/ SplitNext(n)
           \/ IgnoreNext(n) \/ SplitCurrent(n) \/ AssertionFails(n)
  BY DEF Iterate
<1>2. pc = "loop" /\ mIpAddresses' = mIpAddresses /\ mIpAddresses \subseteq IpAddress
  BY DEF Iterate, TypeOK
<1>3. /\ currentNet \in IpAddress /\ currentNet \in Held
      /\ Queued \subseteq IpAddress /\ Queued \subseteq Held
      /\ ipsDone \subseteq IpAddress /\ ipsDone \subseteq Held
      /\ networks \in [IpAddress -> Nat]
      /\ Held \in SUBSET IpAddress /\ n \in IpAddress /\ n \in Held
      /\ \A k \in Held : k \in ipsDone \/ k \in Queued \/ k = currentNet
  BY <1>2, LoopTypes
<1>4. /\ FirstInLine /\ OneOfEach(Held) /\ ~Hidden(Held) /\ ~Clashing(Held)
  BY DEF Calm
<1>5. \A d \in ipsDone : Last(d) < currentNet.first
  BY <1>2 DEF Ordered
<1>6. /\ Members(Polled(n)) \subseteq Queued
      /\ Queued \subseteq Members(Polled(n)) \union {n}
      /\ Polled(n) \in [IpAddress -> Nat]
  BY <1>3, PolledMembers
<1>7. Queued' = Members(networks')
  BY DEF Queued
<1>8. pc' = "loop" => Held' = ipsDone' \union Queued' \union {currentNet'}
  BY DEF Held
<1>9. \A k \in Held : k \in IpAddress /\ k.first \in Nat /\ Last(k) \in Nat
                      /\ k.mask \in Nat /\ k.included \in BOOLEAN /\ k.first <= Last(k)
  BY <1>3, NetBounds
<1>10. \A k \in Queued : /\ n.first <= k.first
                         /\ n.first = k.first => n.mask >= k.mask
  BY <1>1, <1>3, <1>9 DEF Least, Before
<1>11. /\ currentNet.first <= n.first
       /\ \A k \in Queued : /\ currentNet.first <= k.first
                            /\ currentNet.first = k.first => currentNet.mask >= k.mask
  BY <1>3, <1>4, <1>9 DEF FirstInLine, Before
<1>12. CASE Emit(n)
  <2>1. pc' = "loop" /\ Held' = Held
    <3>1. \A d \in ipsDone : ~SameNet(currentNet, d)
      BY <1>3, <1>5, <1>9 DEF SameNet
    <3>2. ipsDone' = ipsDone \union {currentNet}
      BY <1>12, <3>1 DEF Emit, Add
    <3> QED BY <1>2, <1>3, <1>6, <1>7, <1>8, <1>12, <3>2 DEF Emit, Held
  <2>2. FirstInLine'
    BY <1>1, <1>6, <1>7, <1>12 DEF Emit, FirstInLine, Least, Before
  <2> QED BY <1>2, <1>4, <2>1, <2>2, StaysCalm
<1>13. CASE ForgetCurrent(n)
  <2>1. pc' = "loop" /\ Held' \subseteq Held /\ Held \subseteq Held' \union {currentNet}
        /\ n \in Held'
    BY <1>2, <1>3, <1>6, <1>7, <1>8, <1>13 DEF ForgetCurrent
  <2>2. FirstInLine'
    BY <1>1, <1>6, <1>7, <1>13 DEF ForgetCurrent, FirstInLine, Least, Before
  <2>3. /\ currentNet = n \/ Inside(currentNet, n)
        /\ currentNet.first = n.first /\ currentNet.included = n.included
    BY <1>2, <1>4, <1>13, Meeting DEF ForgetCurrent, CurrentInNext
  <2>4. ASSUME NEW a \in Address, NEW in \in BOOLEAN, Decisive(a, Held, in)
        PROVE  Decisive(a, Held', in)
    <3>1. PICK w \in Held : /\ In(a, w) /\ w.included = in
                            /\ \A m \in Held : In(a, m) /\ m.included # in => m.mask < w.mask
      BY <2>4 DEF Decisive
    <3>2. CASE w \in Held'
      BY <2>1, <3>1, <3>2 DEF Decisive
    <3>3. CASE w = currentNet /\ w # n
      <4>1. In(a, n) /\ n.included = in
        BY <1>3, <1>9, <2>3, <3>1, <3>3 DEF In, Inside, Address
      <4>2. ASSUME NEW m \in Held', In(a, m), m.included # in
            PROVE  m.mask < n.mask
        <5>1. m \in Held /\ m \in IpAddress /\ m.mask < currentNet.mask
          BY <1>3, <2>1, <3>1, <3>3, <4>2
        <5>2. Inside(currentNet, m)
          BY <1>3, <1>9, <3>1, <3>3, <4>2, <5>1, Sharing
        <5>3. CASE m.mask = n.mask
          <6>1. SameNet(m, n)
            BY <1>3, <4>1, <4>2, <5>1, <5>3, Sharing
          <6> QED BY <1>3, <1>4, <4>1, <4>2, <5>1, <6>1 DEF OneOfEach
        <5>4. CASE m.mask > n.mask
          <6>1. Inside(m, n)
            BY <1>3, <4>1, <4>2, <5>1, <5>4, Sharing
          <6>2. m.first = currentNet.first
            BY <1>3, <1>9, <2>3, <5>1, <5>2, <6>1 DEF Inside
          <6>3. m.included = ~currentNet.included /\ m.included # n.included
            BY <1>3, <1>9, <2>3, <3>1, <3>3, <4>2, <5>1
          <6> QED BY <1>3, <1>4, <2>3, <5>1, <5>2, <6>1, <6>2, <6>3 DEF Hidden
        <5> QED BY <1>3, <1>9, <5>1, <5>3, <5>4
      <4> QED BY <2>1, <4>1, <4>2 DEF Decisive
    <3> QED BY <2>1, <3>2, <3>3
  <2> QED BY <1>2, <1>4, <2>1, <2>2, <2>4, FewerAreRegular, StaysCalm
<1>14. CASE IgnoreNext(n)
  <2>1. pc' = "loop" /\ Held' \subseteq Held /\ Held \subseteq Held' \union {n}
        /\ currentNet \in Held'
    BY <1>2, <1>3, <1>6, <1>7, <1>8, <1>14 DEF IgnoreNext
  <2>2. FirstInLine'
    BY <1>4, <1>6, <1>7, <1>14 DEF IgnoreNext, FirstInLine, Before
  <2>3. /\ Inside(n, currentNet) /\ currentNet.first < n.first
        /\ currentNet.included = n.included
    BY <1>2, <1>4, <1>14, Meeting DEF IgnoreNext
  <2>4. ASSUME NEW a \in Address, NEW in \in BOOLEAN, Decisive(a, Held, in)
        PROVE  Decisive(a, Held', in)
    <3>1. PICK w \in Held : /\ In(a, w) /\ w.included = in
                            /\ \A m \in Held : In(a, m) /\ m.included # in => m.mask < w.mask
      BY <2>4 DEF Decisive
    <3>2. CASE w \in Held'
      BY <2>1, <3>1, <3>2 DEF Decisive
    <3>3. CASE w = n
      <4>1. In(a, currentNet) /\ currentNet.included = in
        BY <1>3, <1>9, <2>3, <3>1, <3>3 DEF In, Inside, Address
      <4>2. ASSUME NEW m \in Held', In(a, m), m.included # in
            PROVE  m.mask < currentNet.mask
        <5>1. m \in Held /\ m \in IpAddress /\ m.mask < n.mask
          BY <1>3, <2>1, <3>1, <3>3, <4>2
        <5>2. Inside(n, m)
          BY <1>3, <1>9, <3>1, <3>3, <4>2, <5>1, Sharing
        <5>3. CASE m.mask = currentNet.mask
          <6>1. SameNet(m, currentNet)
            BY <1>3, <4>1, <4>2, <5>1, <5>3, Sharing
          <6> QED BY <1>3, <1>4, <4>1, <4>2, <5>1, <6>1 DEF OneOfEach
        <5>4. CASE m.mask > currentNet.mask
          <6>1. Inside(m, currentNet)
            BY <1>3, <4>1, <4>2, <5>1, <5>4, Sharing
          <6>2. m \in Queued
            BY <1>3, <1>5, <1>9, <4>1, <4>2, <5>1, <6>1 DEF Inside
          <6>3. m.first = n.first
            BY <1>3, <1>9, <1>10, <5>1, <5>2, <6>2 DEF Inside
          <6> QED BY <1>3, <1>4, <2>3, <3>1, <3>3, <4>2, <5>1, <5>2, <6>1, <6>3 DEF Hidden
        <5> QED BY <1>3, <1>9, <5>1, <5>3, <5>4
      <4> QED BY <2>1, <4>1, <4>2 DEF Decisive
    <3> QED BY <2>1, <3>2, <3>3
  <2> QED BY <1>2, <1>4, <2>1, <2>2, <2>4, FewerAreRegular, StaysCalm
<1>15. CASE SplitNext(n)
  <2> DEFINE up == UpperHalf(n)
             lo == LowerHalf(n)
             queue == WithNew(Polled(n), up)
  <2>1. pc' = "loop" /\ currentNet' = currentNet /\ ipsDone' = ipsDone /\ n.mask < Bits
    BY <1>2, <1>15 DEF SplitNext
  <2>2. /\ Inside(currentNet, n) /\ currentNet.first = n.first
        /\ currentNet.included # n.included
    BY <1>2, <1>4, <1>15, Meeting DEF SplitNext, CurrentInNext
  <2>3. /\ lo \in IpAddress /\ up \in IpAddress
        /\ lo.first = n.first /\ up.first > n.first /\ Last(lo) = up.first - 1
        /\ lo.mask = n.mask + 1 /\ up.mask = n.mask + 1
    BY <1>3, <2>1, Halves, HalfIsInside DEF IsHalf
  <2>4. up.first \in Nat /\ Last(lo) \in Nat
    BY <2>3, NetBounds
  <2>5. networks' = IF Last(lo) = Last(currentNet) THEN queue ELSE WithNew(queue, lo)
    BY <1>15 DEF SplitNext
  <2>6. Outermost(n, Held)
    BY <1>3, <1>4, <1>9, <2>2 DEF Outermost, Hidden
  <2> DEFINE more == ipsDone \union {currentNet} \union Members(queue)
  <2>7. queue \in [IpAddress -> Nat] /\ up \in IpAddress
        /\ Members(Polled(n)) \subseteq Members(queue)
        /\ Members(queue) \subseteq Members(Polled(n)) \union {up}
        /\ \E k \in Members(queue) : SameNet(up, k)
    BY <1>6, <2>3, WithNewMembers
  <2>8. OneOfEach(more)
    <3>1. CASE \E k \in Members(Polled(n)) : SameNet(up, k)
      <4>1. more \subseteq Held
        BY <1>3, <1>6, <3>1 DEF WithNew, SameNet
      <4> QED BY <1>4, <4>1 DEF OneOfEach
    <3>2. CASE ~\E k \in Members(Polled(n)) : SameNet(up, k)
      <4>1. \A k \in ipsDone : k.first # up.first
        BY <1>3, <1>5, <1>9, <2>2, <2>3, <2>4
      <4>2. currentNet.first # up.first
        BY <1>3, <1>9, <2>2, <2>3, <2>4
      <4>3. more \subseteq ipsDone \union {currentNet} \union Members(Polled(n)) \union {up}
        BY <2>7
      <4>4. \A k \in more : k = up \/ (k \in Held /\ ~SameNet(up, k))
        BY <1>3, <1>6, <3>2, <4>1, <4>2, <4>3 DEF SameNet
      <4> QED BY <1>4, <4>4 DEF OneOfEach, SameNet
    <3> QED BY <3>1, <3>2
  <2>9. Last(lo) = Last(currentNet) => SameNet(lo, currentNet)
    <3> SUFFICES ASSUME Last(lo) = Last(currentNet) PROVE SameNet(lo, currentNet)
      OBVIOUS
    <3>1. lo.first = currentNet.first
      BY <2>2, <2>3
    <3>2. /\ lo.mask \in 0..Bits /\ lo.mask \in Nat /\ lo.first \in Nat
          /\ currentNet.mask \in 0..Bits /\ currentNet.mask \in Nat
      BY <1>3, <2>3, NetBounds
    <3>3. Size[lo.mask] \in Nat /\ Size[currentNet.mask] \in Nat
      BY <3>2, SizeShrinks
    <3>4. Size[lo.mask] = Size[currentNet.mask]
      BY <3>1, <3>2, <3>3 DEF Last
    <3>5. lo.mask = currentNet.mask
      BY <3>2, <3>4, SizeShrinks
    <3> QED BY <3>1, <3>5 DEF SameNet
  <2> HIDE DEF queue
  <2>10. /\ Held' \subseteq more \union {lo}
         /\ more \subseteq Held'
         /\ OneOfEach(Held')
         /\ \E k \in Held' : SameNet(lo, k)
    <3>1. CASE Last(lo) = Last(currentNet)
      <4>1. Held' = more
        BY <1>7, <1>8, <2>1, <2>5, <3>1
      <4> QED BY <2>8, <2>9, <3>1, <4>1
    <3>2. CASE Last(lo) # Last(currentNet)
      <4>1. Held' = ipsDone \union {currentNet} \union Members(WithNew(queue, lo))
        BY <1>7, <1>8, <2>1, <2>5, <3>2
      <4>2. /\ Members(queue) \subseteq Members(WithNew(queue, lo))
            /\ Members(WithNew(queue, lo)) \subseteq Members(queue) \union {lo}
            /\ \E k \in Members(WithNew(queue, lo)) : SameNet(lo, k)
        BY <2>3, <2>7, WithNewMembers
      <4>3. OneOfEach(Held')
        <5>1. CASE \E k \in Members(queue) : SameNet(lo, k)
          <6>1. Held' = more
            BY <4>1, <5>1 DEF WithNew
          <6> QED BY <2>8, <6>1
        <5>2. CASE ~\E k \in Members(queue) : SameNet(lo, k)
          <6>1. \A k \in ipsDone : k.first # lo.first
            BY <1>3, <1>5, <1>9, <2>2, <2>3
          <6>2. ~SameNet(lo, currentNet)
            BY <3>2 DEF SameNet, Last
          <6>3. \A k \in more : ~SameNet(lo, k)
            BY <5>2, <6>1, <6>2 DEF SameNet
          <6>4. Held' \subseteq more \union {lo}
            BY <4>1, <4>2
          <6> QED BY <2>8, <6>3, <6>4 DEF OneOfEach, SameNet
        <5> QED BY <5>1, <5>2
      <4> QED BY <4>1, <4>2, <4>3
    <3> QED BY <3>1, <3>2
  <2>11. more \subseteq Held \union {up} /\ Held \subseteq more \union {n}
    BY <1>3, <1>6, <2>7
  <2>12. Halved(n, Held, Held')
    <3>1. \A k \in Held' : k \in Held \/ IsHalf(k, n)
      BY <2>10, <2>11 DEF IsHalf
    <3>2. \A k \in Held : k \in Held' \/ k = n
      BY <2>10, <2>11
    <3>3. \A h \in {lo, up} : \E k \in Held' : SameNet(h, k)
      BY <2>7, <2>10
    <3> QED BY <1>3, <1>4, <2>1, <2>10, <3>1, <3>2, <3>3 DEF Halved
  <2>13. FirstInLine'
    <3>1. \A k \in Queued' : k \in Queued \/ k = lo \/ k = up
      <4>1. Members(WithNew(queue, lo)) \subseteq Members(queue) \union {lo}
        BY <2>3, <2>7, WithNewMembers
      <4> QED BY <1>6, <1>7, <2>5, <2>7, <4>1
    <3>2. ~Before(lo, currentNet) /\ ~Before(up, currentNet)
      BY <1>3, <1>9, <2>2, <2>3, <2>4 DEF Before, Inside
    <3> QED BY <1>4, <2>1, <3>1, <3>2 DEF FirstInLine, Before
  <2> QED BY <1>2, <1>4, <2>1, <2>6, <2>10, <2>12, <2>13,
             SplitHides, SplitClashes, SplitDecides, StaysCalm
<1>16. CASE SplitCurrent(n)
  <2> DEFINE c == currentNet
             up == UpperHalf(c)
             lo == LowerHalf(c)
  <2>1. pc' = "loop" /\ currentNet' = lo /\ ipsDone' = ipsDone
    BY <1>2, <1>16 DEF SplitCurrent
  <2>2. /\ Inside(n, c) /\ c.first < n.first /\ c.included # n.included
        /\ up.mask = n.mask => up.first = n.first
    BY <1>2, <1>4, <1>16, Meeting DEF SplitCurrent, SplitAsserted
  <2>3. c.mask < Bits
    BY <1>3, <2>2, NetBounds, SizeAssumption DEF Inside
  <2>4. /\ lo \in IpAddress /\ up \in IpAddress
        /\ lo.first = c.first /\ up.first > c.first
        /\ lo.mask = c.mask + 1 /\ up.mask = c.mask + 1
        /\ up.included = c.included /\ Inside(up, c)
    BY <1>3, <2>3, Halves, HalfIsInside DEF IsHalf
  <2>5. up.first \in Nat /\ Last(up) \in Nat /\ up.mask \in Nat
    BY <2>4, NetBounds
  <2>6. networks' = IF up.mask = n.mask THEN networks ELSE With(networks, up)
    BY <1>16 DEF SplitCurrent
  <2> HIDE DEF lo, up
  <2>7. Outermost(c, Held)
    <3> SUFFICES ASSUME NEW m \in Held, Inside(c, m) PROVE FALSE
      BY DEF Outermost
    <3>1. m \in Queued
      BY <1>3, <1>5, <1>9 DEF Inside
    <3>2. m.first = c.first
      BY <1>3, <1>9, <1>11, <3>1 DEF Inside
    <3> QED BY <1>3, <1>9, <1>10, <2>2, <3>1, <3>2
  <2> DEFINE more == ipsDone \union Queued'
  <2>8. Held' = more \union {lo}
    BY <1>8, <2>1
  <2>9. Queued \subseteq Queued' /\ Queued' \subseteq Queued \union {up}
        /\ \E k \in Queued' : SameNet(up, k)
    <3>1. CASE up.mask = n.mask
      BY <1>7, <2>2, <2>6, <3>1 DEF Queued, SameNet
    <3>2. CASE up.mask # n.mask
      <4>1. Queued' = Queued \union {up}
        BY <1>3, <1>7, <2>4, <2>6, <3>2, WithMembers DEF Queued
      <4> QED BY <4>1 DEF SameNet
    <3> QED BY <3>1, <3>2
  <2>10. OneOfEach(more)
    <3>1. CASE up.mask = n.mask
      <4>1. more \subseteq Held
        BY <1>3, <1>7, <2>6, <3>1 DEF Queued
      <4> QED BY <1>4, <4>1 DEF OneOfEach
    <3>2. CASE up.mask # n.mask
      <4>1. \A k \in ipsDone : ~SameNet(up, k)
        BY <1>3, <1>5, <1>9, <2>4, <2>5 DEF SameNet
      <4>2. ASSUME NEW k \in Queued, SameNet(up, k)
            PROVE  k = up
        <5>1. k.first = up.first /\ k.mask = up.mask /\ Last(k) = Last(up)
          BY <4>2 DEF SameNet, Last
        <5>2. Inside(k, c)
          BY <2>4, <5>1 DEF Inside
        <5>3. k.included = c.included
          <6> SUFFICES ASSUME k.included # c.included PROVE FALSE
            OBVIOUS
          <6>1. n.included = k.included /\ n.included # c.included
            BY <1>3, <1>9, <2>2
          <6>2. Before(n, k)
            <7>1. k.mask # n.mask
              BY <3>2, <5>1
            <7> QED BY <1>3, <1>9, <1>10, <7>1 DEF Before
          <6>3. SameNet(UpperHalf(c), k)
            BY <4>2 DEF up
          <6> QED BY <1>3, <1>4, <2>2, <2>3, <5>2, <6>1, <6>2, <6>3 DEF Clashing
        <5>4. k \in IpAddress
          BY <1>3
        <5> QED BY <2>4, <5>1, <5>3, <5>4 DEF IpAddress, Net
      <4>3. \A k \in more : k = up \/ (k \in Held /\ ~SameNet(up, k))
        BY <1>3, <2>9, <4>1, <4>2
      <4> QED BY <1>4, <4>3 DEF OneOfEach, SameNet
    <3> QED BY <3>1, <3>2
  <2>11. OneOfEach(Held')
    <3>1. \A k \in ipsDone : k.first # lo.first
      BY <1>3, <1>5, <1>9, <2>4
    <3>2. \A k \in Queued : k.first # lo.first
      BY <1>3, <1>9, <1>10, <2>2, <2>4
    <3>3. up.first # lo.first
      BY <1>3, <1>9, <2>4, <2>5
    <3>4. \A k \in more : ~SameNet(lo, k)
      BY <2>9, <3>1, <3>2, <3>3 DEF SameNet
    <3> QED BY <2>8, <2>10, <3>4 DEF OneOfEach, SameNet
  <2>12. Halved(c, Held, Held')
    <3>1. \A k \in Held' : k \in Held \/ IsHalf(k, c)
      BY <1>3, <2>8, <2>9 DEF IsHalf, lo, up
    <3>2. \A k \in Held : k \in Held' \/ k = c
      BY <1>3, <2>8, <2>9
    <3>3. \A h \in {lo, up} : \E k \in Held' : SameNet(h, k)
      BY <2>8, <2>9 DEF SameNet
    <3> QED BY <1>3, <1>4, <2>3, <2>11, <3>1, <3>2, <3>3 DEF Halved, lo, up
  <2>13. FirstInLine'
    <3>1. \A k \in Queued : ~Before(k, lo)
      BY <1>3, <1>9, <1>10, <2>2, <2>4 DEF Before
    <3>2. ~Before(up, lo)
      BY <1>3, <1>9, <2>4, <2>5 DEF Before
    <3> QED BY <2>1, <2>9, <3>1, <3>2 DEF FirstInLine, Before
  <2> QED BY <1>2, <1>3, <1>4, <2>1, <2>7, <2>11, <2>12, <2>13,
             SplitHides, SplitClashes, SplitDecides, StaysCalm
<1>17. ~AssertionFails(n)
  <2> SUFFICES ASSUME AssertionFails(n) PROVE FALSE
    OBVIOUS
  <2>1. Overlap(n) /\ CurrentInNext(n) /\ n.mask = Bits /\ currentNet.included # n.included
    BY <1>2, <1>4, Meeting DEF AssertionFails
  <2>2. Inside(currentNet, n)
    BY <1>2, <1>4, <2>1, Meeting
  <2> QED BY <1>3, <2>1, <2>2, NetBounds, SizeAssumption DEF Inside
<1> QED BY <1>1, <1>12, <1>13, <1>14, <1>15, <1>16, <1>17
-------------------------------------------------------------------------------
(* While networks are added there is one of each and a longest prefix; for *)
(* regular ones the loop is calm, and its result follows the longest       *)
(* prefix.                                                                 *)
RegularInv ==
  /\ OneOfEach(mIpAddresses) /\ Decided(mIpAddresses)
  /\ Regular => /\ pc # "failed"
                /\ pc = "loop" => Calm
                /\ pc = "done" => Follows

LEMMA NextRegular ==
  ASSUME TypeOK, Ordered, RegularInv, [Next]_vars
  PROVE  RegularInv'
<1>1. mIpAddresses \in SUBSET IpAddress
  BY DEF TypeOK
<1>2. CASE \E n \in IpAddress : AddIP(n) \/ AddIPSplit(n)
  <2>1. pc' = "adding"
    BY <1>2 DEF AddIP, AddIPSplit
  <2>2. OneOfEach(mIpAddresses') /\ Decided(mIpAddresses')
    <3>1. PICK n \in IpAddress : AddIP(n) \/ AddIPSplit(n)
      BY <1>2
    <3>2. CASE AddIP(n)
      BY <1>1, <3>1, <3>2, AddDecides DEF AddIP, RegularInv
    <3>3. CASE AddIPSplit(n)
      <4>1. LowerHalf(n) \in IpAddress /\ UpperHalf(n) \in IpAddress
        BY <3>3, Halves DEF AddIPSplit
      <4> DEFINE half == Add(mIpAddresses, LowerHalf(n))
      <4>2. half \in SUBSET IpAddress /\ OneOfEach(half) /\ Decided(half)
        BY <1>1, <4>1, AddDecides DEF RegularInv
      <4> HIDE DEF half
      <4>3. mIpAddresses' = Add(half, UpperHalf(n))
        BY <3>3 DEF AddIPSplit, half
      <4> QED BY <4>1, <4>2, <4>3, AddDecides
    <3> QED BY <3>1, <3>2, <3>3
  <2> QED BY <2>1, <2>2 DEF RegularInv, OneOfEach, Decided, SameNet, Longest, In, Last
<1>3. CASE Clear
  BY <1>3 DEF Clear, RegularInv, OneOfEach, Decided
<1>4. ASSUME mIpAddresses' = mIpAddresses
      PROVE  /\ OneOfEach(mIpAddresses') /\ Decided(mIpAddresses')
             /\ Regular' => Regular
  BY <1>4 DEF RegularInv, Regular
<1>5. CASE UNCHANGED vars
  BY <1>5 DEF vars, RegularInv, Regular, Calm, Follows, FirstInLine, Held, Queued
<1>6. CASE GenerateIPList
  <2>1. mIpAddresses' = mIpAddresses /\ ipsDone' = {}
    BY <1>6 DEF GenerateIPList, Ordered
  <2>2. ASSUME Held' = mIpAddresses, Regular
        PROVE  Follows'
    <3>1. ASSUME NEW a \in Address, NEW n \in Longest(a, mIpAddresses)
          PROVE  Decisive(a, mIpAddresses, n.included)
      <4>1. /\ n \in mIpAddresses /\ In(a, n)
            /\ \A m \in mIpAddresses : In(a, m) => m.mask <= n.mask
        BY DEF Longest
      <4>2. ASSUME NEW m \in mIpAddresses, In(a, m), m.included # n.included
            PROVE  m.mask < n.mask
        <5>1. m.mask # n.mask
          <6> SUFFICES ASSUME m.mask = n.mask PROVE FALSE
            OBVIOUS
          <6>1. SameNet(m, n)
            BY <1>1, <4>1, <4>2, Sharing
          <6> QED BY <4>1, <4>2, <6>1 DEF RegularInv, OneOfEach
        <5> QED BY <1>1, <4>1, <4>2, <5>1, NetBounds
      <4> QED BY <4>1, <4>2 DEF Decisive
    <3> QED BY <2>1, <2>2, <3>1 DEF Follows
  <2>3. CASE mIpAddresses = {}
    <3>1. Held' = {} /\ pc' = "done"
      BY <1>6, <2>1, <2>3 DEF GenerateIPList, Held, TypeOK, Queued
    <3> QED BY <1>4, <2>1, <2>2, <2>3, <3>1 DEF RegularInv
  <2>4. CASE mIpAddresses # {}
    <3>1. PICK n \in mIpAddresses :
            /\ Least(n, mIpAddresses) /\ currentNet' = n /\ pc' = "loop"
            /\ networks' = [[k \in IpAddress |-> IF k \in mIpAddresses THEN 1 ELSE 0]
                               EXCEPT ![n] = 0]
      BY <1>6, <2>4 DEF GenerateIPList
    <3>2. Held' = mIpAddresses /\ Queued' \subseteq mIpAddresses
      BY <1>1, <2>1, <3>1 DEF Held, Queued, Members
    <3>3. FirstInLine'
      BY <3>1, <3>2 DEF FirstInLine, Least, Before
    <3>4. Regular => ~Hidden(Held') /\ ~Clashing(Held') /\ OneOfEach(Held')
      BY <3>2 DEF Regular, RegularInv
    <3> QED BY <1>4, <2>1, <2>2, <3>1, <3>2, <3>3, <3>4 DEF RegularInv, Calm
  <2> QED BY <2>3, <2>4
<1>7. CASE EmitLast
  <2>1. /\ Held = ipsDone \union {currentNet} /\ Held' = ipsDone'
        /\ pc = "loop" /\ pc' = "done" /\ mIpAddresses' = mIpAddresses
    BY <1>7 DEF EmitLast, Held, Queued
  <2>2. Held' = Held
    <3>1. currentNet \in IpAddress /\ ipsDone \subseteq IpAddress
      BY <2>1, LoopTypes
    <3>2. \A d \in ipsDone : d.first <= Last(d) /\ Last(d) < currentNet.first
                             /\ d.first \in Nat /\ Last(d) \in Nat
      BY <2>1, <3>1, NetBounds DEF Ordered
    <3>3. currentNet.first \in Nat
      BY <3>1, NetBounds
    <3>4. \A d \in ipsDone : ~SameNet(currentNet, d)
      BY <3>2, <3>3 DEF SameNet
    <3> QED BY <1>7, <2>1, <3>4 DEF EmitLast, Add
  <2>3. Follows => Follows'
    BY <2>1, <2>2 DEF Follows
  <2> QED BY <1>4, <2>1, <2>3 DEF RegularInv, Calm
<1>8. CASE Iterate
  <2>1. pc = "loop" /\ mIpAddresses' = mIpAddresses
    BY <1>8 DEF Iterate
  <2>2. Calm => pc' = "loop" /\ Calm'
    BY <1>8, IterateCalm
  <2> QED BY <1>4, <2>1, <2>2 DEF RegularInv
<1> QED BY <1>2, <1>3, <1>5, <1>6, <1>7, <1>8 DEF Next, Generate

LEMMA FollowsAtTheEnd ==
  ASSUME TypeOK, RoutesDisjoint, KeepInv, Decided(mIpAddresses), Follows, pc = "done"
  PROVE  FollowsLongestPrefix
<1> SUFFICES ASSUME NEW a \in Address
             PROVE  Covered(a, PositiveIPList) <=>
                      \E n \in Longest(a, mIpAddresses) : n.included
  BY DEF FollowsLongestPrefix
<1>1. Held = ipsDone /\ ipsDone \subseteq IpAddress /\ mIpAddresses \subseteq IpAddress
  BY DEF Held, TypeOK
<1>2. ASSUME NEW n \in Longest(a, mIpAddresses)
      PROVE  /\ n.included \in BOOLEAN
             /\ \E d \in ipsDone : In(a, d) /\ d.included = n.included
  <2>1. n.included \in BOOLEAN
    BY <1>1, NetBounds DEF Longest
  <2> QED BY <1>1, <2>1 DEF Follows, Decisive
<1>3. ASSUME NEW d \in ipsDone, In(a, d), d.included
      PROVE  \E n \in Longest(a, mIpAddresses) : n.included
  <2>1. PICK m \in mIpAddresses : PartOf(d, m)
    BY <1>1 DEF KeepInv, FromInput
  <2>2. In(a, m)
    BY <1>1, <1>3, <2>1, NetBounds DEF In, PartOf, Address
  <2>3. PICK n \in Longest(a, mIpAddresses) : TRUE
    BY <2>2 DEF Decided
  <2>4. PICK k \in ipsDone : In(a, k) /\ k.included = n.included
    BY <1>2
  <2>5. k = d
    BY <1>1, <1>3, <2>4, NetBounds DEF RoutesDisjoint, In, Address
  <2> QED BY <1>3, <2>4, <2>5
<1> QED BY <1>2, <1>3 DEF Covered, PositiveIPList

(* For networks without a hidden one and without clashing ones no          *)
(* assertion of generateIPList fails, and the result routes each address   *)
(* as the longest prefix would.                                            *)
THEOREM RegularIsAlwaysExact == Spec => []RegularIsExact
<1>1. Init => TypeOK /\ Ordered /\ KeepInv /\ RegularInv
  BY InitType DEF Init, Ordered, RoutesDisjoint, KeepInv, FromInput, Kept, Held, TypeOK,
     RegularInv, OneOfEach, Decided
<1>2. TypeOK /\ Ordered /\ KeepInv /\ RegularInv /\ [Next]_vars
        => (TypeOK /\ Ordered /\ KeepInv /\ RegularInv)'
  BY NextType, NextOrdered, NextKeeps, NextRegular
<1>3. TypeOK /\ Ordered /\ KeepInv /\ RegularInv => RegularIsExact
  BY FollowsAtTheEnd DEF RegularInv, RegularIsExact, Ordered
<1> QED BY <1>1, <1>2, <1>3, PTL DEF Spec
===============================================================================
