------------------------------ MODULE RouteSplit ------------------------------
(***************************************************************************)
(* core/NetworkSpace.java: the networks to route into the VPN and those to *)
(* leave out, and generateIPList, which computes disjoint networks from    *)
(* them.  VpnService.Builder takes only networks to include.               *)
(*                                                                         *)
(* A network is its first address, its prefix length and its kind.  The    *)
(* loop of generateIPList is a step per iteration; which of two equal      *)
(* elements a PriorityQueue returns first is not specified.  The build is  *)
(* a debug build: a failing assertTrue throws.  As long as none fails, a   *)
(* release build does the same.                                            *)
(***************************************************************************)
EXTENDS Integers, FiniteSets

CONSTANTS
  Bits,       \* bits of an address: 32 or 128
  Size,       \* number of addresses of a network, by prefix length
  MaxNets,    \* bound: networks in mIpAddresses
  None        \* null

ASSUME SizeAssumption ==
  /\ Bits \in Nat
  /\ Size \in [0..Bits -> Nat \ {0}]
  /\ \A m \in 0..Bits : m < Bits => Size[m] = 2 * Size[m + 1]
  /\ \A m, k \in 0..Bits : m <= k => Size[m] % Size[k] = 0

Address == 0..Size[0] - 1

Net == [first: Address, mask: 0..Bits, included: BOOLEAN]

Last(n) == n.first + Size[n.mask] - 1

(* getMaskedAddress has cleared the bits below the prefix length.          *)
IpAddress == {n \in Net : n.first % Size[n.mask] = 0 /\ Last(n) \in Address}

SameNet(n, k) == n.first = k.first /\ n.mask = k.mask

Before(n, k) == n.first < k.first \/ (n.first = k.first /\ n.mask > k.mask)

(* What add does in a TreeSet: an equal element stays, of whatever kind.   *)
Add(nets, n) == IF \E k \in nets : SameNet(n, k) THEN nets ELSE nets \union {n}

LowerHalf(n) == [first |-> n.first, mask |-> n.mask + 1, included |-> n.included]
UpperHalf(n) == [LowerHalf(n) EXCEPT !.first = @ + Size[n.mask + 1]]

VARIABLES
  pc,             \* "adding", "loop", "done", "failed": an assertion has thrown
  mIpAddresses,
  networks,       \* how often each network is in the priority queue
  currentNet,
  ipsDone

vars == <<pc, mIpAddresses, networks, currentNet, ipsDone>>

Init ==
  /\ pc = "adding"
  /\ mIpAddresses = {}
  /\ networks = [n \in IpAddress |-> 0]
  /\ currentNet = None
  /\ ipsDone = {}

AddIP(n) ==
  /\ pc = "adding" /\ Cardinality(mIpAddresses) < MaxNets
  /\ mIpAddresses' = Add(mIpAddresses, n)
  /\ UNCHANGED <<pc, networks, currentNet, ipsDone>>

AddIPSplit(n) ==
  /\ pc = "adding" /\ Cardinality(mIpAddresses) + 1 < MaxNets
  /\ n.mask < Bits
  /\ mIpAddresses' = Add(Add(mIpAddresses, LowerHalf(n)), UpperHalf(n))
  /\ UNCHANGED <<pc, networks, currentNet, ipsDone>>

Members(queue) == {n \in IpAddress : queue[n] > 0}

Queued == Members(networks)

Least(n, nets) == n \in nets /\ \A k \in nets : ~Before(k, n)

Polled(n) == [networks EXCEPT ![n] = @ - 1]

With(queue, n) == [queue EXCEPT ![n] = @ + 1]

WithNew_Repeats(queue, n) == With(queue, n)

WithNew(queue, n) ==
  IF \E k \in Members(queue) : SameNet(n, k) THEN queue ELSE With(queue, n)

GenerateIPList ==
  /\ pc = "adding"
  /\ LET queue == [n \in IpAddress |-> IF n \in mIpAddresses THEN 1 ELSE 0]
     IN  IF mIpAddresses = {}
         THEN pc' = "done" /\ UNCHANGED <<networks, currentNet>>
         ELSE \E n \in mIpAddresses :
                /\ Least(n, mIpAddresses)
                /\ networks' = [queue EXCEPT ![n] = 0]
                /\ currentNet' = n
                /\ pc' = "loop"
  /\ UNCHANGED <<mIpAddresses, ipsDone>>

EmitLast_Early ==
  /\ pc = "loop" /\ \A n \in Queued : Last(currentNet) < n.first
  /\ ipsDone' = Add(ipsDone, currentNet)
  /\ currentNet' = None
  /\ pc' = "done"
  /\ UNCHANGED <<mIpAddresses, networks>>

(* No other network overlaps the current one.                              *)
EmitLast ==
  /\ pc = "loop" /\ Queued = {}
  /\ ipsDone' = Add(ipsDone, currentNet)
  /\ currentNet' = None
  /\ pc' = "done"
  /\ UNCHANGED <<mIpAddresses, networks>>

Emit_Touching(nextNet) ==
  /\ Last(currentNet) <= nextNet.first
  /\ ipsDone' = Add(ipsDone, currentNet)
  /\ currentNet' = nextNet
  /\ networks' = Polled(nextNet)
  /\ UNCHANGED pc

Emit(nextNet) ==
  /\ Last(currentNet) < nextNet.first
  /\ ipsDone' = Add(ipsDone, currentNet)
  /\ currentNet' = nextNet
  /\ networks' = Polled(nextNet)
  /\ UNCHANGED pc

Overlap(nextNet) == Last(currentNet) >= nextNet.first

CurrentInNext(nextNet) ==
  currentNet.first = nextNet.first /\ currentNet.mask >= nextNet.mask

ForgetCurrent(nextNet) ==
  /\ Overlap(nextNet) /\ CurrentInNext(nextNet)
  /\ currentNet.included = nextNet.included
  /\ currentNet' = nextNet
  /\ networks' = Polled(nextNet)
  /\ UNCHANGED <<pc, ipsDone>>

SplitNext_LosesLower(nextNet) ==
  /\ Overlap(nextNet) /\ CurrentInNext(nextNet)
  /\ currentNet.included # nextNet.included
  /\ nextNet.mask < Bits
  /\ networks' = WithNew(Polled(nextNet), UpperHalf(nextNet))
  /\ UNCHANGED <<pc, currentNet, ipsDone>>

(* split asserts that its halves end where the network ends, which is not  *)
(* so for a single address.                                                *)
SplitNext(nextNet) ==
  /\ Overlap(nextNet) /\ CurrentInNext(nextNet)
  /\ currentNet.included # nextNet.included
  /\ nextNet.mask < Bits
  /\ LET upper == WithNew(Polled(nextNet), UpperHalf(nextNet))
         lower == LowerHalf(nextNet)
     IN  networks' = IF Last(lower) = Last(currentNet)
                     THEN upper ELSE WithNew(upper, lower)
  /\ UNCHANGED <<pc, currentNet, ipsDone>>

NextAsserted(nextNet) ==
  /\ currentNet.mask < nextNet.mask
  /\ nextNet.first > currentNet.first
  /\ Last(currentNet) >= Last(nextNet)

IgnoreNext_StaysQueued(nextNet) ==
  /\ Overlap(nextNet) /\ ~CurrentInNext(nextNet) /\ NextAsserted(nextNet)
  /\ currentNet.included = nextNet.included
  /\ UNCHANGED <<pc, networks, currentNet, ipsDone>>

IgnoreNext(nextNet) ==
  /\ Overlap(nextNet) /\ ~CurrentInNext(nextNet) /\ NextAsserted(nextNet)
  /\ currentNet.included = nextNet.included
  /\ networks' = Polled(nextNet)
  /\ UNCHANGED <<pc, currentNet, ipsDone>>

SplitAsserted(nextNet) ==
  UpperHalf(currentNet).mask = nextNet.mask =>
    UpperHalf(currentNet).first = nextNet.first

(* nextNet goes back into the queue.                                       *)
SplitCurrent(nextNet) ==
  /\ Overlap(nextNet) /\ ~CurrentInNext(nextNet) /\ NextAsserted(nextNet)
  /\ currentNet.included # nextNet.included
  /\ SplitAsserted(nextNet)
  /\ networks' = IF UpperHalf(currentNet).mask = nextNet.mask
                 THEN networks
                 ELSE With(networks, UpperHalf(currentNet))
  /\ currentNet' = LowerHalf(currentNet)
  /\ UNCHANGED <<pc, ipsDone>>

AssertionFails(nextNet) ==
  /\ Overlap(nextNet)
  /\ \/ /\ CurrentInNext(nextNet) /\ nextNet.mask = Bits
        /\ currentNet.included # nextNet.included
     \/ ~CurrentInNext(nextNet) /\ ~NextAsserted(nextNet)
     \/ /\ ~CurrentInNext(nextNet) /\ ~SplitAsserted(nextNet)
        /\ currentNet.included # nextNet.included
  /\ pc' = "failed"
  /\ UNCHANGED <<networks, currentNet, ipsDone>>

Iterate ==
  /\ pc = "loop"
  /\ \E nextNet \in Queued :
       /\ Least(nextNet, Queued)
       /\ \/ Emit(nextNet)
          \/ ForgetCurrent(nextNet)
          \/ SplitNext(nextNet)
          \/ IgnoreNext(nextNet)
          \/ SplitCurrent(nextNet)
          \/ AssertionFails(nextNet)
  /\ UNCHANGED mIpAddresses

(* The next opening of the tun starts from an empty set.                   *)
Clear ==
  /\ pc \in {"done", "failed"}
  /\ pc' = "adding"
  /\ mIpAddresses' = {} /\ ipsDone' = {} /\ currentNet' = None
  /\ networks' = [n \in IpAddress |-> 0]

Generate == GenerateIPList \/ Iterate \/ EmitLast

Next ==
  \/ \E n \in IpAddress : AddIP(n) \/ AddIPSplit(n)
  \/ Generate
  \/ Clear

Spec == Init /\ [][Next]_vars
FairSpec == Spec /\ WF_vars(Generate)
-------------------------------------------------------------------------------
PositiveIPList == {n \in ipsDone : n.included}

In(a, n) == n.first <= a /\ a <= Last(n)

Covered(a, nets) == \E n \in nets : In(a, n)

(* Every network is well formed; nothing is left in the queue at the end.  *)
TypeOK ==
  /\ pc \in {"adding", "loop", "done", "failed"}
  /\ mIpAddresses \subseteq IpAddress
  /\ networks \in [IpAddress -> Nat]
  /\ IF pc \in {"loop", "failed"} THEN currentNet \in IpAddress
                                  ELSE currentNet = None
  /\ pc \in {"adding", "done"} => Queued = {}
  /\ ipsDone \subseteq IpAddress

(* The networks found so far are pairwise disjoint: no address is routed   *)
(* twice, whatever was added, clashes and failing assertions included.     *)
RoutesDisjoint ==
  \A n, k \in ipsDone : n # k => Last(n) < k.first \/ Last(k) < n.first

(* Where all networks that cover an address agree, the result agrees with  *)
(* them: the address is routed into the VPN if they are included networks, *)
(* and is not if they are excluded ones or if there are none.              *)
UnanimousKept ==
  pc = "done" => \A a \in Address, in \in BOOLEAN :
    (\A n \in mIpAddresses : In(a, n) => n.included = in) =>
      (Covered(a, PositiveIPList) <=> in /\ Covered(a, mIpAddresses))

(* The network that decides for an address when the kernel routes.         *)
Longest(a, nets) ==
  {n \in nets : In(a, n) /\ \A k \in nets : In(a, k) => k.mask <= n.mask}

FollowsLongestPrefix ==
  \A a \in Address :
    Covered(a, PositiveIPList) <=> \E n \in Longest(a, mIpAddresses) : n.included

Inside(n, k) == k.first <= n.first /\ Last(n) <= Last(k) /\ k.mask < n.mask

(* Networks of alternating kinds, one in the other, where the innermost    *)
(* begins where the middle one does: the queue yields it first, and        *)
(* IgnoreNext or ForgetCurrent merges it into the outermost.               *)
Hidden(nets) ==
  \E n, k, m \in nets :
    /\ Inside(n, k) /\ n.first = k.first /\ n.included # k.included
    /\ Inside(k, m) /\ n.included = m.included

(* Two networks of one kind inside one of the other kind; the queue yields *)
(* n first, and k is the upper half of a network p in which n lies beyond  *)
(* the beginning: then SplitCurrent, which splits p because of n, queues a *)
(* network equal to k but of the other kind.                               *)
Clashing(nets) ==
  \E n, k, m \in nets :
    /\ n.included = k.included /\ n.included # m.included
    /\ Inside(k, m) /\ Before(n, k)
    /\ \E p \in IpAddress : /\ p.mask < Bits /\ SameNet(UpperHalf(p), k)
                            /\ Inside(n, p) /\ p.first < n.first

Regular == ~Hidden(mIpAddresses) /\ ~Clashing(mIpAddresses)

(* For regular networks the result is what routing by the longest prefix   *)
(* is, and no assertion fails.                                             *)
RegularIsExact ==
  Regular => /\ pc # "failed"
             /\ pc = "done" => FollowsLongestPrefix

(* The list "emulates the behaviour of other platforms", where a route     *)
(* with a longer prefix wins.                                              *)
RoutesEmulate == pc = "done" => FollowsLongestPrefix

(* The assertions of generateIPList hold.                                  *)
AssertionsHold == pc # "failed"

(* Splitting comes to an end.                                              *)
Terminates == pc = "loop" ~> pc \in {"done", "failed"}
===============================================================================
