-------------------------- MODULE TunConfig_proofs ----------------------------
(***************************************************************************)
(* Theorems about TunConfig for any configurations that servers push, any  *)
(* networks of the phone and any number of setups.                         *)
(***************************************************************************)
EXTENDS TunConfig, SequenceTheorems, TLAPS

-------------------------------------------------------------------------------
(* The queries for a configuration.                                        *)
LEMMA AskProperties ==
  ASSUME NEW cmd, NEW S, NEW values \in Seq(S)
  PROVE  /\ Ask(cmd, values) \in Seq([cmd : {cmd}, arg : S])
         /\ Len(Ask(cmd, values)) = Len(values)
         /\ \A k \in 1..Len(values) :
              Ask(cmd, values)[k] = [cmd |-> cmd, arg |-> values[k]]
<1> DEFINE T == [cmd : {cmd}, arg : S]
<1>1. Len(values) \in Nat /\ \A k \in 1..Len(values) : values[k] \in S
  BY LenProperties, ElementOfSeq
<1>2. Ask(cmd, values) \in [1..Len(values) -> T]
  BY <1>1 DEF Ask
<1>3. Ask(cmd, values) \in Seq(T)
  <2> HIDE DEF T
  <2>1. Seq(T) = UNION {[1..n -> T] : n \in Nat}
    BY SeqDef
  <2> QED BY <1>1, <1>2, <2>1
<1>4. DOMAIN Ask(cmd, values) = 1..Len(values)
  BY DEF Ask
<1>5. Len(Ask(cmd, values)) = Len(values)
  BY <1>1, <1>3, <1>4, LenProperties
<1> QED BY <1>3, <1>5 DEF Ask

LEMMA OptionalProperties ==
  ASSUME NEW v
  PROVE  /\ Optional(v) \in Seq({v} \ {None})
         /\ Len(Optional(v)) \in 0..1
         /\ v # None => Len(Optional(v)) = 1 /\ Optional(v)[1] = v
<1>1. CASE v = None
  BY <1>1, EmptySeq DEF Optional
<1>2. CASE v # None
  <2>1. <<v>> \in Seq({v} \ {None}) /\ Len(<<v>>) = 1 /\ <<v>>[1] = v
    BY <1>2
  <2> QED BY <1>2, <2>1 DEF Optional
<1> QED BY <1>1, <1>2

LEMMA AskOptional ==
  ASSUME NEW cmd, NEW v
  PROVE  /\ Ask(cmd, Optional(v)) \in Seq([cmd : {cmd}, arg : {v} \ {None}])
         /\ Len(Ask(cmd, Optional(v))) = Len(Optional(v))
         /\ Len(Optional(v)) \in 0..1
         /\ \A k \in 1..Len(Optional(v)) : Ask(cmd, Optional(v))[k].cmd = cmd
         /\ v # None => /\ Len(Optional(v)) = 1
                        /\ Ask(cmd, Optional(v))[1] = [cmd |-> cmd, arg |-> v]
<1>1. /\ Optional(v) \in Seq({v} \ {None})
      /\ Len(Optional(v)) \in 0..1
      /\ v # None => Len(Optional(v)) = 1 /\ Optional(v)[1] = v
  BY OptionalProperties
<1>2. /\ Ask(cmd, Optional(v)) \in Seq([cmd : {cmd}, arg : {v} \ {None}])
      /\ Len(Ask(cmd, Optional(v))) = Len(Optional(v))
      /\ \A k \in 1..Len(Optional(v)) :
           Ask(cmd, Optional(v))[k] = [cmd |-> cmd, arg |-> Optional(v)[k]]
  BY <1>1, AskProperties
<1> HIDE DEF Optional, Ask
<1> QED BY <1>1, <1>2

LEMMA AskOpenTun == Ask("OPENTUN", <<None>>) = <<OpenTunQuery>>
<1>1. Ask("OPENTUN", <<None>>) = [k \in 1..1 |-> OpenTunQuery]
  BY DEF Ask, OpenTunQuery
<1>2. <<OpenTunQuery>> = [k \in 1..1 |-> OpenTunQuery]
  OBVIOUS
<1> QED BY <1>1, <1>2

LEMMA AskPersist ==
  LET A == Ask("PERSIST_TUN_ACTION", <<None>>)
  IN  /\ A \in Seq([cmd : {"PERSIST_TUN_ACTION"}, arg : {None}])
      /\ Len(A) = 1 /\ A[1] = [cmd |-> "PERSIST_TUN_ACTION", arg |-> None]
<1> DEFINE v == <<None>>
<1>1. v \in Seq({None}) /\ Len(v) = 1 /\ v[1] = None
  OBVIOUS
<1> HIDE DEF v
<1>2. /\ Ask("PERSIST_TUN_ACTION", v) \in Seq([cmd : {"PERSIST_TUN_ACTION"}, arg : {None}])
      /\ Len(Ask("PERSIST_TUN_ACTION", v)) = Len(v)
      /\ \A k \in 1..Len(v) :
           Ask("PERSIST_TUN_ACTION", v)[k] = [cmd |-> "PERSIST_TUN_ACTION", arg |-> v[k]]
  BY <1>1, AskProperties
<1>3. Len(Ask("PERSIST_TUN_ACTION", v)) = 1
      /\ Ask("PERSIST_TUN_ACTION", v)[1] = [cmd |-> "PERSIST_TUN_ACTION", arg |-> None]
  BY <1>1, <1>2
<1> QED BY <1>2, <1>3 DEF v

(* Parts of a list that are appended one behind another.                   *)
LEMMA TwoParts ==
  ASSUME NEW S, NEW a \in Seq(S), NEW b \in Seq(S)
  PROVE  /\ a \o b \in Seq(S) /\ Len(a \o b) = Len(a) + Len(b)
         /\ \A k \in 1..Len(a) : (a \o b)[k] = a[k]
         /\ \A k \in 1..Len(b) : (a \o b)[Len(a) + k] = b[k]
<1>1. Len(a) \in Nat /\ Len(b) \in Nat
  BY LenProperties
<1>2. /\ a \o b \in Seq(S) /\ Len(a \o b) = Len(a) + Len(b)
      /\ \A k \in 1..Len(a) + Len(b) :
           (a \o b)[k] = IF k <= Len(a) THEN a[k] ELSE b[k - Len(a)]
  BY ConcatProperties
<1>3. ASSUME NEW k \in 1..Len(b)
      PROVE  (a \o b)[Len(a) + k] = b[k]
  <2>1. Len(a) + k \in 1..Len(a) + Len(b) /\ ~(Len(a) + k <= Len(a)) /\ Len(a) + k - Len(a) = k
    BY <1>1
  <2> QED BY <2>1, <1>2
<1>4. ASSUME NEW k \in 1..Len(a)
      PROVE  (a \o b)[k] = a[k]
  <2>1. k \in 1..Len(a) + Len(b) /\ k <= Len(a)
    BY <1>1
  <2> QED BY <2>1, <1>2
<1> QED BY <1>2, <1>3, <1>4

(* Where the queries for addresses and routes end.                         *)
Before(c) == Len(Optional(c.ip)) + Len(Optional(c.ip6)) + Len(c.routes)

LEMMA QueriesInOrder ==
  ASSUME NEW c \in Configs
  PROVE  LET Q == Queries(c)
         IN  /\ Q \in Seq(Query(c))
             /\ Len(c.dns) \in Nat /\ Before(c) \in Nat
             /\ Len(Q) \in Nat /\ Len(Q) > Before(c) + Len(c.dns)
             /\ Q[Len(Q)] = [cmd |-> "PERSIST_TUN_ACTION", arg |-> None]
             /\ \A k \in 1..Len(Q) : Q[k].cmd = "PERSIST_TUN_ACTION" => k = Len(Q)
             /\ c.ip # None => Q[1] = [cmd |-> "IFCONFIG", arg |-> c.ip]
             /\ c.ip6 # None =>
                  \E k \in 1..Len(Q) : Q[k] = [cmd |-> "IFCONFIG6", arg |-> c.ip6]
             /\ \A r \in ToSet(c.routes) :
                  \E k \in 1..Len(Q) : Q[k] = [cmd |-> "ROUTE", arg |-> r]
             /\ \A k \in 1..Len(c.dns) :
                  Q[Before(c) + k] = [cmd |-> "DNSSERVER", arg |-> c.dns[k]]
             /\ \A k \in 1..Len(Q) :
                  Q[k].cmd = "DNSSERVER" => k \in Before(c) + 1 .. Before(c) + Len(c.dns)
             /\ c.domain # None =>
                  \E k \in 1..Len(Q) : Q[k] = [cmd |-> "DNSDOMAIN", arg |-> c.domain]
<1> DEFINE a == Ask("IFCONFIG", Optional(c.ip))
           b == Ask("IFCONFIG6", Optional(c.ip6))
           d == Ask("ROUTE", c.routes)
           e == Ask("DNSSERVER", c.dns)
           f == Ask("DNSDOMAIN", Optional(c.domain))
           g == Ask("PERSIST_TUN_ACTION", <<None>>)
<1>2. c.routes \in Seq(ToSet(c.routes)) /\ c.dns \in Seq(ToSet(c.dns))
  BY TunAssumption
<1>3. Len(c.routes) \in Nat /\ Len(c.dns) \in Nat
  BY <1>2, LenProperties
<1>3a. /\ Len(Optional(c.ip)) \in 0..1 /\ Len(Optional(c.ip6)) \in 0..1
       /\ Len(Optional(c.domain)) \in 0..1
  BY OptionalProperties
<1>4. PICK n1 \in Nat, n2 \in Nat, n3 \in Nat, n4 \in Nat, n5 \in Nat :
        /\ n1 \in 0..1 /\ n2 \in 0..1 /\ n5 \in 0..1
        /\ n1 = Len(Optional(c.ip)) /\ n2 = Len(Optional(c.ip6))
        /\ n3 = Len(c.routes) /\ n4 = Len(c.dns) /\ n5 = Len(Optional(c.domain))
  <2>1. /\ Len(Optional(c.ip)) \in Nat /\ Len(Optional(c.ip6)) \in Nat
        /\ Len(Optional(c.domain)) \in Nat
    BY <1>3a
  <2> QED BY <1>3, <1>3a, <2>1, Zenon
<1>5. /\ a \in Seq([cmd : {"IFCONFIG"}, arg : {c.ip} \ {None}])
      /\ Len(a) = n1
      /\ \A k \in 1..n1 : a[k].cmd = "IFCONFIG"
      /\ c.ip # None => n1 = 1 /\ a[1] = [cmd |-> "IFCONFIG", arg |-> c.ip]
  <2>1. /\ a \in Seq([cmd : {"IFCONFIG"}, arg : {c.ip} \ {None}])
        /\ Len(a) = Len(Optional(c.ip))
        /\ \A k \in 1..Len(Optional(c.ip)) : a[k].cmd = "IFCONFIG"
        /\ c.ip # None => /\ Len(Optional(c.ip)) = 1
                         /\ a[1] = [cmd |-> "IFCONFIG", arg |-> c.ip]
    BY AskOptional, Zenon
  <2> QED BY <1>4, <2>1
<1>6. /\ b \in Seq([cmd : {"IFCONFIG6"}, arg : {c.ip6} \ {None}])
      /\ Len(b) = n2
      /\ \A k \in 1..n2 : b[k].cmd = "IFCONFIG6"
      /\ c.ip6 # None => n2 = 1 /\ b[1] = [cmd |-> "IFCONFIG6", arg |-> c.ip6]
  <2>1. /\ b \in Seq([cmd : {"IFCONFIG6"}, arg : {c.ip6} \ {None}])
        /\ Len(b) = Len(Optional(c.ip6))
        /\ \A k \in 1..Len(Optional(c.ip6)) : b[k].cmd = "IFCONFIG6"
        /\ c.ip6 # None => /\ Len(Optional(c.ip6)) = 1
                         /\ b[1] = [cmd |-> "IFCONFIG6", arg |-> c.ip6]
    BY AskOptional, Zenon
  <2> QED BY <1>4, <2>1
<1>7. /\ d \in Seq([cmd : {"ROUTE"}, arg : ToSet(c.routes)])
      /\ Len(d) = n3
      /\ \A k \in 1..n3 : d[k] = [cmd |-> "ROUTE", arg |-> c.routes[k]]
  BY <1>2, <1>4, AskProperties
<1>8. /\ e \in Seq([cmd : {"DNSSERVER"}, arg : ToSet(c.dns)])
      /\ Len(e) = n4
      /\ \A k \in 1..n4 : e[k] = [cmd |-> "DNSSERVER", arg |-> c.dns[k]]
  BY <1>2, <1>4, AskProperties
<1>9. /\ f \in Seq([cmd : {"DNSDOMAIN"}, arg : {c.domain} \ {None}])
      /\ Len(f) = n5
      /\ \A k \in 1..n5 : f[k].cmd = "DNSDOMAIN"
      /\ c.domain # None => n5 = 1 /\ f[1] = [cmd |-> "DNSDOMAIN", arg |-> c.domain]
  <2>1. /\ f \in Seq([cmd : {"DNSDOMAIN"}, arg : {c.domain} \ {None}])
        /\ Len(f) = Len(Optional(c.domain))
        /\ \A k \in 1..Len(Optional(c.domain)) : f[k].cmd = "DNSDOMAIN"
        /\ c.domain # None => /\ Len(Optional(c.domain)) = 1
                         /\ f[1] = [cmd |-> "DNSDOMAIN", arg |-> c.domain]
    BY AskOptional, Zenon
  <2> QED BY <1>4, <2>1
<1>10. /\ g \in Seq([cmd : {"PERSIST_TUN_ACTION"}, arg : {None}])
       /\ Len(g) = 1
       /\ g[1] = [cmd |-> "PERSIST_TUN_ACTION", arg |-> None]
  BY AskPersist
<1> HIDE DEF a, b, d, e, f, g
<1>11. a \in Seq(Query(c))
  BY <1>5, SeqMonotonic DEF Query
<1>12. b \in Seq(Query(c))
  BY <1>6, SeqMonotonic DEF Query
<1>13. d \in Seq(Query(c))
  BY <1>7, SeqMonotonic DEF Query
<1>14. e \in Seq(Query(c))
  BY <1>8, SeqMonotonic DEF Query
<1>15. f \in Seq(Query(c))
  BY <1>9, SeqMonotonic DEF Query
<1>16. g \in Seq(Query(c))
  BY <1>10, SeqMonotonic DEF Query
<1>17. PICK C2, C3, C4, C5, Q :
         C2 = a \o b /\ C3 = C2 \o d /\ C4 = C3 \o e /\ C5 = C4 \o f /\ Q = C5 \o g
  OBVIOUS
<1>18. Queries(c) = Q
  BY <1>17 DEF Queries, a, b, d, e, f, g
<1> DEFINE N == n1 + n2 + n3 + n4 + n5 + 1
<1>19. Len(a) = n1 /\ Len(b) = n2 /\ Len(d) = n3 /\ Len(e) = n4 /\ Len(f) = n5 /\ Len(g) = 1
  BY <1>5, <1>6, <1>7, <1>8, <1>9, <1>10
<1>20. /\ C2 \in Seq(Query(c)) /\ C3 \in Seq(Query(c)) /\ C4 \in Seq(Query(c))
       /\ C5 \in Seq(Query(c)) /\ Q \in Seq(Query(c))
  <2>1. C2 = a \o b /\ a \in Seq(Query(c)) /\ b \in Seq(Query(c))
    BY <1>17, <1>11, <1>12
  <2>2. C3 = C2 \o d /\ C2 \in Seq(Query(c)) /\ d \in Seq(Query(c))
    BY <1>17, <2>1, TwoParts, <1>13
  <2>3. C4 = C3 \o e /\ C3 \in Seq(Query(c)) /\ e \in Seq(Query(c))
    BY <1>17, <2>2, TwoParts, <1>14
  <2>4. C5 = C4 \o f /\ C4 \in Seq(Query(c)) /\ f \in Seq(Query(c))
    BY <1>17, <2>3, TwoParts, <1>15
  <2>5. Q = C5 \o g /\ C5 \in Seq(Query(c)) /\ g \in Seq(Query(c))
    BY <1>17, <2>4, TwoParts, <1>16
  <2>6. Q \in Seq(Query(c))
    BY <2>5, TwoParts
  <2> QED BY <2>2, <2>3, <2>4, <2>5, <2>6
<1>21a. /\ Len(C2) = n1 + n2
        /\ \A k \in 1..n1 : C2[k] = a[k]
        /\ \A k \in 1..n2 : C2[n1 + k] = b[k]
  <2>1. C2 = a \o b /\ a \in Seq(Query(c)) /\ b \in Seq(Query(c))
    BY <1>17, <1>20, <1>11, <1>12, <1>13, <1>14, <1>15, <1>16
  <2>2. /\ Len(C2) = Len(a) + Len(b)
        /\ \A k \in 1..Len(a) : C2[k] = a[k]
        /\ \A k \in 1..Len(b) : C2[Len(a) + k] = b[k]
    BY <2>1, TwoParts
  <2>3. Len(a) = n1 /\ Len(b) = n2
    BY <1>19
  <2> QED BY <2>2, <2>3
<1>22a. /\ Len(C3) = n1 + n2 + n3
        /\ \A k \in 1..n1 + n2 : C3[k] = C2[k]
        /\ \A k \in 1..n3 : C3[n1 + n2 + k] = d[k]
  <2>1. C3 = C2 \o d /\ C2 \in Seq(Query(c)) /\ d \in Seq(Query(c))
    BY <1>17, <1>20, <1>11, <1>12, <1>13, <1>14, <1>15, <1>16
  <2>2. /\ Len(C3) = Len(C2) + Len(d)
        /\ \A k \in 1..Len(C2) : C3[k] = C2[k]
        /\ \A k \in 1..Len(d) : C3[Len(C2) + k] = d[k]
    BY <2>1, TwoParts
  <2>3. Len(C2) = n1 + n2 /\ Len(d) = n3
    BY <1>19, <1>21a
  <2> QED BY <2>2, <2>3
<1>23a. /\ Len(C4) = n1 + n2 + n3 + n4
        /\ \A k \in 1..n1 + n2 + n3 : C4[k] = C3[k]
        /\ \A k \in 1..n4 : C4[n1 + n2 + n3 + k] = e[k]
  <2>1. C4 = C3 \o e /\ C3 \in Seq(Query(c)) /\ e \in Seq(Query(c))
    BY <1>17, <1>20, <1>11, <1>12, <1>13, <1>14, <1>15, <1>16
  <2>2. /\ Len(C4) = Len(C3) + Len(e)
        /\ \A k \in 1..Len(C3) : C4[k] = C3[k]
        /\ \A k \in 1..Len(e) : C4[Len(C3) + k] = e[k]
    BY <2>1, TwoParts
  <2>3. Len(C3) = n1 + n2 + n3 /\ Len(e) = n4
    BY <1>19, <1>22a
  <2> QED BY <2>2, <2>3
<1>24a. /\ Len(C5) = n1 + n2 + n3 + n4 + n5
        /\ \A k \in 1..n1 + n2 + n3 + n4 : C5[k] = C4[k]
        /\ \A k \in 1..n5 : C5[n1 + n2 + n3 + n4 + k] = f[k]
  <2>1. C5 = C4 \o f /\ C4 \in Seq(Query(c)) /\ f \in Seq(Query(c))
    BY <1>17, <1>20, <1>11, <1>12, <1>13, <1>14, <1>15, <1>16
  <2>2. /\ Len(C5) = Len(C4) + Len(f)
        /\ \A k \in 1..Len(C4) : C5[k] = C4[k]
        /\ \A k \in 1..Len(f) : C5[Len(C4) + k] = f[k]
    BY <2>1, TwoParts
  <2>3. Len(C4) = n1 + n2 + n3 + n4 /\ Len(f) = n5
    BY <1>19, <1>23a
  <2> QED BY <2>2, <2>3
<1>25a. /\ Len(Q) = N
        /\ \A k \in 1..n1 + n2 + n3 + n4 + n5 : Q[k] = C5[k]
        /\ \A k \in 1..1 : Q[n1 + n2 + n3 + n4 + n5 + k] = g[k]
  <2>1. Q = C5 \o g /\ C5 \in Seq(Query(c)) /\ g \in Seq(Query(c))
    BY <1>17, <1>20, <1>11, <1>12, <1>13, <1>14, <1>15, <1>16
  <2>2. /\ Len(Q) = Len(C5) + Len(g)
        /\ \A k \in 1..Len(C5) : Q[k] = C5[k]
        /\ \A k \in 1..Len(g) : Q[Len(C5) + k] = g[k]
    BY <2>1, TwoParts
  <2>3. Len(C5) = n1 + n2 + n3 + n4 + n5 /\ Len(g) = 1
    BY <1>19, <1>24a
  <2> QED BY <2>2, <2>3
<1>26. \A k \in 1..n1 + n2 + n3 + n4 + n5 : Q[k] = C5[k]
  BY <1>25a
<1>27. \A k \in 1..n1 + n2 + n3 + n4 : Q[k] = C4[k]
  BY <1>26, <1>24a
<1>28. \A k \in 1..n1 + n2 + n3 : Q[k] = C3[k]
  BY <1>27, <1>23a
<1>29. \A k \in 1..n1 + n2 : Q[k] = C2[k]
  BY <1>28, <1>22a
<1>30. Len(Q) = N /\ Q[N] = g[1]
  <2>1. \A k \in 1..1 : Q[n1 + n2 + n3 + n4 + n5 + k] = g[k]
    BY <1>25a
  <2>2. Q[n1 + n2 + n3 + n4 + n5 + 1] = g[1]
    BY <2>1
  <2>3. Len(Q) = N
    BY <1>25a
  <2> QED BY <2>2, <2>3
<1>31. \A k \in 1..n1 : Q[k] = a[k]
  BY <1>29, <1>21a
<1>32. ASSUME NEW k \in 1..n2
       PROVE  Q[n1 + k] = b[k]
  <2>1. n1 + k \in 1..n1 + n2
    OBVIOUS
  <2>2. Q[n1 + k] = C2[n1 + k]
    BY <1>29, <2>1
  <2>3. C2[n1 + k] = b[k]
    BY <1>21a
  <2> QED BY <2>2, <2>3
<1>33. ASSUME NEW k \in 1..n3
       PROVE  Q[n1 + n2 + k] = d[k]
  <2>1. n1 + n2 + k \in 1..n1 + n2 + n3
    OBVIOUS
  <2>2. Q[n1 + n2 + k] = C3[n1 + n2 + k]
    BY <1>28, <2>1
  <2>3. C3[n1 + n2 + k] = d[k]
    BY <1>22a
  <2> QED BY <2>2, <2>3
<1>34. ASSUME NEW k \in 1..n4
       PROVE  Q[n1 + n2 + n3 + k] = e[k]
  <2>1. n1 + n2 + n3 + k \in 1..n1 + n2 + n3 + n4
    OBVIOUS
  <2>2. Q[n1 + n2 + n3 + k] = C4[n1 + n2 + n3 + k]
    BY <1>27, <2>1
  <2>3. C4[n1 + n2 + n3 + k] = e[k]
    BY <1>23a
  <2> QED BY <2>2, <2>3
<1>35. ASSUME NEW k \in 1..n5
       PROVE  Q[n1 + n2 + n3 + n4 + k] = f[k]
  <2>1. n1 + n2 + n3 + n4 + k \in 1..n1 + n2 + n3 + n4 + n5
    OBVIOUS
  <2>2. Q[n1 + n2 + n3 + n4 + k] = C5[n1 + n2 + n3 + n4 + k]
    BY <1>26, <2>1
  <2>3. C5[n1 + n2 + n3 + n4 + k] = f[k]
    BY <1>24a
  <2> QED BY <2>2, <2>3
<1>42. /\ \A k \in 1..n1 : Q[k].cmd = "IFCONFIG"
       /\ \A k \in 1..n2 : Q[n1 + k].cmd = "IFCONFIG6"
       /\ \A k \in 1..n3 : Q[n1 + n2 + k] = [cmd |-> "ROUTE", arg |-> c.routes[k]]
       /\ \A k \in 1..n4 : Q[n1 + n2 + n3 + k] = [cmd |-> "DNSSERVER", arg |-> c.dns[k]]
       /\ \A k \in 1..n5 : Q[n1 + n2 + n3 + n4 + k].cmd = "DNSDOMAIN"
       /\ Q[N] = [cmd |-> "PERSIST_TUN_ACTION", arg |-> None]
       /\ Len(Q) = N
  <2>1. \A k \in 1..n1 : Q[k].cmd = "IFCONFIG"
    BY <1>5, <1>31
  <2>2. \A k \in 1..n2 : Q[n1 + k].cmd = "IFCONFIG6"
    BY <1>6, <1>32
  <2>3. \A k \in 1..n3 : Q[n1 + n2 + k] = [cmd |-> "ROUTE", arg |-> c.routes[k]]
    BY <1>7, <1>33
  <2>4. \A k \in 1..n4 : Q[n1 + n2 + n3 + k] = [cmd |-> "DNSSERVER", arg |-> c.dns[k]]
    BY <1>8, <1>34
  <2>5. \A k \in 1..n5 : Q[n1 + n2 + n3 + n4 + k].cmd = "DNSDOMAIN"
    BY <1>9, <1>35
  <2>6. Q[N] = [cmd |-> "PERSIST_TUN_ACTION", arg |-> None] /\ Len(Q) = N
    BY <1>10, <1>30
  <2> HIDE DEF N
  <2> QED BY <2>1, <2>2, <2>3, <2>4, <2>5, <2>6
<1>43. ASSUME NEW k \in 1..N
       PROVE  /\ Q[k].cmd = "PERSIST_TUN_ACTION" => k = N
              /\ Q[k].cmd = "DNSSERVER" => k \in n1 + n2 + n3 + 1 .. n1 + n2 + n3 + n4
  <2>1. CASE k \in 1..n1
    BY <2>1, <1>42
  <2>2. CASE \E j \in 1..n2 : k = n1 + j
    BY <2>2, <1>42
  <2>3. CASE \E j \in 1..n3 : k = n1 + n2 + j
    <3>1. PICK j \in 1..n3 : k = n1 + n2 + j
      BY <2>3
    <3>2. Q[k] = [cmd |-> "ROUTE", arg |-> c.routes[j]]
      BY <3>1, <1>42
    <3> QED BY <3>2
  <2>4. CASE \E j \in 1..n4 : k = n1 + n2 + n3 + j
    <3>1. PICK j \in 1..n4 : k = n1 + n2 + n3 + j
      BY <2>4
    <3>2. Q[k] = [cmd |-> "DNSSERVER", arg |-> c.dns[j]]
      BY <3>1, <1>42
    <3>3. k \in n1 + n2 + n3 + 1 .. n1 + n2 + n3 + n4
      BY <3>1
    <3> QED BY <3>2, <3>3
  <2>5. CASE \E j \in 1..n5 : k = n1 + n2 + n3 + n4 + j
    BY <2>5, <1>42
  <2>6. CASE k = N
    <3>1. Q[k].cmd = "PERSIST_TUN_ACTION"
      BY <2>6, <1>42
    <3> QED BY <2>6, <3>1
  <2>7. \/ k \in 1..n1 \/ k - n1 \in 1..n2 \/ k - (n1 + n2) \in 1..n3
        \/ k - (n1 + n2 + n3) \in 1..n4 \/ k - (n1 + n2 + n3 + n4) \in 1..n5
        \/ k = N
    OBVIOUS
  <2>8. /\ k = n1 + (k - n1) /\ k = n1 + n2 + (k - (n1 + n2))
        /\ k = n1 + n2 + n3 + (k - (n1 + n2 + n3))
        /\ k = n1 + n2 + n3 + n4 + (k - (n1 + n2 + n3 + n4))
    OBVIOUS
  <2>9. \/ k \in 1..n1 \/ (\E j \in 1..n2 : k = n1 + j)
        \/ (\E j \in 1..n3 : k = n1 + n2 + j)
        \/ (\E j \in 1..n4 : k = n1 + n2 + n3 + j)
        \/ (\E j \in 1..n5 : k = n1 + n2 + n3 + n4 + j)
        \/ k = N
    BY <2>7, <2>8, Zenon
  <2> QED BY <2>1, <2>2, <2>3, <2>4, <2>5, <2>6, <2>9
<1>44. c.ip # None => Q[1] = [cmd |-> "IFCONFIG", arg |-> c.ip]
  BY <1>5, <1>31
<1>45. c.ip6 # None => \E k \in 1..N : Q[k] = [cmd |-> "IFCONFIG6", arg |-> c.ip6]
  <2>1. n1 + 1 \in 1..N
    OBVIOUS
  <2> QED BY <2>1, <1>6, <1>32
<1>46. c.domain # None => \E k \in 1..N : Q[k] = [cmd |-> "DNSDOMAIN", arg |-> c.domain]
  <2> SUFFICES ASSUME c.domain # None
               PROVE  \E k \in 1..N : Q[k] = [cmd |-> "DNSDOMAIN", arg |-> c.domain]
    OBVIOUS
  <2>1. n1 + n2 + n3 + n4 + 1 \in 1..N /\ n5 = 1
    BY <1>9
  <2> QED BY <2>1, <1>9, <1>35
<1>47. ASSUME NEW r \in ToSet(c.routes)
       PROVE  \E k \in 1..N : Q[k] = [cmd |-> "ROUTE", arg |-> r]
  <2>1. DOMAIN c.routes = 1..n3
    BY <1>2, <1>4, LenProperties
  <2>2. PICK k \in 1..n3 : c.routes[k] = r
    BY <2>1 DEF ToSet
  <2>3. n1 + n2 + k \in 1..N
    OBVIOUS
  <2> QED BY <2>2, <2>3, <1>42
<1>48. Before(c) = n1 + n2 + n3
  BY <1>4 DEF Before
<1>49. N \in Nat /\ N > Before(c) + n4 /\ Before(c) \in Nat
  BY <1>48
<1>50. /\ \A k \in 1..n4 : Q[Before(c) + k] = [cmd |-> "DNSSERVER", arg |-> c.dns[k]]
       /\ \A k \in 1..N : Q[k].cmd = "DNSSERVER" => k \in Before(c) + 1 .. Before(c) + n4
       /\ \A k \in 1..N : Q[k].cmd = "PERSIST_TUN_ACTION" => k = N
  BY <1>42, <1>43, <1>48
<1>51. Len(Q) = N /\ Q[N] = [cmd |-> "PERSIST_TUN_ACTION", arg |-> None]
  BY <1>42
<1> HIDE DEF N
<1> QED BY <1>4, <1>18, <1>20, <1>30, <1>44, <1>45, <1>46, <1>47, <1>49, <1>50, <1>51

-------------------------------------------------------------------------------
(* What is still to be asked: the end of the queries for the configuration *)
(* of this connection, or for a tun.                                       *)
IsRest(c, list) ==
  \/ list = <<OpenTunQuery>>
  \/ /\ Len(list) \in 1..Len(Queries(c))
     /\ \A k \in 1..Len(list) :
          list[k] = Queries(c)[Len(Queries(c)) - Len(list) + k]

Asking ==
  /\ phase \in {"setup", "up"} => pushed \in Configs
  /\ phase = "setup" => IsRest(pushed, todo)

(* Without a signal the service has the query at hand, or openvpn has its  *)
(* answer; between setups nothing is in the socket.                        *)
Quiet ==
  /\ phase \in {"hold", "up"} => inbox = <<>>
  /\ phase = "hold" => ~sig
  /\ phase = "setup" /\ ~sig =>
       /\ ~waiting => inbox = <<>>
       /\ waiting => \/ inbox = <<Head(todo)>> /\ answer = None
                     \/ /\ inbox = <<>>
                        /\ Head(todo).cmd = "OPENTUN" => answer.status \in {"ok", "cancel"}

TypeInv == TypeOK /\ Asking /\ Quiet

LEMMA QueryInConfigs ==
  ASSUME NEW c \in Configs
  PROVE  Query(c) \subseteq AnyQuery
BY DEF AnyQuery

LEMMA OpenTunIsQuery == OpenTunQuery \in AnyQuery /\ OpenTunQuery.cmd = "OPENTUN"
<1>1. OpenTunQuery \in AnyQuery
  BY DEF AnyQuery
<1>2. OpenTunQuery.cmd = "OPENTUN"
  BY DEF OpenTunQuery
<1> QED BY <1>1, <1>2

LEMMA AnyQueryIs ==
  ASSUME NEW q \in AnyQuery
  PROVE  \/ q = OpenTunQuery /\ q.cmd = "OPENTUN"
         \/ \E c \in Configs : q \in Query(c)
<1>1. OpenTunQuery.cmd = "OPENTUN"
  BY OpenTunIsQuery
<1>2. q = OpenTunQuery \/ \E c \in Configs : q \in Query(c)
  BY DEF AnyQuery
<1> QED BY <1>1, <1>2

LEMMA QueryCommand ==
  ASSUME NEW c, NEW q \in Query(c)
  PROVE  /\ q.cmd # "OPENTUN"
         /\ q.cmd = "IFCONFIG" => q.arg = c.ip /\ q.arg # None
         /\ q.cmd = "IFCONFIG6" => q.arg = c.ip6 /\ q.arg # None
         /\ q.cmd = "ROUTE" => q.arg \in ToSet(c.routes)
         /\ q.cmd = "DNSSERVER" => q.arg \in ToSet(c.dns)
         /\ q.cmd = "DNSDOMAIN" => q.arg = c.domain /\ q.arg # None
BY DEF Query

LEMMA OneElement ==
  ASSUME NEW v
  PROVE  <<v>> # <<>> /\ Len(<<v>>) = 1 /\ Head(<<v>>) = v /\ Tail(<<v>>) = <<>> /\ <<v>>[1] = v
OBVIOUS

(* The first of them, and the others.                                      *)
LEMMA RestProperties ==
  ASSUME NEW c \in Configs, NEW list \in Seq(AnyQuery), IsRest(c, list)
  PROVE  /\ list # <<>> /\ Len(list) \in Nat /\ Head(list) \in AnyQuery
         /\ Head(list).cmd = "OPENTUN" => list = <<OpenTunQuery>>
         /\ Head(list).cmd # "OPENTUN" =>
              /\ Len(list) \in 1..Len(Queries(c))
              /\ Head(list) = Queries(c)[Len(Queries(c)) - Len(list) + 1]
              /\ Head(list) \in Query(c)
         /\ Head(list).cmd = "PERSIST_TUN_ACTION" => Len(list) = 1
         /\ Head(list).cmd \notin {"PERSIST_TUN_ACTION", "OPENTUN"} =>
              /\ Tail(list) \in Seq(AnyQuery) /\ Tail(list) # <<>>
              /\ Len(Tail(list)) = Len(list) - 1
              /\ IsRest(c, Tail(list))
<1>1. CASE list = <<OpenTunQuery>>
  <2>1. /\ list # <<>> /\ Len(list) = 1 /\ Head(list) = OpenTunQuery
    BY <1>1, OneElement
  <2>2. OpenTunQuery \in AnyQuery /\ OpenTunQuery.cmd = "OPENTUN"
    BY OpenTunIsQuery
  <2> QED BY <1>1, <2>1, <2>2
<1>2. CASE list # <<OpenTunQuery>>
  <2>1. PICK Q : Q = Queries(c)
    OBVIOUS
  <2>2. /\ Q \in Seq(Query(c)) /\ Len(Q) \in Nat
        /\ Q[Len(Q)] = [cmd |-> "PERSIST_TUN_ACTION", arg |-> None]
        /\ \A k \in 1..Len(Q) : Q[k].cmd = "PERSIST_TUN_ACTION" => k = Len(Q)
    BY <2>1, QueriesInOrder
  <2>3. PICK n \in Nat, m \in Nat : n = Len(list) /\ m = Len(Q)
    BY <2>2, LenProperties
  <2>4. n \in 1..m /\ \A k \in 1..n : list[k] = Q[m - n + k]
    BY <1>2, <2>1, <2>3 DEF IsRest
  <2>5. list # <<>>
    BY <2>3, <2>4, EmptySeq
  <2>6. Head(list) = list[1]
    BY <2>5
  <2>7. Head(list) = Q[m - n + 1] /\ m - n + 1 \in 1..m
    BY <2>4, <2>6
  <2>8. Head(list) \in Query(c)
    BY <2>2, <2>3, <2>7, ElementOfSeq
  <2>9. Head(list) \in AnyQuery /\ Head(list).cmd # "OPENTUN"
    BY <2>8, QueryInConfigs, QueryCommand
  <2>10. Head(list).cmd = "PERSIST_TUN_ACTION" => n = 1
    BY <2>2, <2>3, <2>4, <2>7
  <2>11. ASSUME Head(list).cmd # "PERSIST_TUN_ACTION"
         PROVE  /\ Tail(list) \in Seq(AnyQuery) /\ Tail(list) # <<>>
                /\ Len(Tail(list)) = n - 1 /\ IsRest(c, Tail(list))
    <3>1. PICK t : t = Tail(list)
      OBVIOUS
    <3>2. /\ t \in Seq(AnyQuery) /\ Len(t) = n - 1
          /\ \A i \in 1..n - 1 : t[i] = list[i + 1]
      <4>1. /\ t \in Seq(AnyQuery) /\ Len(t) = Len(list) - 1
            /\ \A i \in 1..Len(t) : t[i] = list[i + 1]
        BY <2>5, <3>1, HeadTailProperties
      <4>2. Len(t) = n - 1
        BY <4>1, <2>3
      <4> QED BY <4>1, <4>2
    <3>3. n # 1
      BY <2>2, <2>3, <2>7, <2>11
    <3>4. n - 1 \in 1..m
      BY <2>4, <3>3
    <3>5. \A k \in 1..n - 1 : t[k] = Q[m - (n - 1) + k]
      <4>1. ASSUME NEW k \in 1..n - 1
            PROVE  t[k] = Q[m - (n - 1) + k]
        <5>1. k + 1 \in 1..n /\ m - n + (k + 1) = m - (n - 1) + k
          BY <2>4
        <5>2. list[k + 1] = Q[m - n + (k + 1)]
          BY <2>4, <5>1
        <5> QED BY <3>2, <5>1, <5>2
      <4> QED BY <4>1
    <3>6. t # <<>>
      BY <3>2, <3>4, EmptySeq
    <3> QED BY <2>1, <2>3, <3>1, <3>2, <3>4, <3>5, <3>6 DEF IsRest
  <2> QED BY <1>2, <2>1, <2>3, <2>4, <2>5, <2>7, <2>8, <2>9, <2>10, <2>11
<1> QED BY <1>1, <1>2

-------------------------------------------------------------------------------
(* What the service notes.                                                 *)
LEMMA TunFields ==
  ASSUME NEW i, NEW j, NEW r, NEW d, NEW n
  PROVE  [ip |-> i, ip6 |-> j, routes |-> r, dns |-> d, domain |-> n] \in Tun
           <=> /\ i \in Field("ip") /\ j \in Field("ip6") /\ n \in Field("domain")
               /\ r \subseteq [net : Network, included : BOOLEAN]
               /\ d \in Seq(UNION {ToSet(c.dns) : c \in Configs})
BY DEF Tun

ServiceTypes ==
  /\ TunConfigOf(mRoutes) \in Tun /\ mLastTunCfg \in Tun \cup {NoTun}
  /\ \A r, k \in mRoutes : r.net = k.net => r = k

LEMMA AddIPTyped ==
  ASSUME mRoutes \subseteq [net : Network, included : BOOLEAN],
         \A r, k \in mRoutes : r.net = k.net => r = k,
         NEW n \in Network, NEW i \in BOOLEAN
  PROVE  LET R == AddIP(mRoutes, n, i)
         IN  /\ R \subseteq [net : Network, included : BOOLEAN]
             /\ \A r, k \in R : r.net = k.net => r = k
BY DEF AddIP

LEMMA ConfigFields ==
  ASSUME NEW c \in Configs
  PROVE  /\ c.ip \in Field("ip") /\ c.ip6 \in Field("ip6") /\ c.domain \in Field("domain")
         /\ c.ip \in Network
         /\ \A r \in ToSet(c.routes) : r.net \in Network /\ r.included \in BOOLEAN
         /\ ToSet(c.dns) \subseteq UNION {ToSet(d.dns) : d \in Configs}
<1>1. c.ip \in Field("ip") /\ c.ip6 \in Field("ip6") /\ c.domain \in Field("domain")
  BY DEF Field
<1>2. \A r \in ToSet(c.routes) : r.included \in BOOLEAN
  BY TunAssumption
<1>3. \A r \in ToSet(c.routes) : r.net \in Nets(ToSet(c.routes))
  BY DEF Nets
<1>4. \A r \in ToSet(c.routes) : r.net \in Network
  BY <1>3 DEF Network
<1> QED BY <1>1, <1>2, <1>4 DEF Network

LEMMA ServiceTypesKept ==
  ASSUME ServiceTypes, UNCHANGED service
  PROVE  ServiceTypes'
BY DEF ServiceTypes, TunConfigOf, service, config

(* The two ways in which openTun goes on once there is an address.         *)
Refused(routes) ==
  /\ Reply("cancel") /\ mRoutes' = routes
  /\ UNCHANGED <<mLocalIP, mLocalIPv6, mDnslist, mDomain, mLastTunCfg, since>>

Used(cfg) ==
  /\ answer' = [status |-> "ok", tun |-> cfg] \/ Reply("cancel")
  /\ mLastTunCfg' = cfg
  /\ mDnslist' = <<>> /\ mRoutes' = {} /\ mDomain' = None
  /\ mLocalIP' = None /\ mLocalIPv6' = None
  /\ since' = {}

Opening(added, routes, cfg) ==
  /\ added \in SUBSET LocalNetworks
  /\ \A n \in added, r \in mRoutes : r.net # n
  /\ routes = mRoutes \cup {[net |-> n, included |-> FALSE] : n \in added}
  /\ cfg = TunConfigOf(routes)
  /\ Refused(routes) \/ Used(cfg)

LEMMA OpenTunIs ==
  ASSUME OpenTun, ~(mLocalIP = None /\ mLocalIPv6 = None)
  PROVE  \E added, routes, cfg : Opening(added, routes, cfg)
<1> DEFINE Added(lan) == {n \in lan : mLocalIP # None /\ n # mLocalIP
                                     /\ \A r \in mRoutes : r.net # n}
           Routes(lan) == mRoutes \cup {[net |-> n, included |-> FALSE] : n \in Added(lan)}
<1>1. PICK lan \in SUBSET LocalNetworks :
        Refused(Routes(lan)) \/ Used(TunConfigOf(Routes(lan)))
  BY DEF OpenTun, Refused, Used
<1>2. Opening(Added(lan), Routes(lan), TunConfigOf(Routes(lan)))
  BY <1>1 DEF Opening
<1> QED BY <1>2

LEMMA ServiceTypesStep ==
  ASSUME TypeOK, ProcessNeedCommand
  PROVE  ServiceTypes' /\ answer' \in Answer
<1> DEFINE D == UNION {ToSet(c.dns) : c \in Configs}
           R == [net : Network, included : BOOLEAN]
<1>1. /\ mLocalIP \in Field("ip") /\ mLocalIPv6 \in Field("ip6") /\ mDomain \in Field("domain")
      /\ mRoutes \subseteq R /\ mDnslist \in Seq(D)
      /\ mLastTunCfg \in Tun \cup {NoTun}
      /\ \A r, k \in mRoutes : r.net = k.net => r = k
  BY TunFields DEF TypeOK, TunConfigOf
<1>2. inbox # <<>> /\ Head(inbox) \in AnyQuery
  BY HeadTailProperties DEF TypeOK, ProcessNeedCommand
<1>3. PICK q \in AnyQuery :
        \/ q.cmd = "IFCONFIG" /\ SetLocalIP(q.arg)
        \/ q.cmd = "IFCONFIG6" /\ SetLocalIPv6(q.arg)
        \/ q.cmd = "ROUTE" /\ AddRoute(q.arg)
        \/ q.cmd = "DNSSERVER" /\ AddDNS(q.arg)
        \/ q.cmd = "DNSDOMAIN" /\ SetDomain(q.arg)
        \/ q.cmd = "PERSIST_TUN_ACTION" /\ GetTunReopenStatus
        \/ q.cmd = "OPENTUN" /\ OpenTun
  BY <1>2 DEF ProcessNeedCommand
<1>4. q.cmd # "OPENTUN" => \E c \in Configs : q \in Query(c)
  BY AnyQueryIs
<1>5. ASSUME NEW s \in {"ok", "cancel", "NOACTION", "OPEN_BEFORE_CLOSE"}, Reply(s)
      PROVE  answer' \in Answer
  BY <1>5 DEF Reply, Answer
<1>6. ASSUME mLocalIP' \in Field("ip"), mLocalIPv6' \in Field("ip6"),
             mDomain' \in Field("domain"), mRoutes' \subseteq R, mDnslist' \in Seq(D),
             mLastTunCfg' \in Tun \cup {NoTun},
             \A r, k \in mRoutes' : r.net = k.net => r = k
      PROVE  ServiceTypes'
  BY <1>6, TunFields DEF ServiceTypes, TunConfigOf
<1>7. CASE q.cmd = "IFCONFIG" /\ SetLocalIP(q.arg)
  <2>1. PICK c \in Configs : q.arg = c.ip
    BY <1>4, <1>7, QueryCommand
  <2>2. q.arg \in Field("ip") /\ q.arg \in Network
    BY <2>1, ConfigFields
  <2>3. /\ mRoutes' = mRoutes \/ mRoutes' = AddIP(mRoutes, q.arg, TRUE)
        /\ mLocalIP' = q.arg /\ Reply("ok")
        /\ UNCHANGED <<mLocalIPv6, mDnslist, mDomain, mLastTunCfg>>
    BY <1>7 DEF SetLocalIP
  <2>4. mRoutes' \subseteq R /\ \A r, k \in mRoutes' : r.net = k.net => r = k
    BY <1>1, <2>2, <2>3, AddIPTyped
  <2>5. answer' \in Answer
    BY <2>3, <1>5
  <2>6. ServiceTypes'
    BY <1>1, <1>6, <2>2, <2>3, <2>4
  <2> QED BY <2>5, <2>6
<1>8. CASE q.cmd = "IFCONFIG6" /\ SetLocalIPv6(q.arg)
  <2>1. PICK c \in Configs : q.arg = c.ip6
    BY <1>4, <1>8, QueryCommand
  <2>2. q.arg \in Field("ip6")
    BY <2>1, ConfigFields
  <2>3. /\ mLocalIPv6' = q.arg /\ Reply("ok")
        /\ UNCHANGED <<mLocalIP, mRoutes, mDnslist, mDomain, mLastTunCfg>>
    BY <1>8 DEF SetLocalIPv6
  <2>5. answer' \in Answer
    BY <2>3, <1>5
  <2>6. ServiceTypes'
    BY <1>1, <1>6, <2>2, <2>3
  <2> QED BY <2>5, <2>6
<1>9. CASE q.cmd = "ROUTE" /\ AddRoute(q.arg)
  <2>1. PICK c \in Configs : q.arg \in ToSet(c.routes)
    BY <1>4, <1>9, QueryCommand
  <2>2. q.arg.net \in Network /\ q.arg.included \in BOOLEAN
    BY <2>1, ConfigFields
  <2>3. /\ mRoutes' = mRoutes \/ mRoutes' = AddIP(mRoutes, q.arg.net, q.arg.included)
        /\ Reply("ok")
        /\ UNCHANGED <<mLocalIP, mLocalIPv6, mDnslist, mDomain, mLastTunCfg>>
    BY <1>9 DEF AddRoute
  <2>4. mRoutes' \subseteq R /\ \A r, k \in mRoutes' : r.net = k.net => r = k
    BY <1>1, <2>2, <2>3, AddIPTyped
  <2>5. answer' \in Answer
    BY <2>3, <1>5
  <2>6. ServiceTypes'
    BY <1>1, <1>6, <2>3, <2>4
  <2> QED BY <2>5, <2>6
<1>10. CASE q.cmd = "DNSSERVER" /\ AddDNS(q.arg)
  <2>1. PICK c \in Configs : q.arg \in ToSet(c.dns)
    BY <1>4, <1>10, QueryCommand
  <2>2. q.arg \in D
    BY <2>1, ConfigFields
  <2>3. /\ mDnslist' = Append(mDnslist, q.arg) /\ Reply("ok")
        /\ UNCHANGED <<mLocalIP, mLocalIPv6, mRoutes, mDomain, mLastTunCfg>>
    BY <1>10 DEF AddDNS
  <2>4. mDnslist' \in Seq(D)
    BY <1>1, <2>2, <2>3, AppendProperties
  <2>5. answer' \in Answer
    BY <2>3, <1>5
  <2>6. ServiceTypes'
    BY <1>1, <1>6, <2>3, <2>4
  <2> QED BY <2>5, <2>6
<1>11. CASE q.cmd = "DNSDOMAIN" /\ SetDomain(q.arg)
  <2>1. PICK c \in Configs : q.arg = c.domain
    BY <1>4, <1>11, QueryCommand
  <2>2. q.arg \in Field("domain")
    BY <2>1, ConfigFields
  <2>3. /\ mDomain' = mDomain \/ mDomain' = q.arg
        /\ Reply("ok")
        /\ UNCHANGED <<mLocalIP, mLocalIPv6, mRoutes, mDnslist, mLastTunCfg>>
    BY <1>11 DEF SetDomain
  <2>5. answer' \in Answer
    BY <2>3, <1>5
  <2>6. ServiceTypes'
    BY <1>1, <1>6, <2>2, <2>3
  <2> QED BY <2>5, <2>6
<1>12. CASE q.cmd = "PERSIST_TUN_ACTION" /\ GetTunReopenStatus
  <2>1. UNCHANGED service /\ (Reply("NOACTION") \/ Reply("OPEN_BEFORE_CLOSE"))
    BY <1>12 DEF GetTunReopenStatus
  <2> QED BY <2>1, <1>5, ServiceTypesKept DEF TypeOK, ServiceTypes
<1>13. CASE q.cmd = "OPENTUN" /\ OpenTun
  <2>1. CASE mLocalIP = None /\ mLocalIPv6 = None
    <3>1. Reply("cancel") /\ UNCHANGED service
      BY <1>13, <2>1 DEF OpenTun
    <3> QED BY <3>1, <1>5, ServiceTypesKept DEF TypeOK, ServiceTypes
  <2>2. CASE ~(mLocalIP = None /\ mLocalIPv6 = None)
    <3>1. PICK added, routes, cfg : Opening(added, routes, cfg)
      BY <1>13, <2>2, OpenTunIs
    <3>2. added \subseteq Network
      BY <3>1 DEF Opening, Network
    <3>3. routes \subseteq R /\ \A r, k \in routes : r.net = k.net => r = k
      <4>1. \A n \in added : [net |-> n, included |-> FALSE] \in R
        BY <3>2
      <4>2. routes = mRoutes \cup {[net |-> n, included |-> FALSE] : n \in added}
            /\ \A n \in added, r \in mRoutes : r.net # n
        BY <3>1 DEF Opening
      <4> HIDE DEF R
      <4>3. routes \subseteq R
        BY <1>1, <4>1, <4>2
      <4>4. \A r \in routes : r \in mRoutes \/ \E n \in added : r = [net |-> n, included |-> FALSE]
        BY <4>2
      <4>5. \A r, k \in routes : r.net = k.net => r = k
        <5>1. \A r, k \in mRoutes : r.net = k.net => r = k
          BY <1>1
        <5>2. \A r \in mRoutes : r.net \notin added
          BY <4>2
        <5>3. TAKE r, k \in routes
        <5>4. CASE r \in mRoutes /\ k \in mRoutes
          BY <5>1, <5>4
        <5>5. CASE r \notin mRoutes
          <6>1. PICK n \in added : r = [net |-> n, included |-> FALSE]
            BY <4>4, <5>5
          <6> QED BY <4>4, <5>2, <6>1
        <5>6. CASE k \notin mRoutes
          <6>1. PICK n \in added : k = [net |-> n, included |-> FALSE]
            BY <4>4, <5>6
          <6> QED BY <4>4, <5>2, <6>1
        <5> QED BY <5>4, <5>5, <5>6
      <4> QED BY <4>3, <4>5
    <3>4. cfg \in Tun
      BY <1>1, <3>1, <3>3, TunFields DEF TunConfigOf, Opening
    <3>5. answer' \in Answer
      BY <3>1, <3>4, <1>5 DEF Answer, Opening, Refused, Used
    <3>6. None \in Field("ip") /\ None \in Field("ip6") /\ None \in Field("domain")
          /\ <<>> \in Seq(D)
      BY EmptySeq DEF Field
    <3>7. CASE Refused(routes)
      <4>1. mRoutes' = routes /\ UNCHANGED <<mLocalIP, mLocalIPv6, mDnslist, mDomain, mLastTunCfg>>
        BY <3>7 DEF Refused
      <4>2. mLocalIP' \in Field("ip") /\ mLocalIPv6' \in Field("ip6") /\ mDomain' \in Field("domain")
        BY <1>1, <4>1
      <4>3. mDnslist' \in Seq(D) /\ mLastTunCfg' \in Tun \cup {NoTun}
        BY <1>1, <4>1
      <4>4. mRoutes' \subseteq R /\ \A r, k \in mRoutes' : r.net = k.net => r = k
        BY <3>3, <4>1, Zenon
      <4> QED BY <1>6, <3>5, <4>2, <4>3, <4>4
    <3>8. CASE Used(cfg)
      <4>1. /\ mLastTunCfg' = cfg /\ mDnslist' = <<>> /\ mRoutes' = {} /\ mDomain' = None
            /\ mLocalIP' = None /\ mLocalIPv6' = None
        BY <3>8 DEF Used
      <4>2. mLocalIP' \in Field("ip") /\ mLocalIPv6' \in Field("ip6") /\ mDomain' \in Field("domain")
        BY <3>6, <4>1
      <4>3. mDnslist' \in Seq(D) /\ mLastTunCfg' \in Tun \cup {NoTun}
        BY <3>4, <3>6, <4>1
      <4>4. mRoutes' \subseteq R /\ \A r, k \in mRoutes' : r.net = k.net => r = k
        BY <4>1
      <4> QED BY <1>6, <3>5, <4>2, <4>3, <4>4
    <3> QED BY <3>1, <3>5, <3>7, <3>8 DEF Opening
  <2> QED BY <2>1, <2>2
<1> QED BY <1>3, <1>7, <1>8, <1>9, <1>10, <1>11, <1>12, <1>13

(* Of the service nothing changes but by a query and by another service.   *)
LEMMA ServiceKeepsTypes ==
  ASSUME TypeOK, [Next]_vars
  PROVE  ServiceTypes'
<1>1. ServiceTypes
  BY DEF TypeOK, ServiceTypes
<1>2. CASE UNCHANGED service
  BY <1>1, <1>2, ServiceTypesKept
<1>3. CASE StartProcess
  <2>1. CASE UNCHANGED service
    BY <2>1, <1>2
  <2>2. CASE /\ mLocalIP' = None /\ mLocalIPv6' = None /\ mRoutes' = {} /\ mDnslist' = <<>>
             /\ mDomain' = None /\ mLastTunCfg' = NoTun
    <3>1. None \in Field("ip") /\ None \in Field("ip6") /\ None \in Field("domain")
          /\ <<>> \in Seq(UNION {ToSet(c.dns) : c \in Configs})
      BY EmptySeq DEF Field
    <3> QED BY <2>2, <3>1, TunFields DEF ServiceTypes, TunConfigOf
  <2> QED BY <1>3, <2>1, <2>2 DEF StartProcess
<1>4. CASE ProcessNeedCommand
  BY <1>4, ServiceTypesStep
<1>5. CASE Setup \/ Signal \/ Restart \/ Die \/ UNCHANGED vars
  BY <1>2, <1>5 DEF Setup, DoOpenTun, Send, Receive, Interrupted, Signal, Restart, Die, vars
<1> QED BY <1>3, <1>4, <1>5 DEF Next

LEMMA TypeInit == Init => TypeInv
<1> SUFFICES ASSUME Init PROVE TypeInv
  OBVIOUS
<1>1. None \in Field("ip") /\ None \in Field("ip6") /\ None \in Field("domain")
      /\ <<>> \in Seq(UNION {ToSet(c.dns) : c \in Configs}) /\ <<>> \in Seq(AnyQuery)
  BY EmptySeq DEF Field
<1>2. TunConfigOf(mRoutes) \in Tun
  BY <1>1, TunFields DEF Init, NoConfig, TunConfigOf
<1>3. setups \in 0..MaxSetups
  BY TunAssumption DEF Init
<1>4. TypeOK
  BY <1>1, <1>2, <1>3 DEF Init, NoConfig, TypeOK
<1> QED BY <1>4 DEF Init, TypeInv, Asking, Quiet

(* The types and the course of a setup, step by step.                      *)
LEMMA StartProcessTypes ==
  ASSUME TypeInv, StartProcess
  PROVE  TypeInv'
<1>1. ServiceTypes'
  BY ServiceKeepsTypes DEF TypeInv, Next
<1> QED BY <1>1 DEF StartProcess, TypeInv, TypeOK, ServiceTypes, Asking, Quiet

LEMMA DoOpenTunTypes ==
  ASSUME TypeInv, DoOpenTun
  PROVE  TypeInv'
<1>1. ServiceTypes'
  BY ServiceKeepsTypes DEF TypeInv, Next, Setup
<1>2. PICK c \in Configs : pushed' = c /\ todo' = Queries(c)
  BY DEF DoOpenTun
<1>3. Queries(c) \in Seq(Query(c)) /\ Len(Queries(c)) \in Nat /\ Len(Queries(c)) > 0
  <2>1. /\ Queries(c) \in Seq(Query(c)) /\ Len(Queries(c)) \in Nat
        /\ Before(c) \in Nat /\ Len(c.dns) \in Nat
        /\ Len(Queries(c)) > Before(c) + Len(c.dns)
    BY QueriesInOrder
  <2> QED BY <2>1
<1>4. Queries(c) \in Seq(AnyQuery) /\ Queries(c) # <<>>
  BY <1>3, QueryInConfigs, SeqMonotonic, EmptySeq
<1>5. IsRest(c, Queries(c))
  BY <1>3 DEF IsRest
<1>6. /\ phase = "hold" /\ phase' = "setup" /\ setups < MaxSetups /\ setups' = setups + 1
      /\ UNCHANGED <<waiting, sig, fd, inbox, answer, service>>
  BY DEF DoOpenTun
<1>7. TypeOK'
  BY <1>1, <1>2, <1>4, <1>6, TunAssumption DEF TypeInv, TypeOK, ServiceTypes
<1>8. Asking'
  BY <1>2, <1>5, <1>6 DEF Asking
<1>9. Quiet'
  BY <1>6 DEF TypeInv, TypeOK, Quiet
<1> QED BY <1>7, <1>8, <1>9 DEF TypeInv

LEMMA SendTypes ==
  ASSUME TypeInv, Send
  PROVE  TypeInv'
<1>1. ServiceTypes'
  BY ServiceKeepsTypes DEF TypeInv, Next, Setup
<1>2. /\ phase = "setup" /\ ~waiting /\ waiting' = TRUE /\ answer' = None
      /\ inbox' = Append(inbox, Head(todo))
      /\ UNCHANGED <<phase, pushed, todo, sig, fd, setups, service>>
  BY DEF Send
<1>3. Head(todo) \in AnyQuery
  BY <1>2, RestProperties DEF TypeInv, TypeOK, Asking
<1>4. inbox' \in Seq(AnyQuery)
  BY <1>2, <1>3, AppendProperties DEF TypeInv, TypeOK
<1>5. TypeOK'
  BY <1>1, <1>2, <1>4 DEF TypeInv, TypeOK, ServiceTypes
<1>6. Asking'
  BY <1>2 DEF TypeInv, Asking
<1>7. ~sig => inbox' = <<Head(todo)>>
  <2>1. ~sig => inbox = <<>>
    BY <1>2 DEF TypeInv, Quiet
  <2>2. Append(<<>>, Head(todo)) = <<Head(todo)>>
    OBVIOUS
  <2> QED BY <1>2, <2>1, <2>2
<1>8. Quiet'
  BY <1>2, <1>7 DEF TypeInv, Quiet
<1> QED BY <1>5, <1>6, <1>8 DEF TypeInv

(* What an answer leads to, for each query.                                *)
LEMMA ContinueCases ==
  ASSUME NEW query, NEW status, Continue(query, status)
  PROVE  \/ /\ query.cmd = "PERSIST_TUN_ACTION" /\ status = "NOACTION" /\ fd # NoTun
            /\ phase' = "up" /\ todo' = <<>> /\ fd' = fd
         \/ /\ query.cmd = "PERSIST_TUN_ACTION"
            /\ todo' = <<OpenTunQuery>> /\ phase' = phase /\ fd' = fd
         \/ /\ query.cmd = "OPENTUN" /\ status = "ok"
            /\ phase' = "up" /\ todo' = <<>> /\ fd' = answer.tun
         \/ /\ query.cmd = "OPENTUN" /\ status = "cancel"
            /\ phase' = "dead" /\ todo' = <<>> /\ fd' = NoTun
         \/ /\ query.cmd # "PERSIST_TUN_ACTION"
            /\ query.cmd = "OPENTUN" => status \notin {"ok", "cancel"}
            /\ todo' = Tail(todo) /\ phase' = phase /\ fd' = fd
<1>1. CASE query.cmd = "PERSIST_TUN_ACTION" /\ status = "NOACTION" /\ fd # NoTun
  BY <1>1 DEF Continue
<1>2. CASE query.cmd = "PERSIST_TUN_ACTION" /\ ~(status = "NOACTION" /\ fd # NoTun)
  BY <1>2, AskOpenTun DEF Continue
<1>3. CASE query.cmd = "OPENTUN" /\ status = "ok"
  BY <1>3 DEF Continue
<1>4. CASE query.cmd = "OPENTUN" /\ status = "cancel"
  BY <1>4 DEF Continue
<1>5. CASE /\ query.cmd # "PERSIST_TUN_ACTION"
           /\ query.cmd = "OPENTUN" => status \notin {"ok", "cancel"}
  BY <1>5 DEF Continue
<1> QED BY <1>1, <1>2, <1>3, <1>4, <1>5

LEMMA ReceiveTypes ==
  ASSUME TypeInv, Receive
  PROVE  TypeInv'
<1>1. ServiceTypes'
  BY ServiceKeepsTypes DEF TypeInv, Next, Setup
<1>2. /\ phase = "setup" /\ waiting /\ ~sig /\ answer # None /\ waiting' = FALSE
      /\ Continue(Head(todo), answer.status)
      /\ UNCHANGED <<pushed, sig, setups, inbox, answer, service>>
  BY DEF Receive
<1>3. /\ todo \in Seq(AnyQuery) /\ pushed \in Configs /\ IsRest(pushed, todo)
      /\ answer \in Answer /\ fd \in Tun \cup {NoTun}
  BY <1>2 DEF TypeInv, TypeOK, Asking
<1>4. CASE /\ phase' = "setup" /\ todo' = <<OpenTunQuery>> /\ fd' = fd /\ inbox' = <<>>
  <2>1. <<OpenTunQuery>> \in Seq(AnyQuery) /\ <<OpenTunQuery>> # <<>>
    BY OpenTunIsQuery, OneElement
  <2>2. TypeOK'
    BY <1>1, <1>2, <1>4, <2>1 DEF TypeInv, TypeOK, ServiceTypes
  <2>3. Asking' /\ Quiet'
    BY <1>2, <1>3, <1>4 DEF Asking, Quiet, IsRest
  <2> QED BY <2>2, <2>3 DEF TypeInv
<1>5. CASE /\ phase' \in {"up", "dead"} /\ todo' = <<>> /\ fd' \in Tun \cup {NoTun}
           /\ inbox' = <<>>
  <2>1. <<>> \in Seq(AnyQuery)
    BY EmptySeq
  <2>2. TypeOK'
    BY <1>1, <1>2, <1>5, <2>1 DEF TypeInv, TypeOK, ServiceTypes
  <2>3. Asking' /\ Quiet'
    BY <1>2, <1>3, <1>5 DEF Asking, Quiet
  <2> QED BY <2>2, <2>3 DEF TypeInv
<1>6. CASE /\ phase' = "setup" /\ todo' = Tail(todo) /\ fd' = fd /\ inbox' = <<>>
           /\ Head(todo).cmd \notin {"PERSIST_TUN_ACTION", "OPENTUN"}
  <2>1. Tail(todo) \in Seq(AnyQuery) /\ Tail(todo) # <<>> /\ IsRest(pushed, Tail(todo))
    BY <1>3, <1>6, RestProperties
  <2>2. TypeOK'
    BY <1>1, <1>2, <1>6, <2>1 DEF TypeInv, TypeOK, ServiceTypes
  <2>3. Asking'
    BY <1>2, <1>3, <1>6, <2>1 DEF Asking
  <2>4. Quiet'
    BY <1>2, <1>6 DEF Quiet
  <2> QED BY <2>2, <2>3, <2>4 DEF TypeInv
<1>7. /\ inbox = <<>>
      /\ Head(todo).cmd = "OPENTUN" => answer.status \in {"ok", "cancel"}
  BY <1>2 DEF TypeInv, Quiet
<1>8. answer.tun \in Tun \cup {NoTun}
  BY <1>3 DEF Answer
<1> QED BY <1>2, <1>3, <1>4, <1>5, <1>6, <1>7, <1>8, ContinueCases

LEMMA InterruptedTypes ==
  ASSUME TypeInv, Interrupted
  PROVE  TypeInv'
<1>1. ServiceTypes'
  BY ServiceKeepsTypes DEF TypeInv, Next, Setup
<1>2. /\ phase = "setup" /\ waiting /\ sig /\ waiting' = FALSE
      /\ UNCHANGED <<pushed, sig, setups, inbox, answer, service>>
  BY DEF Interrupted
<1>3. todo \in Seq(AnyQuery) /\ pushed \in Configs /\ IsRest(pushed, todo)
  BY <1>2 DEF TypeInv, TypeOK, Asking
<1>4. CASE Head(todo).cmd \in {"PERSIST_TUN_ACTION", "OPENTUN"}
  <2>1. phase' = "dead" /\ todo' = <<>> /\ fd' = NoTun
    BY <1>4 DEF Interrupted
  <2>2. <<>> \in Seq(AnyQuery)
    BY EmptySeq
  <2>3. TypeOK'
    BY <1>1, <1>2, <2>1, <2>2 DEF TypeInv, TypeOK, ServiceTypes
  <2> QED BY <2>1, <2>3 DEF TypeInv, Asking, Quiet
<1>5. CASE Head(todo).cmd \notin {"PERSIST_TUN_ACTION", "OPENTUN"}
  <2>1. phase' = phase /\ todo' = Tail(todo) /\ fd' = fd
    BY <1>5 DEF Interrupted
  <2>2. Tail(todo) \in Seq(AnyQuery) /\ Tail(todo) # <<>> /\ IsRest(pushed, Tail(todo))
    BY <1>3, <1>5, RestProperties
  <2>3. TypeOK'
    BY <1>1, <1>2, <2>1, <2>2 DEF TypeInv, TypeOK, ServiceTypes
  <2>4. Asking' /\ Quiet'
    BY <1>2, <1>3, <2>1, <2>2 DEF Asking, Quiet
  <2> QED BY <2>3, <2>4 DEF TypeInv
<1> QED BY <1>4, <1>5

LEMMA ProcessTypes ==
  ASSUME TypeInv, Signal \/ Restart \/ Die
  PROVE  TypeInv'
<1>1. ServiceTypes'
  BY ServiceKeepsTypes DEF TypeInv, Next
<1>2. CASE Signal
  BY <1>1, <1>2 DEF Signal, TypeInv, TypeOK, ServiceTypes, Asking, Quiet
<1>3. CASE Restart
  BY <1>1, <1>3 DEF Restart, TypeInv, TypeOK, ServiceTypes, Asking, Quiet
<1>4. CASE Die
  BY <1>1, <1>4 DEF Die, TypeInv, TypeOK, ServiceTypes, Asking, Quiet
<1> QED BY <1>2, <1>3, <1>4

(* openTun answers with a tun or cancels.                                  *)
LEMMA NeedCommandTypes ==
  ASSUME TypeInv, ProcessNeedCommand
  PROVE  TypeInv'
<1>1. ServiceTypes' /\ answer' \in Answer
  BY ServiceTypesStep DEF TypeInv
<1>2. inbox # <<>> /\ inbox' = Tail(inbox) /\ UNCHANGED openvpn
  BY DEF ProcessNeedCommand
<1>3. inbox' \in Seq(AnyQuery)
  BY <1>2, HeadTailProperties DEF TypeInv, TypeOK
<1>4. TypeOK'
  BY <1>1, <1>2, <1>3 DEF TypeInv, TypeOK, ServiceTypes, openvpn
<1>5. Asking'
  BY <1>2 DEF TypeInv, Asking, openvpn
<1>6. ASSUME phase = "setup", ~sig
      PROVE  /\ waiting /\ inbox' = <<>>
             /\ Head(todo).cmd = "OPENTUN" => answer'.status \in {"ok", "cancel"}
  <2>1. waiting /\ inbox = <<Head(todo)>>
    BY <1>2, <1>6 DEF TypeInv, Quiet
  <2>2. Head(inbox) = Head(todo) /\ inbox' = <<>>
    BY <1>2, <2>1, OneElement
  <2>3. ASSUME Head(todo).cmd = "OPENTUN"
        PROVE  answer'.status \in {"ok", "cancel"}
    <3>1. OpenTun
      BY <2>2, <2>3 DEF ProcessNeedCommand
    <3>2. Reply("cancel") \/ \E cfg : answer' = [status |-> "ok", tun |-> cfg]
      <4>1. CASE mLocalIP = None /\ mLocalIPv6 = None
        BY <3>1, <4>1 DEF OpenTun
      <4>2. CASE ~(mLocalIP = None /\ mLocalIPv6 = None)
        BY <3>1, <4>2, OpenTunIs DEF Opening, Refused, Used
      <4> QED BY <4>1, <4>2
    <3> QED BY <3>2 DEF Reply
  <2> QED BY <2>1, <2>2, <2>3
<1>7. Quiet'
  BY <1>2, <1>6 DEF TypeInv, Quiet, openvpn
<1> QED BY <1>4, <1>5, <1>7 DEF TypeInv

(* The configuration of the service, the tuns and what is asked have their *)
(* types, a query is open in do_open_tun only, and the service notes no    *)
(* network twice: NetworkSpace.addIP.                                      *)
THEOREM TunTypes == Spec => []TypeOK
<1>1. Init => TypeInv
  BY TypeInit
<1>2. TypeInv /\ [Next]_vars => TypeInv'
  <2> SUFFICES ASSUME TypeInv, [Next]_vars
               PROVE  TypeInv'
    OBVIOUS
  <2>1. CASE UNCHANGED vars
    BY <2>1 DEF vars, openvpn, service, config, TypeInv, TypeOK, TunConfigOf, Asking, Quiet
  <2> QED BY <2>1, StartProcessTypes, DoOpenTunTypes, SendTypes, ReceiveTypes,
             InterruptedTypes, ProcessTypes, NeedCommandTypes DEF Next, Setup
<1>3. TypeInv => TypeOK
  BY DEF TypeInv
<1> QED BY <1>1, <1>2, <1>3, PTL DEF Spec

-------------------------------------------------------------------------------
(* Nothing outlives its use: all that is noted was noted since a tun was   *)
(* opened last, or is a local network that an openTun without success left.*)
Recent ==
  /\ {mLocalIP, mLocalIPv6, mDomain} \subseteq since \cup {None}
  /\ mDnslist \in Seq(since)
  /\ Nets(mRoutes) \subseteq since \cup LocalNetworks

LEMMA AddIPNets ==
  ASSUME NEW R, NEW n, NEW i
  PROVE  Nets(AddIP(R, n, i)) = Nets(R) \cup {n}
<1> DEFINE r == [net |-> n, included |-> i]
<1>0. r.net = n
  OBVIOUS
<1> HIDE DEF r
<1>1. AddIP(R, n, i) = R \cup {x \in {r} : \A k \in R : k.net # n}
  BY DEF AddIP, r
<1>2. CASE \A k \in R : k.net # n
  <2>1. AddIP(R, n, i) = R \cup {r}
    BY <1>1, <1>2
  <2> QED BY <2>1, <1>0 DEF Nets
<1>3. CASE \E k \in R : k.net = n
  <2>1. AddIP(R, n, i) = R
    BY <1>1, <1>3
  <2> QED BY <2>1, <1>3 DEF Nets
<1> QED BY <1>2, <1>3

LEMMA GrowingSeq ==
  ASSUME NEW S, NEW T, S \subseteq T, NEW s \in Seq(S), NEW x \in T
  PROVE  s \in Seq(T) /\ Append(s, x) \in Seq(T)
<1>1. s \in Seq(T)
  BY SeqMonotonic
<1> QED BY <1>1, AppendProperties

LEMMA RecentKept ==
  ASSUME Recent, UNCHANGED service
  PROVE  Recent'
BY DEF Recent, service, config

LEMMA RecentStep ==
  ASSUME Recent, [Next]_vars
  PROVE  Recent'
<1>1. CASE UNCHANGED service
  BY <1>1, RecentKept
<1>2. CASE StartProcess
  <2>1. CASE /\ mLocalIP' = None /\ mLocalIPv6' = None /\ mRoutes' = {} /\ mDnslist' = <<>>
             /\ mDomain' = None /\ since' = {}
    BY <2>1, EmptySeq DEF Recent, Nets
  <2> QED BY <1>2, <1>1, <2>1 DEF StartProcess
<1>3. CASE ProcessNeedCommand
  <2>1. PICK q :
          \/ SetLocalIP(q.arg) \/ SetLocalIPv6(q.arg) \/ AddRoute(q.arg)
          \/ AddDNS(q.arg) \/ SetDomain(q.arg) \/ GetTunReopenStatus \/ OpenTun
    BY <1>3 DEF ProcessNeedCommand
  <2>2. ASSUME NEW x, since' = since \cup {x}
        PROVE  /\ since \subseteq since' /\ x \in since'
               /\ mDnslist \in Seq(since') /\ Append(mDnslist, x) \in Seq(since')
    BY <2>2, GrowingSeq DEF Recent
  <2>3. CASE SetLocalIP(q.arg)
    <3>1. Nets(mRoutes') \subseteq Nets(mRoutes) \cup {q.arg}
      BY <2>3, AddIPNets DEF SetLocalIP
    <3> QED BY <2>2, <2>3, <3>1 DEF SetLocalIP, Note, Recent
  <2>4. CASE SetLocalIPv6(q.arg)
    BY <2>2, <2>4 DEF SetLocalIPv6, Note, Recent
  <2>5. CASE AddRoute(q.arg)
    <3>1. Nets(mRoutes') \subseteq Nets(mRoutes) \cup {q.arg.net}
      BY <2>5, AddIPNets DEF AddRoute
    <3> QED BY <2>2, <2>5, <3>1 DEF AddRoute, Note, Recent
  <2>6. CASE AddDNS(q.arg)
    BY <2>2, <2>6 DEF AddDNS, Note, Recent
  <2>7. CASE SetDomain(q.arg)
    BY <2>2, <2>7 DEF SetDomain, Note, Recent
  <2>8. CASE GetTunReopenStatus
    BY <2>8, <1>1 DEF GetTunReopenStatus
  <2>9. CASE OpenTun
    <3>1. CASE UNCHANGED service
      BY <3>1, <1>1
    <3>2. CASE ~(mLocalIP = None /\ mLocalIPv6 = None)
      <4>1. PICK added, routes, cfg : Opening(added, routes, cfg)
        BY <2>9, <3>2, OpenTunIs
      <4>2. CASE Refused(routes)
        <5>1. Nets(routes) \subseteq Nets(mRoutes) \cup LocalNetworks
          BY <4>1 DEF Nets, Opening
        <5> QED BY <4>2, <5>1 DEF Refused, Recent
      <4>3. CASE Used(cfg)
        BY <4>3, EmptySeq DEF Used, Recent, Nets
      <4> QED BY <4>1, <4>2, <4>3 DEF Opening
    <3> QED BY <2>9, <3>1, <3>2 DEF OpenTun
  <2> QED BY <2>1, <2>3, <2>4, <2>5, <2>6, <2>7, <2>8, <2>9
<1>4. CASE Setup \/ Signal \/ Restart \/ Die \/ UNCHANGED vars
  BY <1>1, <1>4 DEF Setup, DoOpenTun, Send, Receive, Interrupted, Signal, Restart, Die, vars
<1> QED BY <1>2, <1>3, <1>4 DEF Next

LEMMA SeqElements ==
  ASSUME NEW S, NEW s \in Seq(S)
  PROVE  ToSet(s) \subseteq S
<1>1. DOMAIN s = 1..Len(s) /\ \A i \in 1..Len(s) : s[i] \in S
  BY LenProperties, ElementOfSeq
<1> QED BY <1>1 DEF ToSet

LEMMA OpenedTunIsRecent ==
  ASSUME Recent, OpenTun, answer'.tun # NoTun
  PROVE  Values(answer'.tun) \subseteq since \cup LocalNetworks \cup {None}
<1>1. PICK added, R :
        /\ added \in SUBSET LocalNetworks
        /\ R = mRoutes \cup {[net |-> n, included |-> FALSE] : n \in added}
        /\ answer'.tun = TunConfigOf(R)
  <2>1. ~Reply("cancel")
    BY DEF Reply
  <2>2. ~(mLocalIP = None /\ mLocalIPv6 = None)
    BY <2>1 DEF OpenTun
  <2>3. PICK added, routes, cfg : Opening(added, routes, cfg)
    BY <2>2, OpenTunIs
  <2>4. answer' = [status |-> "ok", tun |-> cfg]
    BY <2>1, <2>3 DEF Opening, Refused, Used
  <2> QED BY <2>3, <2>4 DEF Opening
<1>2. Nets(R) \subseteq since \cup LocalNetworks
  BY <1>1 DEF Nets, Recent
<1>3. ToSet(mDnslist) \subseteq since
  BY SeqElements DEF Recent
<1>4. PICK t : t = answer'.tun
  OBVIOUS
<1>5. t.ip = mLocalIP /\ t.ip6 = mLocalIPv6 /\ t.domain = mDomain /\ t.dns = mDnslist
      /\ t.routes = R
  BY <1>1, <1>4 DEF TunConfigOf
<1>6. Values(t) = {mLocalIP, mLocalIPv6, mDomain} \cup ToSet(mDnslist) \cup Nets(R)
  BY <1>5 DEF Values
<1> QED BY <1>2, <1>3, <1>4, <1>6 DEF Recent

(* A tun is opened with nothing that an earlier tun was opened with and no *)
(* server has pushed again: openTun of OpenVPNService resets its fields.   *)
THEOREM TunIsAlwaysRecent == Spec => TunIsRecent
<1> DEFINE A == answer' # answer /\ answer' # None /\ answer'.tun # NoTun =>
                  Values(answer'.tun) \subseteq since \cup LocalNetworks \cup {None}
<1>1. Init => Recent
  BY EmptySeq DEF Init, NoConfig, Recent, Nets
<1>2. Recent /\ [Next]_vars => Recent'
  BY RecentStep
<1>3. Recent /\ [Next]_vars => [A]_vars
  <2> SUFFICES ASSUME Recent, Next
               PROVE  A
    OBVIOUS
  <2>1. CASE StartProcess \/ Setup \/ Signal \/ Restart \/ Die
    <3>1. answer' = answer \/ answer' = None
      BY <2>1 DEF StartProcess, Setup, DoOpenTun, Send, Receive, Interrupted, Signal,
                  Restart, Die
    <3> QED BY <3>1
  <2>2. CASE ProcessNeedCommand
    <3>1. ASSUME NEW s, Reply(s)
          PROVE  answer'.tun = NoTun
      BY <3>1 DEF Reply
    <3>2. OpenTun \/ \E s : Reply(s)
      BY <2>2 DEF ProcessNeedCommand, SetLocalIP, SetLocalIPv6, AddRoute, AddDNS, SetDomain,
                  GetTunReopenStatus
    <3> QED BY <3>1, <3>2, OpenedTunIsRecent
  <2> QED BY <2>1, <2>2 DEF Next
<1> QED BY <1>1, <1>2, <1>3, PTL DEF Spec, TunIsRecent

-------------------------------------------------------------------------------
(* How far the service has noted what was pushed.                          *)
EndsWith(s, t, n) ==
  n <= Len(s) /\ \A k \in 1..n : s[Len(s) - n + k] = t[k]

LEMMA EndsWithIsSuffix ==
  ASSUME NEW S, NEW T, NEW s \in Seq(S), NEW t \in Seq(T), EndsWith(t, s, Len(s))
  PROVE  IsSuffix(s, t)
<1>1. PICK n \in Nat, m \in Nat : n = Len(s) /\ m = Len(t)
  BY LenProperties
<1>2. n <= m /\ \A k \in 1..n : t[m - n + k] = s[k]
  BY <1>1 DEF EndsWith
<1>3. PICK u, v : u = Reverse(s) /\ v = Reverse(t)
  OBVIOUS
<1>4. u = [i \in 1..n |-> s[n - i + 1]] /\ v = [i \in 1..m |-> t[m - i + 1]]
  BY <1>1, <1>3 DEF Reverse
<1>5. \A i \in 1..n : s[i] \in S
  BY <1>1, ElementOfSeq
<1>6. \A i \in 1..m : t[i] \in T
  BY <1>1, ElementOfSeq
<1>7. u \in [1..n -> S] /\ v \in [1..m -> T]
  BY <1>4, <1>5, <1>6
<1>8. u \in Seq(S) /\ v \in Seq(T)
  <2>1. Seq(S) = UNION {[1..i -> S] : i \in Nat}
    BY SeqDef
  <2>2. Seq(T) = UNION {[1..i -> T] : i \in Nat}
    BY SeqDef
  <2> QED BY <1>7, <2>1, <2>2
<1>9. Len(u) = n /\ Len(v) = m
  BY <1>4, <1>8, LenProperties
<1>10. \A i \in 1..n : u[i] = v[i]
  <2>1. ASSUME NEW i \in 1..n
        PROVE  u[i] = v[i]
    <3>1. n - i + 1 \in 1..n /\ m - n + (n - i + 1) = m - i + 1 /\ i \in 1..m
      BY <1>2
    <3>2. t[m - i + 1] = s[n - i + 1]
      BY <1>2, <3>1
    <3> QED BY <1>4, <3>1, <3>2
  <2> QED BY <2>1
<1>11. SubSeq(u, 1, n) = SubSeq(v, 1, n)
  <2>1. \A i \in 1..n : u[i] \in S \cup T /\ v[i] \in S \cup T
    BY <1>7, <1>10
  <2>2. PICK a, b : a = SubSeq(u, 1, n) /\ b = SubSeq(v, 1, n)
    OBVIOUS
  <2>3. /\ a \in Seq(S \cup T) /\ Len(a) = (IF 1 <= n THEN n - 1 + 1 ELSE 0)
        /\ \A i \in 1..n - 1 + 1 : a[i] = u[1 + i - 1]
    BY <2>1, <2>2, SubSeqProperties
  <2>4. /\ b \in Seq(S \cup T) /\ Len(b) = (IF 1 <= n THEN n - 1 + 1 ELSE 0)
        /\ \A i \in 1..n - 1 + 1 : b[i] = v[1 + i - 1]
    BY <2>1, <2>2, SubSeqProperties
  <2>5. Len(a) = n /\ Len(b) = n
    BY <2>3, <2>4
  <2>6. \A i \in 1..n : a[i] = b[i]
    <3>1. ASSUME NEW i \in 1..n
          PROVE  a[i] = b[i]
      <4>1. i \in 1..n - 1 + 1 /\ 1 + i - 1 = i
        OBVIOUS
      <4> QED BY <4>1, <2>3, <2>4, <1>10
    <3> QED BY <3>1
  <2>7. a = b
    BY <2>3, <2>4, <2>5, <2>6, SeqEqual
  <2> QED BY <2>2, <2>7
<1> QED BY <1>2, <1>3, <1>9, <1>11 DEF IsSuffix, IsPrefix

LEMMA AppendEndsWith ==
  ASSUME NEW S, NEW s \in Seq(S), NEW x \in S, NEW t, NEW n \in Nat,
         EndsWith(s, t, n), x = t[n + 1]
  PROVE  EndsWith(Append(s, x), t, n + 1)
<1>1. PICK l \in Nat : l = Len(s)
  BY LenProperties
<1>2. PICK a : a = Append(s, x)
  OBVIOUS
<1>3. Len(a) = l + 1 /\ a[l + 1] = x /\ \A i \in 1..l : a[i] = s[i]
  BY <1>1, <1>2, AppendProperties
<1>4. n <= l /\ \A k \in 1..n : s[l - n + k] = t[k]
  BY <1>1 DEF EndsWith
<1>5. ASSUME NEW k \in 1..n + 1
      PROVE  a[l + 1 - (n + 1) + k] = t[k]
  <2>1. CASE k = n + 1
    <3>1. l + 1 - (n + 1) + k = l + 1
      BY <2>1
    <3> QED BY <2>1, <3>1, <1>3
  <2>2. CASE k \in 1..n
    <3>1. l + 1 - (n + 1) + k = l - n + k /\ l - n + k \in 1..l
      BY <1>4, <2>2
    <3> QED BY <2>2, <3>1, <1>3, <1>4
  <2> QED BY <2>1, <2>2
<1>6. n + 1 <= l + 1
  BY <1>4
<1>7. n + 1 <= Len(a) /\ \A k \in 1..n + 1 : a[Len(a) - (n + 1) + k] = t[k]
  <2>1. Len(a) = l + 1
    BY <1>3
  <2> QED BY <2>1, <1>5, <1>6
<1> QED BY <1>2, <1>7 DEF EndsWith

Noted(c, q) ==
  /\ q.cmd = "IFCONFIG" => mLocalIP = q.arg
  /\ q.cmd = "IFCONFIG6" => mLocalIPv6 = q.arg
  /\ q.cmd = "ROUTE" /\ c.ip # None => q.arg.net \in Nets(mRoutes)
  /\ q.cmd = "DNSDOMAIN" => mDomain # None

(* A query is noted, and what was noted before stays.                      *)
LEMMA NotingStep ==
  ASSUME NEW c \in Configs, NEW q \in Query(c),
         \/ q.cmd = "IFCONFIG" /\ SetLocalIP(q.arg)
         \/ q.cmd = "IFCONFIG6" /\ SetLocalIPv6(q.arg)
         \/ q.cmd = "ROUTE" /\ AddRoute(q.arg)
         \/ q.cmd = "DNSSERVER" /\ AddDNS(q.arg)
         \/ q.cmd = "DNSDOMAIN" /\ SetDomain(q.arg)
         \/ q.cmd = "PERSIST_TUN_ACTION" /\ GetTunReopenStatus,
         q.cmd = "ROUTE" /\ c.ip # None => mLocalIP # None
  PROVE  /\ Noted(c, q)'
         /\ \A p \in Query(c) : Noted(c, p) => Noted(c, p)'
         /\ mLastTunCfg' = mLastTunCfg
         /\ q.cmd = "DNSSERVER" => mDnslist' = Append(mDnslist, q.arg)
         /\ q.cmd # "DNSSERVER" => mDnslist' = mDnslist
         /\ q.cmd = "PERSIST_TUN_ACTION" =>
              /\ UNCHANGED service
              /\ answer'.status = "NOACTION" => TunConfigOf(mRoutes) = mLastTunCfg
<1>1. CASE q.cmd = "IFCONFIG" /\ SetLocalIP(q.arg)
  <2>1. Nets(mRoutes) \subseteq Nets(mRoutes')
    <3>1. mRoutes' = mRoutes \/ mRoutes' = AddIP(mRoutes, q.arg, TRUE)
      BY <1>1 DEF SetLocalIP
    <3>2. Nets(AddIP(mRoutes, q.arg, TRUE)) = Nets(mRoutes) \cup {q.arg}
      BY AddIPNets
    <3> QED BY <3>1, <3>2
  <2>2. \A p \in Query(c) : p.cmd = "IFCONFIG" => p.arg = c.ip
    BY QueryCommand
  <2>3. q.arg = c.ip
    BY <1>1, <2>2
  <2> QED BY <1>1, <2>1, <2>2, <2>3 DEF SetLocalIP, Noted
<1>2. CASE q.cmd = "IFCONFIG6" /\ SetLocalIPv6(q.arg)
  <2>1. q.arg = c.ip6 /\ \A p \in Query(c) : p.cmd = "IFCONFIG6" => p.arg = c.ip6
    BY <1>2, QueryCommand
  <2> QED BY <1>2, <2>1 DEF SetLocalIPv6, Noted
<1>3. CASE q.cmd = "ROUTE" /\ AddRoute(q.arg)
  <2>1. /\ Nets(mRoutes) \subseteq Nets(mRoutes')
        /\ c.ip # None => q.arg.net \in Nets(mRoutes')
    BY <1>3, AddIPNets DEF AddRoute
  <2> QED BY <1>3, <2>1 DEF AddRoute, Noted
<1>4. CASE q.cmd = "DNSSERVER" /\ AddDNS(q.arg)
  BY <1>4 DEF AddDNS, Noted
<1>5. CASE q.cmd = "DNSDOMAIN" /\ SetDomain(q.arg)
  <2>1. q.arg # None
    BY <1>5, QueryCommand
  <2> QED BY <1>5, <2>1 DEF SetDomain, Noted
<1>6. CASE q.cmd = "PERSIST_TUN_ACTION" /\ GetTunReopenStatus
  <2>1. UNCHANGED service
    BY <1>6 DEF GetTunReopenStatus
  <2>2. answer'.status = "NOACTION" => TunConfigOf(mRoutes) = mLastTunCfg
    BY <1>6 DEF GetTunReopenStatus, Reply
  <2> QED BY <1>6, <2>1, <2>2 DEF Noted, service, config
<1> QED BY <1>1, <1>2, <1>3, <1>4, <1>5, <1>6

-------------------------------------------------------------------------------
(* The setup without a signal, query by query.  Answered counts the        *)
(* queries that the service has handled; the fields cover them, whatever   *)
(* was left in them before.                                                *)
Answered == Len(Queries(pushed)) - Len(todo) + (IF waiting /\ inbox = <<>> THEN 1 ELSE 0)

DnsAnswered(c, n) ==
  IF n < Before(c) THEN 0
  ELSE IF n > Before(c) + Len(c.dns) THEN Len(c.dns) ELSE n - Before(c)

GatheredUpTo(c, n) ==
  /\ \A k \in 1..n : Noted(c, Queries(c)[k])
  /\ EndsWith(mDnslist, c.dns, DnsAnswered(c, n))

(* openTun has emptied the fields.                                         *)
Opened == waiting /\ inbox = <<>> /\ Head(todo).cmd = "OPENTUN"

Gathered == phase = "setup" /\ ~sig /\ ~Opened => GatheredUpTo(pushed, Answered)

CoversTun(c, tun) ==
  /\ tun # NoTun
  /\ c.ip # None => tun.ip = c.ip
  /\ c.ip6 # None => tun.ip6 = c.ip6
  /\ IsSuffix(c.dns, tun.dns)
  /\ c.ip # None => \A r \in ToSet(c.routes) : r.net \in Nets(tun.routes)
  /\ c.domain # None => tun.domain # None

(* The answers that open_tun looks at are right.                           *)
AnswerFits ==
  phase = "setup" /\ ~sig /\ waiting /\ inbox = <<>> =>
    /\ Head(todo).cmd = "PERSIST_TUN_ACTION" /\ answer.status = "NOACTION" =>
         TunConfigOf(mRoutes) = mLastTunCfg
    /\ Head(todo).cmd = "OPENTUN" /\ answer.status = "ok" =>
         answer.tun = mLastTunCfg /\ CoversTun(pushed, answer.tun)

(* The tun that openvpn holds is the one the service remembers, until      *)
(* another one is asked for.                                               *)
Held ==
  /\ phase = "dead" => fd = NoTun
  /\ fd # NoTun => \/ fd = mLastTunCfg
                   \/ phase = "setup" /\ (sig \/ Head(todo).cmd = "OPENTUN")

CoverInv ==
  /\ TypeInv /\ Gathered /\ AnswerFits /\ Held
  /\ phase = "up" => CoversTun(pushed, fd)

(* What is gathered when all queries but the last one are answered is a    *)
(* tun for them.                                                           *)
LEMMA AllGathered ==
  ASSUME NEW c \in Configs, NEW n \in Nat, n >= Len(Queries(c)) - 1, GatheredUpTo(c, n),
         NEW R, mRoutes \subseteq R, TunConfigOf(R) \in Tun
  PROVE  CoversTun(c, TunConfigOf(R))
<1>1. PICK Q : Q = Queries(c)
  OBVIOUS
<1>2. /\ Len(c.dns) \in Nat /\ Before(c) \in Nat
      /\ Len(Q) \in Nat /\ Len(Q) > Before(c) + Len(c.dns)
      /\ Q[Len(Q)] = [cmd |-> "PERSIST_TUN_ACTION", arg |-> None]
  BY <1>1, QueriesInOrder
<1>3. ASSUME NEW k \in 1..Len(Q), Q[k].cmd # "PERSIST_TUN_ACTION"
      PROVE  Noted(c, Q[k])
  <2>1. k # Len(Q)
    BY <1>2, <1>3
  <2>2. k \in 1..n
    BY <1>1, <1>2, <2>1
  <2> QED BY <1>1, <2>2 DEF GatheredUpTo
<1>4. PICK t : t = TunConfigOf(R)
  OBVIOUS
<1>5. t.ip = mLocalIP /\ t.ip6 = mLocalIPv6 /\ t.routes = R /\ t.dns = mDnslist
      /\ t.domain = mDomain
  BY <1>4 DEF TunConfigOf
<1>6. t # NoTun
  BY <1>4, TunAssumption
<1>7. c.ip # None => mLocalIP = c.ip
  <2> SUFFICES ASSUME c.ip # None
               PROVE  mLocalIP = c.ip
    OBVIOUS
  <2>1. Q[1] = [cmd |-> "IFCONFIG", arg |-> c.ip]
    BY <1>1, QueriesInOrder
  <2>2. 1 \in 1..Len(Q)
    BY <1>2
  <2> QED BY <2>1, <2>2, <1>3 DEF Noted
<1>8. c.ip6 # None => mLocalIPv6 = c.ip6
  <2> SUFFICES ASSUME c.ip6 # None
               PROVE  mLocalIPv6 = c.ip6
    OBVIOUS
  <2>1. PICK k \in 1..Len(Q) : Q[k] = [cmd |-> "IFCONFIG6", arg |-> c.ip6]
    BY <1>1, QueriesInOrder
  <2> QED BY <2>1, <1>3 DEF Noted
<1>9. ASSUME c.ip # None, NEW r \in ToSet(c.routes)
      PROVE  r.net \in Nets(R)
  <2>1. PICK k \in 1..Len(Q) : Q[k] = [cmd |-> "ROUTE", arg |-> r]
    BY <1>1, QueriesInOrder
  <2>2. r.net \in Nets(mRoutes)
    BY <2>1, <1>3, <1>9 DEF Noted
  <2> QED BY <2>2 DEF Nets
<1>10. c.domain # None => mDomain # None
  <2> SUFFICES ASSUME c.domain # None
               PROVE  mDomain # None
    OBVIOUS
  <2>1. PICK k \in 1..Len(Q) : Q[k] = [cmd |-> "DNSDOMAIN", arg |-> c.domain]
    BY <1>1, QueriesInOrder
  <2> QED BY <2>1, <1>3 DEF Noted
<1>11. IsSuffix(c.dns, mDnslist)
  <2>1. DnsAnswered(c, n) = Len(c.dns)
    BY <1>1, <1>2 DEF DnsAnswered
  <2>2. EndsWith(mDnslist, c.dns, Len(c.dns))
    BY <2>1 DEF GatheredUpTo
  <2>3. c.dns \in Seq(ToSet(c.dns)) /\ mDnslist \in Seq(UNION {ToSet(d.dns) : d \in Configs})
    BY TunFields, TunAssumption DEF TunConfigOf
  <2> QED BY <2>2, <2>3, EndsWithIsSuffix
<1> QED BY <1>4, <1>5, <1>6, <1>7, <1>8, <1>9, <1>10, <1>11 DEF CoversTun

LEMMA NothingGathered ==
  ASSUME TypeOK, NEW c \in Configs
  PROVE  GatheredUpTo(c, 0)
<1>1. Before(c) \in Nat /\ Len(c.dns) \in Nat
  BY QueriesInOrder
<1>2. DnsAnswered(c, 0) = 0
  BY <1>1 DEF DnsAnswered
<1>3. Len(mDnslist) \in Nat
  BY TunFields, LenProperties DEF TypeOK, TunConfigOf
<1> QED BY <1>2, <1>3 DEF GatheredUpTo, EndsWith

(* One more query is handled.                                              *)
LEMMA GatherOne ==
  ASSUME TypeOK, NEW c \in Configs, NEW n \in Nat, n + 1 \in 1..Len(Queries(c)),
         GatheredUpTo(c, n), NEW q, q = Queries(c)[n + 1],
         \/ q.cmd = "IFCONFIG" /\ SetLocalIP(q.arg)
         \/ q.cmd = "IFCONFIG6" /\ SetLocalIPv6(q.arg)
         \/ q.cmd = "ROUTE" /\ AddRoute(q.arg)
         \/ q.cmd = "DNSSERVER" /\ AddDNS(q.arg)
         \/ q.cmd = "DNSDOMAIN" /\ SetDomain(q.arg)
         \/ q.cmd = "PERSIST_TUN_ACTION" /\ GetTunReopenStatus
  PROVE  /\ GatheredUpTo(c, n + 1)'
         /\ mLastTunCfg' = mLastTunCfg
         /\ q.cmd = "PERSIST_TUN_ACTION" =>
              /\ UNCHANGED service
              /\ answer'.status = "NOACTION" => TunConfigOf(mRoutes) = mLastTunCfg
<1>1. PICK Q : Q = Queries(c)
  OBVIOUS
<1>2. /\ Q \in Seq(Query(c)) /\ Len(Q) \in Nat
      /\ Len(c.dns) \in Nat /\ Before(c) \in Nat
      /\ c.ip # None => Q[1] = [cmd |-> "IFCONFIG", arg |-> c.ip]
      /\ \A k \in 1..Len(c.dns) :
           Q[Before(c) + k] = [cmd |-> "DNSSERVER", arg |-> c.dns[k]]
      /\ \A k \in 1..Len(Q) :
           Q[k].cmd = "DNSSERVER" => k \in Before(c) + 1 .. Before(c) + Len(c.dns)
  BY <1>1, QueriesInOrder
<1>3. \A k \in 1..Len(Q) : Q[k] \in Query(c)
  BY <1>2, ElementOfSeq
<1>4. q = Q[n + 1] /\ q \in Query(c) /\ n + 1 \in 1..Len(Q)
  BY <1>1, <1>3
<1>5. \A k \in 1..n : Noted(c, Q[k])
  BY <1>1 DEF GatheredUpTo
<1>6. q.cmd = "ROUTE" /\ c.ip # None => mLocalIP # None
  <2> SUFFICES ASSUME q.cmd = "ROUTE", c.ip # None
               PROVE  mLocalIP # None
    OBVIOUS
  <2>1. Q[1] = [cmd |-> "IFCONFIG", arg |-> c.ip]
    BY <1>2
  <2>2. n # 0
    BY <1>4, <2>1
  <2>3. Noted(c, Q[1])
    BY <1>5, <2>2
  <2> QED BY <2>1, <2>3 DEF Noted
<1>7. /\ Noted(c, q)'
      /\ \A p \in Query(c) : Noted(c, p) => Noted(c, p)'
      /\ mLastTunCfg' = mLastTunCfg
      /\ q.cmd = "DNSSERVER" => mDnslist' = Append(mDnslist, q.arg)
      /\ q.cmd # "DNSSERVER" => mDnslist' = mDnslist
      /\ q.cmd = "PERSIST_TUN_ACTION" =>
           /\ UNCHANGED service
           /\ answer'.status = "NOACTION" => TunConfigOf(mRoutes) = mLastTunCfg
  BY <1>4, <1>6, NotingStep
<1>8. ASSUME NEW k \in 1..n + 1
      PROVE  Noted(c, Q[k])'
  <2>1. CASE k = n + 1
    <3>1. Q[k] = q
      BY <2>1, <1>4
    <3> QED BY <3>1, <1>7 DEF Noted
  <2>2. CASE k \in 1..n
    <3>1. k \in 1..Len(Q)
      BY <2>2, <1>4
    <3>2. PICK p \in Query(c) : p = Q[k]
      BY <3>1, <1>3
    <3>3. Noted(c, p)
      BY <2>2, <3>2, <1>5
    <3>4. Noted(c, p)'
      BY <3>3, <1>7
    <3> QED BY <3>2, <3>4 DEF Noted
  <2> QED BY <2>1, <2>2
<1>9. EndsWith(mDnslist', c.dns, DnsAnswered(c, n + 1))
  <2>1. PICK b \in Nat, d \in Nat : b = Before(c) /\ d = Len(c.dns)
    BY <1>2
  <2>2. EndsWith(mDnslist, c.dns, DnsAnswered(c, n))
    BY DEF GatheredUpTo
  <2>3. CASE n + 1 \in b + 1 .. b + d
    <3>1. n - b \in Nat /\ n - b + 1 \in 1..d /\ b + (n - b + 1) = n + 1
      BY <2>3
    <3>2. q = [cmd |-> "DNSSERVER", arg |-> c.dns[n - b + 1]]
      BY <1>2, <1>4, <2>1, <3>1
    <3>3. DnsAnswered(c, n) = n - b /\ DnsAnswered(c, n + 1) = n - b + 1
      BY <2>1, <2>3, <3>1 DEF DnsAnswered
    <3>4. mDnslist' = Append(mDnslist, c.dns[n - b + 1])
      BY <1>7, <3>2
    <3>5. c.dns[n - b + 1] \in ToSet(c.dns)
      <4>1. DOMAIN c.dns = 1..d
        BY <2>1, LenProperties, TunAssumption
      <4> QED BY <3>1, <4>1 DEF ToSet
    <3>6. c.dns[n - b + 1] \in UNION {ToSet(e.dns) : e \in Configs}
      BY <3>5
    <3>7. mDnslist \in Seq(UNION {ToSet(e.dns) : e \in Configs})
      BY TunFields DEF TypeOK, TunConfigOf
    <3>8. PICK m \in Nat : m = n - b
      BY <3>1
    <3>9. EndsWith(mDnslist, c.dns, m)
      BY <2>2, <3>3, <3>8
    <3>10. EndsWith(Append(mDnslist, c.dns[m + 1]), c.dns, m + 1)
      BY <3>6, <3>7, <3>8, <3>9, AppendEndsWith
    <3> QED BY <3>3, <3>4, <3>8, <3>10
  <2>4. CASE n + 1 \notin b + 1 .. b + d
    <3>1. q.cmd # "DNSSERVER"
      BY <1>2, <1>4, <2>1, <2>4
    <3>2. DnsAnswered(c, n + 1) = DnsAnswered(c, n)
      BY <2>1, <2>4 DEF DnsAnswered
    <3> QED BY <1>7, <2>2, <3>1, <3>2
  <2> QED BY <2>3, <2>4
<1>10. GatheredUpTo(c, n + 1)'
  BY <1>1, <1>8, <1>9 DEF GatheredUpTo
<1> QED BY <1>7, <1>10

LEMMA OpenTunCovers ==
  ASSUME TypeOK, NEW c \in Configs, NEW n \in Nat, n >= Len(Queries(c)) - 1,
         GatheredUpTo(c, n), OpenTun, answer'.status = "ok"
  PROVE  answer'.tun = mLastTunCfg' /\ CoversTun(c, answer'.tun)
<1>1. ~Reply("cancel")
  BY DEF Reply
<1>2. ~(mLocalIP = None /\ mLocalIPv6 = None)
  BY <1>1 DEF OpenTun
<1>3. PICK added, R :
        /\ added \in SUBSET LocalNetworks
        /\ R = mRoutes \cup {[net |-> n1, included |-> FALSE] : n1 \in added}
        /\ answer' = [status |-> "ok", tun |-> TunConfigOf(R)] \/ Reply("cancel")
        /\ mLastTunCfg' = TunConfigOf(R)
  <2>1. PICK added, routes, cfg : Opening(added, routes, cfg)
    BY <1>2, OpenTunIs
  <2> QED BY <1>1, <2>1 DEF Opening, Refused, Used
<1>4. answer'.tun = TunConfigOf(R)
  BY <1>1, <1>3
<1>5. TunConfigOf(R) \in Tun
  <2>1. mRoutes \subseteq [net : Network, included : BOOLEAN]
    BY TunFields DEF TypeOK, TunConfigOf
  <2>2. added \subseteq Network
    BY <1>3 DEF Network
  <2>3. R \subseteq [net : Network, included : BOOLEAN]
    <3>1. \A k \in added : [net |-> k, included |-> FALSE] \in [net : Network, included : BOOLEAN]
      BY <2>2
    <3>2. \A r \in R : r \in mRoutes \/ \E k \in added : r = [net |-> k, included |-> FALSE]
      BY <1>3
    <3> QED BY <2>1, <3>1, <3>2
  <2> QED BY <2>3, TunFields DEF TypeOK, TunConfigOf
<1> QED BY <1>3, <1>4, <1>5, AllGathered

LEMMA GatheredKept ==
  ASSUME NEW c, NEW n, GatheredUpTo(c, n), UNCHANGED service
  PROVE  GatheredUpTo(c, n)'
BY DEF GatheredUpTo, Noted, service, config

LEMMA CoverInit == Init => CoverInv
BY TypeInit DEF Init, NoConfig, CoverInv, Gathered, AnswerFits, Held

LEMMA CoverOthers ==
  ASSUME CoverInv, TypeInv', StartProcess \/ Signal \/ Restart \/ Die
  PROVE  CoverInv'
<1>1. CASE StartProcess
  BY <1>1 DEF StartProcess, CoverInv, Gathered, AnswerFits, Held
<1>2. CASE Signal
  BY <1>2 DEF Signal, CoverInv, Gathered, AnswerFits, Held, service
<1>3. CASE Restart
  BY <1>3 DEF Restart, CoverInv, Gathered, AnswerFits, Held, service
<1>4. CASE Die
  BY <1>4 DEF Die, CoverInv, Gathered, AnswerFits, Held, service
<1> QED BY <1>1, <1>2, <1>3, <1>4

LEMMA CoverDoOpenTun ==
  ASSUME CoverInv, TypeInv', DoOpenTun
  PROVE  CoverInv'
<1>1. /\ phase = "hold" /\ phase' = "setup"
      /\ UNCHANGED <<waiting, sig, fd, inbox, answer, service>>
      /\ pushed' \in Configs /\ todo' = Queries(pushed')
  BY DEF DoOpenTun
<1>2. ~waiting
  BY <1>1 DEF CoverInv, TypeInv, TypeOK
<1>3. PICK c \in Configs : c = pushed'
  BY <1>1
<1>4. Len(Queries(c)) \in Nat
  BY QueriesInOrder
<1>5. Answered' = 0
  BY <1>1, <1>2, <1>3, <1>4 DEF Answered
<1>6. GatheredUpTo(c, 0)
  BY NothingGathered DEF CoverInv, TypeInv
<1>7. GatheredUpTo(c, 0)'
  BY <1>1, <1>6, GatheredKept
<1>8. Gathered'
  BY <1>3, <1>5, <1>7 DEF Gathered, GatheredUpTo, Noted
<1>9. AnswerFits' /\ Held'
  BY <1>1, <1>2 DEF AnswerFits, Held, CoverInv, service
<1> QED BY <1>1, <1>8, <1>9 DEF CoverInv

LEMMA CoverSend ==
  ASSUME CoverInv, TypeInv', Send
  PROVE  CoverInv'
<1>1. /\ phase = "setup" /\ ~waiting /\ waiting' = TRUE /\ answer' = None
      /\ inbox' = Append(inbox, Head(todo))
      /\ UNCHANGED <<phase, pushed, todo, sig, fd, setups, service>>
  BY DEF Send
<1>2. inbox' # <<>>
  <2>1. Head(todo) \in AnyQuery
    BY <1>1, RestProperties DEF CoverInv, TypeInv, TypeOK, Asking
  <2>2. Append(inbox, Head(todo)) # <<>>
    BY <2>1, AppendProperties DEF CoverInv, TypeInv, TypeOK
  <2> QED BY <1>1, <2>2
<1>3. PICK c, n : c = pushed /\ n = Answered
  OBVIOUS
<1>4. Answered' = n /\ pushed' = c
  BY <1>1, <1>2, <1>3 DEF Answered
<1>5. ~sig => GatheredUpTo(c, n)
  BY <1>1, <1>3 DEF CoverInv, Gathered, Opened
<1>6. ~sig => GatheredUpTo(c, n)'
  BY <1>1, <1>5, GatheredKept
<1>7. Gathered'
  BY <1>1, <1>4, <1>6 DEF Gathered, GatheredUpTo, Noted
<1>8. AnswerFits' /\ Held'
  BY <1>1, <1>2 DEF AnswerFits, Held, CoverInv, service
<1> QED BY <1>1, <1>7, <1>8 DEF CoverInv

LEMMA CoverReceive ==
  ASSUME CoverInv, TypeInv', Receive
  PROVE  CoverInv'
<1>1. /\ phase = "setup" /\ waiting /\ ~sig /\ answer # None /\ waiting' = FALSE
      /\ Continue(Head(todo), answer.status)
      /\ UNCHANGED <<pushed, sig, setups, inbox, answer, service>>
  BY DEF Receive
<1>2. PICK c \in Configs : c = pushed
  BY <1>1 DEF CoverInv, TypeInv, Asking
<1>3. /\ todo \in Seq(AnyQuery) /\ IsRest(c, todo) /\ inbox = <<>>
      /\ Head(todo).cmd = "OPENTUN" => answer.status \in {"ok", "cancel"}
  BY <1>1, <1>2 DEF CoverInv, TypeInv, TypeOK, Asking, Quiet
<1>4. PICK m \in Nat, l \in Nat : m = Len(Queries(c)) /\ l = Len(todo)
  BY <1>3, QueriesInOrder, LenProperties
<1>5. Answered = m - l + 1
  BY <1>1, <1>2, <1>3, <1>4 DEF Answered
<1>6. Head(todo).cmd # "OPENTUN" => GatheredUpTo(c, m - l + 1) /\ l \in 1..m
  BY <1>1, <1>2, <1>3, <1>4, <1>5, RestProperties DEF CoverInv, Gathered, Opened
<1>7. AnswerFits' /\ pushed' = c
  BY <1>1, <1>2 DEF AnswerFits
<1>8. CASE /\ Head(todo).cmd = "PERSIST_TUN_ACTION" /\ answer.status = "NOACTION" /\ fd # NoTun
           /\ phase' = "up" /\ todo' = <<>> /\ fd' = fd
  <2>1. fd = mLastTunCfg /\ TunConfigOf(mRoutes) = mLastTunCfg
    BY <1>1, <1>3, <1>8 DEF CoverInv, Held, AnswerFits
  <2>2. l = 1
    BY <1>3, <1>4, <1>8, RestProperties
  <2>3. GatheredUpTo(c, m) /\ m >= Len(Queries(c)) - 1
    BY <1>4, <1>6, <1>8, <2>2
  <2>4. TunConfigOf(mRoutes) \in Tun
    BY DEF CoverInv, TypeInv, TypeOK
  <2>5. CoversTun(c, fd)
    BY <2>1, <2>3, <2>4, AllGathered
  <2>6. CoversTun(pushed, fd)'
    BY <1>7, <1>8, <2>5 DEF CoversTun
  <2> QED BY <1>1, <1>7, <1>8, <2>1, <2>6 DEF CoverInv, Gathered, Held, service
<1>9. CASE /\ Head(todo).cmd = "PERSIST_TUN_ACTION"
           /\ todo' = <<OpenTunQuery>> /\ phase' = phase /\ fd' = fd
  <2>1. l = 1
    BY <1>3, <1>4, <1>9, RestProperties
  <2>2. GatheredUpTo(c, m) /\ m >= 1
    BY <1>6, <1>9, <2>1
  <2>3. GatheredUpTo(c, m - 1)
    <3>1. Before(c) \in Nat /\ Len(c.dns) \in Nat /\ m > Before(c) + Len(c.dns)
      BY <1>4, QueriesInOrder
    <3>2. DnsAnswered(c, m) = Len(c.dns) /\ DnsAnswered(c, m - 1) = Len(c.dns)
      BY <3>1 DEF DnsAnswered
    <3> QED BY <2>2, <3>2 DEF GatheredUpTo
  <2>4. Answered' = m - 1
    <3>1. Len(todo') = 1
      BY <1>9, OneElement
    <3> QED BY <1>1, <1>4, <1>7, <3>1 DEF Answered
  <2>5. GatheredUpTo(c, m - 1)'
    BY <1>1, <2>3, GatheredKept
  <2>6. Gathered'
    BY <1>7, <2>4, <2>5 DEF Gathered, GatheredUpTo, Noted
  <2>7. Head(todo').cmd = "OPENTUN"
    BY <1>9, OneElement, OpenTunIsQuery
  <2>8. Held'
    BY <1>1, <1>9, <2>7 DEF Held
  <2> QED BY <1>1, <1>7, <1>9, <2>6, <2>8 DEF CoverInv
<1>10. CASE /\ Head(todo).cmd = "OPENTUN" /\ answer.status = "ok"
            /\ phase' = "up" /\ todo' = <<>> /\ fd' = answer.tun
  <2>1. answer.tun = mLastTunCfg /\ CoversTun(c, answer.tun)
    BY <1>1, <1>2, <1>3, <1>10 DEF CoverInv, AnswerFits
  <2>2. CoversTun(pushed, fd)'
    BY <1>7, <1>10, <2>1 DEF CoversTun
  <2> QED BY <1>1, <1>7, <1>10, <2>1, <2>2 DEF CoverInv, Gathered, Held, service
<1>11. CASE phase' = "dead" /\ todo' = <<>> /\ fd' = NoTun
  BY <1>7, <1>11 DEF CoverInv, Gathered, Held
<1>12. CASE /\ Head(todo).cmd \notin {"PERSIST_TUN_ACTION", "OPENTUN"}
            /\ todo' = Tail(todo) /\ phase' = phase /\ fd' = fd
  <2>1. Len(todo') = l - 1
    BY <1>3, <1>4, <1>12, RestProperties
  <2>2. Answered' = m - l + 1
    BY <1>1, <1>4, <1>7, <2>1 DEF Answered
  <2>3. GatheredUpTo(c, m - l + 1)'
    BY <1>1, <1>6, <1>12, GatheredKept
  <2>4. Gathered'
    BY <1>7, <2>2, <2>3 DEF Gathered, GatheredUpTo, Noted
  <2>5. Held'
    BY <1>1, <1>12 DEF CoverInv, Held, service
  <2> QED BY <1>1, <1>7, <1>12, <2>4, <2>5 DEF CoverInv
<1> QED BY <1>1, <1>3, <1>8, <1>9, <1>10, <1>11, <1>12, ContinueCases

LEMMA CoverInterrupted ==
  ASSUME CoverInv, TypeInv', Interrupted
  PROVE  CoverInv'
<1>1. /\ phase = "setup" /\ sig /\ waiting' = FALSE
      /\ UNCHANGED <<pushed, sig, setups, inbox, answer, service>>
      /\ \/ phase' = "dead" /\ fd' = NoTun
         \/ phase' = "setup" /\ fd' = fd
  BY DEF Interrupted
<1> QED BY <1>1 DEF CoverInv, Gathered, AnswerFits, Held

LEMMA CoverNeedCommand ==
  ASSUME CoverInv, TypeInv', ProcessNeedCommand
  PROVE  CoverInv'
<1>1. /\ inbox # <<>> /\ inbox' = Tail(inbox)
      /\ UNCHANGED <<phase, pushed, todo, waiting, sig, fd, setups>>
  BY DEF ProcessNeedCommand, openvpn
<1>2. CASE phase # "setup" \/ sig
  <2>1. phase \notin {"hold", "up"}
    BY <1>1 DEF CoverInv, TypeInv, Quiet
  <2>2. (phase = "setup" /\ sig) \/ phase = "dead"
    BY <1>2, <2>1 DEF CoverInv, TypeInv, TypeOK
  <2> QED BY <1>1, <2>2 DEF CoverInv, Gathered, AnswerFits, Held
<1>3. CASE phase = "setup" /\ ~sig
  <2>1. waiting /\ inbox = <<Head(todo)>>
    BY <1>1, <1>3 DEF CoverInv, TypeInv, Quiet
  <2>2. Head(inbox) = Head(todo) /\ inbox' = <<>>
    BY <1>1, <2>1, OneElement
  <2>3. PICK c \in Configs : c = pushed
    BY <1>3 DEF CoverInv, TypeInv, Asking
  <2>4. todo \in Seq(AnyQuery) /\ IsRest(c, todo)
    BY <1>3, <2>3 DEF CoverInv, TypeInv, TypeOK, Asking
  <2>5. PICK m \in Nat, l \in Nat : m = Len(Queries(c)) /\ l = Len(todo)
    BY <2>4, QueriesInOrder, LenProperties
  <2>6. Answered = m - l /\ Answered' = m - l + 1
    <3>1. inbox # <<>>
      BY <1>1
    <3> QED BY <1>1, <2>1, <2>2, <2>3, <2>5, <3>1 DEF Answered
  <2>7. GatheredUpTo(c, m - l)
    BY <1>1, <1>3, <2>3, <2>6 DEF CoverInv, Gathered, Opened
  <2>8. CASE Head(todo).cmd = "OPENTUN"
    <3>1. OpenTun
      BY <2>2, <2>8 DEF ProcessNeedCommand
    <3>2. l = 1 /\ m >= 1
      <4>1. todo = <<OpenTunQuery>>
        BY <2>4, <2>8, RestProperties
      <4>2. l = 1
        BY <2>5, <4>1, OneElement
      <4>3. Before(c) \in Nat /\ Len(c.dns) \in Nat /\ m > Before(c) + Len(c.dns)
        BY <2>5, QueriesInOrder
      <4> QED BY <4>2, <4>3
    <3>3. m - l \in Nat /\ m - l >= Len(Queries(c)) - 1
      BY <2>5, <3>2
    <3>4. answer'.status = "ok" => answer'.tun = mLastTunCfg' /\ CoversTun(c, answer'.tun)
      BY <2>7, <3>1, <3>3, OpenTunCovers DEF CoverInv, TypeInv
    <3>5. answer'.status = "ok" => CoversTun(pushed, answer.tun)'
      BY <1>1, <2>3, <3>4 DEF CoversTun
    <3>6. AnswerFits'
      BY <1>1, <2>8, <3>4, <3>5 DEF AnswerFits
    <3>7. Gathered' /\ Held'
      BY <1>1, <1>3, <2>1, <2>2, <2>8 DEF CoverInv, Gathered, Opened, Held
    <3> QED BY <1>1, <1>3, <3>6, <3>7 DEF CoverInv
  <2>9. CASE Head(todo).cmd # "OPENTUN"
    <3>1. PICK q : q = Head(todo)
      OBVIOUS
    <3>2. l \in 1..m /\ q = Queries(c)[m - l + 1]
      BY <2>4, <2>5, <2>9, <3>1, RestProperties
    <3>3. \/ q.cmd = "IFCONFIG" /\ SetLocalIP(q.arg)
          \/ q.cmd = "IFCONFIG6" /\ SetLocalIPv6(q.arg)
          \/ q.cmd = "ROUTE" /\ AddRoute(q.arg)
          \/ q.cmd = "DNSSERVER" /\ AddDNS(q.arg)
          \/ q.cmd = "DNSDOMAIN" /\ SetDomain(q.arg)
          \/ q.cmd = "PERSIST_TUN_ACTION" /\ GetTunReopenStatus
      BY <2>2, <2>9, <3>1 DEF ProcessNeedCommand
    <3>4. PICK n \in Nat : n = m - l
      BY <3>2
    <3>5. /\ GatheredUpTo(c, n + 1)'
          /\ mLastTunCfg' = mLastTunCfg
          /\ q.cmd = "PERSIST_TUN_ACTION" =>
               /\ UNCHANGED service
               /\ answer'.status = "NOACTION" => TunConfigOf(mRoutes) = mLastTunCfg
      <4>1. n + 1 \in 1..Len(Queries(c)) /\ GatheredUpTo(c, n) /\ q = Queries(c)[n + 1]
        BY <2>5, <2>7, <3>2, <3>4
      <4>2. TypeOK
        BY DEF CoverInv, TypeInv
      <4> QED BY <4>1, <4>2, <3>3, GatherOne
    <3>6. Gathered'
      BY <1>1, <2>3, <2>6, <3>4, <3>5 DEF Gathered, GatheredUpTo, Noted
    <3>7. AnswerFits'
      BY <1>1, <2>9, <3>1, <3>5 DEF AnswerFits, TunConfigOf, service, config
    <3>8. Held'
      BY <1>1, <3>5 DEF CoverInv, Held
    <3> QED BY <1>1, <1>3, <3>6, <3>7, <3>8 DEF CoverInv
  <2> QED BY <2>8, <2>9
<1> QED BY <1>2, <1>3

(* A connected process holds a tun that covers what was pushed last,       *)
(* whatever was left of earlier setups in the fields of OpenVPNService,    *)
(* and whether the tun was opened or kept: open_tun with ROUTE, DNSSERVER, *)
(* PERSIST_TUN_ACTION and OPENTUN.                                         *)
THEOREM TunAlwaysCovers == Spec => []TunCoversPushed
<1>1. Init => CoverInv
  BY CoverInit
<1>2. CoverInv /\ [Next]_vars => CoverInv'
  <2> SUFFICES ASSUME CoverInv, [Next]_vars
               PROVE  CoverInv'
    OBVIOUS
  <2>1. TypeInv'
    <3>1. CASE UNCHANGED vars
      BY <3>1 DEF vars, openvpn, service, config, CoverInv, TypeInv, TypeOK, TunConfigOf,
                  Asking, Quiet
    <3> QED BY <3>1, StartProcessTypes, DoOpenTunTypes, SendTypes, ReceiveTypes,
               InterruptedTypes, ProcessTypes, NeedCommandTypes DEF CoverInv, Next, Setup
  <2>2. CASE UNCHANGED vars
    <3>1. UNCHANGED <<phase, pushed, todo, waiting, sig, fd, inbox, answer, service>>
      BY <2>2 DEF vars, openvpn
    <3> QED BY <2>1, <3>1 DEF service, config, CoverInv, Gathered, GatheredUpTo, Noted,
               Answered, Opened, AnswerFits, Held, CoversTun, TunConfigOf
  <2> QED BY <2>1, <2>2, CoverOthers, CoverDoOpenTun, CoverSend, CoverReceive,
             CoverInterrupted, CoverNeedCommand DEF Next, Setup
<1>3. CoverInv => TunCoversPushed
  BY DEF CoverInv, CoversTun, TunCoversPushed
<1> QED BY <1>1, <1>2, <1>3, PTL DEF Spec
====
