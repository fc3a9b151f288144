-------------------------- MODULE StatusFeed_proofs ---------------------------
(***************************************************************************)
(* Theorems about what a client of the VPN's service is told, for either   *)
(* kind of client and any number of updates, lines, calls and crashes.     *)
(***************************************************************************)
EXTENDS StatusFeed, TLAPS

-------------------------------------------------------------------------------
(* Queues of messages.                                                     *)
IsState(m) == m[1] = "state"

(* A client of the app that shows CONNECTED ignores WAIT, but not after it *)
(* has seen a state that is sure to take CONNECTED's place.                *)
Connected(m) == IsState(m) /\ m[2][2] = "CONNECTED"
Sure(m) == IsState(m) /\ m[2][1] # "WAIT" /\ m[2][2] # "CONNECTED"

HasSure(q) == \E j \in 1..Len(q) : Sure(q[j])
Followed(q) == \A i \in 1..Len(q) : Connected(q[i]) => \E j \in i+1..Len(q) : Sure(q[j])

(* The last state in the queue, if there is one, is s.                     *)
LastIs(q, s) ==
  StatePending(q) => \E j \in 1..Len(q) : /\ q[j] = <<"state", Whole(s)>>
                                          /\ \A k \in j+1..Len(q) : ~IsState(q[k])

LEMMA TailOf ==
  ASSUME NEW S, NEW q \in Seq(S), q # <<>>
  PROVE  /\ Tail(q) \in Seq(S) /\ Head(q) \in S /\ Head(q) = q[1]
         /\ Len(q) \in Nat /\ Len(q) >= 1 /\ Len(Tail(q)) = Len(q) - 1
         /\ \A i \in 1..Len(Tail(q)) : Tail(q)[i] = q[i + 1]
         /\ \A i \in 2..Len(q) : i - 1 \in 1..Len(Tail(q)) /\ Tail(q)[i - 1] = q[i]
OBVIOUS

LEMMA AppendOf ==
  ASSUME NEW S, NEW q \in Seq(S), NEW m \in S
  PROVE  /\ Append(q, m) \in Seq(S)
         /\ Len(q) \in Nat /\ Len(Append(q, m)) = Len(q) + 1
         /\ Append(q, m)[Len(q) + 1] = m
         /\ \A i \in 1..Len(q) : Append(q, m)[i] = q[i]
OBVIOUS

LEMMA TailSure ==
  ASSUME NEW q \in Seq(Message), q # <<>>
  PROVE  /\ HasSure(q) => Sure(Head(q)) \/ HasSure(Tail(q))
         /\ Followed(q) => Followed(Tail(q))
         /\ Followed(q) /\ Connected(Head(q)) => HasSure(Tail(q))
         /\ StatePending(q) => IsState(Head(q)) \/ StatePending(Tail(q))
<1> DEFINE r == Tail(q)
<1>1. PICK n \in Nat : n = Len(q)
  BY TailOf
<1>2. /\ n >= 1 /\ Len(r) = n - 1 /\ Head(q) = q[1]
      /\ \A i \in 1..n-1 : r[i] = q[i + 1]
      /\ \A i \in 2..n : i - 1 \in 1..n-1 /\ r[i - 1] = q[i]
  BY <1>1, TailOf
<1> HIDE DEF r
<1>3. ASSUME NEW j \in 1..n, j # 1 PROVE j - 1 \in 1..n-1 /\ r[j - 1] = q[j]
  <2>1. j \in 2..n
    BY <1>3
  <2> QED
    BY <1>2, <2>1
<1>4. HasSure(q) => Sure(q[1]) \/ HasSure(r)
  BY <1>1, <1>2, <1>3 DEF HasSure
<1>5. ASSUME Followed(q) PROVE Followed(r)
  <2> SUFFICES ASSUME NEW i \in 1..n-1, Connected(r[i]) PROVE \E j \in i+1..n-1 : Sure(r[j])
    BY <1>2 DEF Followed
  <2>1. i + 1 \in 1..n /\ Connected(q[i + 1])
    BY <1>2
  <2>2. PICK k \in (i+1)+1..n : Sure(q[k])
    BY <1>1, <1>5, <2>1 DEF Followed
  <2>3. k - 1 \in i+1..n-1 /\ r[k - 1] = q[k]
    BY <1>2
  <2> QED
    BY <2>2, <2>3
<1>6. ASSUME Followed(q), Connected(q[1]) PROVE HasSure(r)
  <2>1. PICK k \in 1+1..n : Sure(q[k])
    BY <1>1, <1>2, <1>6 DEF Followed
  <2> QED
    BY <1>2, <1>3, <2>1 DEF HasSure
<1>7. StatePending(q) => IsState(q[1]) \/ StatePending(r)
  BY <1>1, <1>2, <1>3 DEF StatePending, IsState
<1> QED
  BY <1>2, <1>4, <1>5, <1>6, <1>7 DEF r

LEMMA TailLast ==
  ASSUME NEW q \in Seq(Message), q # <<>>, NEW s, LastIs(q, s)
  PROVE  /\ LastIs(Tail(q), s)
         /\ StatePending(q) /\ ~StatePending(Tail(q)) => Head(q) = <<"state", Whole(s)>>
<1> DEFINE r == Tail(q)
<1>1. PICK n \in Nat : n = Len(q)
  BY TailOf
<1>2. /\ n >= 1 /\ Len(r) = n - 1 /\ Head(q) = q[1]
      /\ \A i \in 1..n-1 : r[i] = q[i + 1]
      /\ \A i \in 2..n : i - 1 \in 1..n-1 /\ r[i - 1] = q[i]
  BY <1>1, TailOf
<1> HIDE DEF r
<1>3. CASE ~StatePending(q)
  <2>1. \A i \in 1..n-1 : r[i][1] # "state"
    BY <1>1, <1>2, <1>3 DEF StatePending
  <2> QED
    BY <1>2, <1>3, <2>1 DEF LastIs, StatePending, r
<1>4. CASE StatePending(q)
  <2>1. PICK j \in 1..n : /\ q[j] = <<"state", Whole(s)>>
                          /\ \A k \in j+1..n : ~IsState(q[k])
    BY <1>1, <1>4 DEF LastIs
  <2>2. CASE j = 1
    <3>1. \A i \in 1..n-1 : ~IsState(r[i])
      BY <1>2, <2>1, <2>2
    <3> QED
      BY <1>2, <2>1, <2>2, <3>1 DEF LastIs, StatePending, IsState, r
  <2>3. CASE j # 1
    <3>1. j - 1 \in 1..n-1 /\ r[j - 1] = <<"state", Whole(s)>>
      BY <1>2, <2>1, <2>3
    <3>2. \A k \in (j-1)+1..n-1 : ~IsState(r[k])
      BY <1>2, <2>1, <2>3
    <3>3. r[j - 1][1] = "state"
      BY <3>1
    <3> QED
      BY <1>2, <3>1, <3>2, <3>3 DEF LastIs, StatePending, r
  <2> QED
    BY <2>2, <2>3
<1> QED
  BY <1>3, <1>4

LEMMA AppendSure ==
  ASSUME NEW q \in Seq(Message), NEW m \in Message
  PROVE  /\ HasSure(q) \/ Sure(m) => HasSure(Append(q, m))
         /\ Followed(q) /\ ~Connected(m) => Followed(Append(q, m))
         /\ Sure(m) => Followed(Append(q, m))
         /\ StatePending(Append(q, m)) <=> StatePending(q) \/ IsState(m)
<1> DEFINE r == Append(q, m)
<1>1. PICK n \in Nat : n = Len(q)
  BY AppendOf
<1>2. /\ Len(r) = n + 1 /\ r[n + 1] = m
      /\ \A i \in 1..n : r[i] = q[i]
  BY <1>1, AppendOf
<1> HIDE DEF r
<1>3. n + 1 \in 1..n+1 /\ \A i \in 1..n+1 : i = n + 1 \/ i \in 1..n
  OBVIOUS
<1>4. \A i \in 1..n : i \in 1..n+1
  OBVIOUS
<1>5. HasSure(q) \/ Sure(m) => HasSure(r)
  BY <1>1, <1>2, <1>3, <1>4 DEF HasSure
<1>6. StatePending(r) <=> StatePending(q) \/ IsState(m)
  BY <1>1, <1>2, <1>3, <1>4 DEF StatePending, IsState
<1>7. ASSUME Followed(q), ~Connected(m) PROVE Followed(r)
  <2> SUFFICES ASSUME NEW i \in 1..n+1, Connected(r[i]) PROVE \E j \in i+1..n+1 : Sure(r[j])
    BY <1>2 DEF Followed
  <2>1. i \in 1..n /\ Connected(q[i])
    BY <1>2, <1>3, <1>7
  <2>2. PICK j \in i+1..n : Sure(q[j])
    BY <1>1, <1>7, <2>1 DEF Followed
  <2>3. j \in 1..n /\ j \in i+1..n+1
    BY <2>1
  <2> QED
    BY <1>2, <2>2, <2>3
<1>8. ASSUME Sure(m) PROVE Followed(r)
  <2> SUFFICES ASSUME NEW i \in 1..n+1, Connected(r[i]) PROVE \E j \in i+1..n+1 : Sure(r[j])
    BY <1>2 DEF Followed
  <2>1. i # n + 1
    BY <1>2, <1>8 DEF Sure, Connected
  <2>2. n + 1 \in i+1..n+1
    BY <2>1
  <2> QED
    BY <1>2, <1>8, <2>2
<1> QED
  BY <1>5, <1>6, <1>7, <1>8 DEF r

LEMMA AppendLast ==
  ASSUME NEW q \in Seq(Message), NEW m \in Message, NEW s,
         \/ ~IsState(m) /\ LastIs(q, s)
         \/ m = <<"state", Whole(s)>>
  PROVE  LastIs(Append(q, m), s)
<1> DEFINE r == Append(q, m)
<1>1. PICK n \in Nat : n = Len(q)
  BY AppendOf
<1>2. /\ Len(r) = n + 1 /\ r[n + 1] = m
      /\ \A i \in 1..n : r[i] = q[i]
  BY <1>1, AppendOf
<1>3. StatePending(r) <=> StatePending(q) \/ IsState(m)
  BY AppendSure
<1> HIDE DEF r
<1>4. CASE m = <<"state", Whole(s)>>
  <2>1. n + 1 \in 1..n+1 /\ \A k \in (n+1)+1..n+1 : FALSE
    OBVIOUS
  <2> QED
    BY <1>2, <1>4, <2>1 DEF LastIs, r
<1>5. CASE ~IsState(m) /\ LastIs(q, s)
  <2> SUFFICES ASSUME StatePending(q) PROVE LastIs(r, s)
    BY <1>3, <1>5 DEF LastIs, r
  <2>1. PICK j \in 1..n : /\ q[j] = <<"state", Whole(s)>>
                          /\ \A k \in j+1..n : ~IsState(q[k])
    BY <1>1, <1>5 DEF LastIs
  <2>2. j \in 1..n+1 /\ r[j] = <<"state", Whole(s)>>
    BY <1>2, <2>1
  <2>3. ASSUME NEW k \in j+1..n+1 PROVE ~IsState(r[k])
    <3>1. k = n + 1 \/ (k \in j+1..n /\ k \in 1..n)
      BY <2>1
    <3> QED
      BY <1>2, <1>5, <2>1, <3>1
  <2> QED
    BY <1>2, <2>2, <2>3 DEF LastIs
<1> QED
  BY <1>4, <1>5

(* A last state that is none of the two settles what came before it.       *)
LEMMA LastSettles ==
  ASSUME NEW q \in Seq(Message), NEW s \in State \ {"WAIT", "CONNECTED"},
         LastIs(q, s), StatePending(q)
  PROVE  HasSure(q) /\ Followed(q)
<1>1. PICK n \in Nat : n = Len(q)
  OBVIOUS
<1>2. PICK j \in 1..n : /\ q[j] = <<"state", Whole(s)>>
                        /\ \A k \in j+1..n : ~IsState(q[k])
  BY <1>1 DEF LastIs
<1>3. Sure(q[j]) /\ ~Connected(q[j])
  BY <1>2 DEF Sure, Connected, IsState, Whole
<1>4. ASSUME NEW i \in 1..n, Connected(q[i]) PROVE j \in i+1..n
  <2>1. IsState(q[i]) /\ i # j
    BY <1>3, <1>4 DEF Connected
  <2>2. i \notin j+1..n
    BY <1>2, <2>1
  <2> QED
    BY <2>1, <2>2
<1> QED
  BY <1>1, <1>3, <1>4 DEF HasSure, Followed

-------------------------------------------------------------------------------
(* Types: what a registration has read, and what a dead process holds.     *)
Asked ==
  /\ rpc \in {"level", "send"} => update \in State \X State
  /\ registered => rpc \in {"idle", "pipe"}
  /\ ~alive => mLaststate = "NOPROCESS" /\ posting = <<>>

TypeInv == TypeOK /\ Asked

LEMMA Messages ==
  /\ \A u \in State \X State : <<"state", u>> \in Message
  /\ \A l \in Line : <<"log", l>> \in Message
  /\ \A s \in State : Whole(s) \in State \X State /\ <<"state", Whole(s)>> \in Message
  /\ \A m \in Message : \/ m[1] = "state" /\ m[2] \in State \X State
                        \/ m[1] = "log" /\ m[2] \in Line
  /\ Replayed \in Seq(Message)
  /\ "NOPROCESS" \in State
<1>1. \A u \in State \X State : <<"state", u>> \in Message
  BY DEF Message, StateMessages
<1>2. \A l \in Line : <<"log", l>> \in Message
  BY DEF Message, LogMessages
<1>3. \A s \in State : Whole(s) \in State \X State
  BY DEF Whole
<1>4. \A m \in Message : \/ m[1] = "state" /\ m[2] \in State \X State
                         \/ m[1] = "log" /\ m[2] \in Line
  BY DEF Message, StateMessages, LogMessages
<1>5. "NOPROCESS" \in State
  BY DEF State
<1>6. <<"state", Whole("NOPROCESS")>> \in Message
  BY <1>1, <1>3, <1>5
<1>7. Replayed \in Seq(Message)
  <2> DEFINE m == <<"state", Whole("NOPROCESS")>>
  <2>1. m \in Message
    BY <1>6
  <2>2. Replayed = <<m>>
    BY DEF Replayed
  <2> HIDE DEF m
  <2> QED
    BY <2>1, <2>2
<1> QED
  BY <1>1, <1>2, <1>3, <1>4, <1>5, <1>7

LEMMA EventCounts ==
  ASSUME events \in 0..MaxEvents, Event
  PROVE  events' \in 0..MaxEvents /\ events' \in Line
BY FeedAssumption DEF Event, Line

LEMMA InitTypes == Init => TypeInv
<1> SUFFICES ASSUME Init PROVE TypeInv
  OBVIOUS
<1>1. inbox \in Seq(Message) /\ wire \in Seq(Message)
  BY Messages DEF Init
<1>2. shown \in State \X State /\ mLaststate \in State
  BY Messages DEF Init
<1>3. events \in 0..MaxEvents
  BY FeedAssumption DEF Init
<1> QED
  BY <1>1, <1>2, <1>3 DEF Init, TypeInv, TypeOK, Asked

LEMMA ServiceTypes ==
  ASSUME TypeInv, Service
  PROVE  TypeInv'
<1>1. ASSUME NEW s \in State, UpdateState(s) PROVE TypeInv'
  <2>1. events' \in 0..MaxEvents
    BY <1>1, EventCounts DEF UpdateState, TypeInv, TypeOK
  <2>2. posting' = <<s>>
    BY <1>1 DEF UpdateState, Unlocked
  <2> QED
    BY <1>1, <2>1, <2>2 DEF UpdateState, TypeInv, TypeOK, Asked, log, reg, client
<1>2. CASE PostState
  <2>1. PICK s \in State : posting = <<s>>
    BY <1>2 DEF PostState, TypeInv, TypeOK
  <2>2. inbox' \in Seq(Message)
    BY <1>2, <2>1, Messages, AppendOf DEF PostState, Post, TypeInv, TypeOK
  <2>3. posting' = <<>>
    BY <1>2, <2>1 DEF PostState
  <2> QED
    BY <1>2, <2>2, <2>3 DEF PostState, TypeInv, TypeOK, Asked, log, reg, client
<1>3. CASE NewLogItem
  <2>1. events' \in 0..MaxEvents /\ events' \in Line
    BY <1>3, EventCounts DEF NewLogItem, TypeInv, TypeOK
  <2>2. inbox' \in Seq(Message)
    BY <1>3, <2>1, Messages, AppendOf DEF NewLogItem, Post, TypeInv, TypeOK
  <2>3. logbuffer' \subseteq Line
    BY <1>3, <2>1 DEF NewLogItem, TypeInv, TypeOK
  <2>4. UNCHANGED <<kind, alive, feed, readFileLog, reg, wire, client, heard>>
    BY <1>3 DEF NewLogItem
  <2> QED
    BY <2>1, <2>2, <2>3, <2>4 DEF TypeInv, TypeOK, Asked, feed, reg, client
<1>5. CASE ReadLogCache
  BY <1>5 DEF ReadLogCache, TypeInv, TypeOK, Asked, feed, reg, client
<1>4. CASE Broadcast
  <2>1. Head(inbox) \in Message /\ inbox' \in Seq(Message)
    BY <1>4, TailOf DEF Broadcast, TypeInv, TypeOK
  <2>2. wire' \in Seq(Message)
    BY <1>4, <2>1, AppendOf DEF Broadcast, TypeInv, TypeOK
  <2>3. heard' \subseteq State
    <3>1. Head(inbox)[1] = "state" => Head(inbox)[2][1] \in State
      BY <2>1, Messages
    <3> QED
      BY <1>4, <3>1 DEF Broadcast, TypeInv, TypeOK
  <2> QED
    BY <1>4, <2>1, <2>2, <2>3 DEF Broadcast, TypeInv, TypeOK, Asked, feed, log, reg, client
<1> QED
  BY <1>1, <1>2, <1>3, <1>4, <1>5 DEF Service

LEMMA RegisteringTypes ==
  ASSUME TypeInv, Bind \/ Registering \/ Unregister
  PROVE  TypeInv'
<1>1. CASE Bind
  <2>1. events' \in 0..MaxEvents
    BY <1>1, EventCounts DEF Bind, TypeInv, TypeOK
  <2> QED
    BY <1>1, <2>1 DEF Bind, TypeInv, TypeOK, Asked, feed, log, client
<1>2. CASE GetLogBuffer
  BY <1>2 DEF GetLogBuffer, TypeInv, TypeOK, Asked, feed, log, client
<1>3. CASE ReadLast
  <2>1. update' \in State \X State
    BY <1>3, Messages DEF ReadLast, TypeInv, TypeOK
  <2> QED
    BY <1>3, <2>1 DEF ReadLast, TypeInv, TypeOK, Asked, feed, log, client
<1>4. CASE ReadLevel
  <2>1. update' \in State \X State
    BY <1>4 DEF ReadLevel, TypeInv, TypeOK, Asked
  <2> QED
    BY <1>4, <2>1 DEF ReadLevel, TypeInv, TypeOK, Asked, feed, log, client
<1>5. CASE SendLast
  <2>1. wire' \in Seq(Message)
    BY <1>5, Messages, AppendOf DEF SendLast, TypeInv, TypeOK, Asked
  <2> QED
    BY <1>5, <2>1 DEF SendLast, TypeInv, TypeOK, Asked, feed, log, client
<1>6. CASE Register
  BY <1>6 DEF Register, TypeInv, TypeOK, Asked, feed, log, client
<1>7. CASE PushLogs
  BY <1>7 DEF PushLogs, TypeInv, TypeOK, Asked, feed, log
<1>8. CASE Unregister
  BY <1>8 DEF Unregister, TypeInv, TypeOK, Asked, feed, log, client
<1> QED
  BY <1>1, <1>2, <1>3, <1>4, <1>5, <1>6, <1>7, <1>8 DEF Registering

LEMMA OtherTypes ==
  ASSUME TypeInv, Deliver \/ Crash \/ Restart \/ UNCHANGED vars
  PROVE  TypeInv'
<1>1. CASE Deliver
  <2>1. Head(wire) \in Message /\ wire' \in Seq(Message)
    BY <1>1, TailOf DEF Deliver, TypeInv, TypeOK
  <2>2. shown' \in State \X State /\ clientLog' \subseteq Line
    BY <1>1, <2>1, Messages DEF Deliver, Show, TypeInv, TypeOK
  <2> QED
    BY <1>1, <2>1, <2>2 DEF Deliver, TypeInv, TypeOK, Asked, feed, log, reg
<1>2. CASE Crash
  <2>1. events' \in 0..MaxEvents
    BY <1>2, EventCounts DEF Crash, TypeInv, TypeOK
  <2>2. inbox' \in Seq(Message)
    BY <1>2 DEF Crash
  <2> QED
    BY <1>2, <2>1, <2>2, Messages DEF Crash, TypeInv, TypeOK, Asked, client
<1>3. CASE Restart
  <2>1. inbox' \in Seq(Message)
    BY <1>3, Messages DEF Restart
  <2> QED
    BY <1>3, <2>1 DEF Restart, TypeInv, TypeOK, Asked, feed, log, reg, client
<1>4. CASE UNCHANGED vars
  BY <1>4 DEF vars, TypeInv, TypeOK, Asked, feed, log, reg, client
<1> QED
  BY <1>1, <1>2, <1>3, <1>4

LEMMA NextTypes == TypeInv /\ [Next]_vars => TypeInv'
BY ServiceTypes, RegisteringTypes, OtherTypes DEF Next

(* A client is registered, and a call of its pending, only while the       *)
(* service's process lives; what is on its way and shown are states that   *)
(* the service has.                                                        *)
THEOREM FeedTypes == Spec => []TypeOK
<1>1. TypeInv => TypeOK
  BY DEF TypeInv
<1> QED
  BY <1>1, InitTypes, NextTypes, PTL DEF Spec

-------------------------------------------------------------------------------
(* The inductive invariant of CaughtUp.  On the looper's queue: the last   *)
(* state is the service's own, unless that one has still to be posted; and *)
(* a WAIT is not the successor of CONNECTED.                               *)
InOrder ==
  /\ posting # <<>> => posting = <<mLaststate>>
  /\ posting = <<>> => LastIs(inbox, mLaststate)
  /\ \A i \in 1..Len(inbox) : IsState(inbox[i]) => \E s \in State : inbox[i][2] = Whole(s)
  /\ mLaststate = "WAIT" => Followed(inbox)

(* The client has been told of a change since it registered.               *)
Told == (IF kind = "app" THEN heard \ {"WAIT"} ELSE heard) # {}

(* Once the looper is done the last state on the wire is the service's.    *)
Arriving ==
  registered /\ Told /\ posting = <<>> /\ ~StatePending(inbox) => LastIs(wire, mLaststate)

(* A WAIT that is to be shown by an app will not find CONNECTED there.     *)
NotIgnored ==
  kind = "app" /\ registered /\ Told /\ mLaststate = "WAIT" =>
    \/ HasSure(inbox)
    \/ Followed(wire) /\ (shown[2] = "CONNECTED" => HasSure(wire))

Follows == Arriving /\ NotIgnored /\ CaughtUp

FeedInv == TypeInv /\ InOrder /\ Follows

LEMMA InitFeed == Init => InOrder /\ Follows
<1> SUFFICES ASSUME Init PROVE InOrder /\ Follows
  OBVIOUS
<1> DEFINE m == <<"state", Whole("NOPROCESS")>>
<1>1. inbox = <<m>> /\ posting = <<>> /\ mLaststate = "NOPROCESS" /\ ~registered
  BY DEF Init, Replayed
<1>2. m[2] = Whole("NOPROCESS") /\ "NOPROCESS" \in State
  BY DEF State
<1> HIDE DEF m
<1>3. Len(inbox) = 1 /\ inbox[1] = m /\ \A k \in 1+1..1 : FALSE
  BY <1>1
<1>4. LastIs(inbox, mLaststate)
  BY <1>1, <1>3 DEF LastIs, m
<1>5. InOrder
  BY <1>1, <1>2, <1>3, <1>4 DEF InOrder
<1> QED
  BY <1>1, <1>5 DEF Follows, Arriving, NotIgnored, CaughtUp

(* What neither the looper's queue nor a registered client sees.           *)
LEMMA UnseenFeed ==
  ASSUME InOrder, Follows, UNCHANGED <<kind, mLaststate, posting, inbox>>,
         \/ UNCHANGED <<registered, heard, wire, shown>>
         \/ ~registered' \/ heard' = {}
  PROVE  InOrder' /\ Follows'
<1>1. InOrder'
  BY DEF InOrder
<1>2. CASE UNCHANGED <<registered, heard, wire, shown>>
  BY <1>1, <1>2 DEF Follows, Arriving, NotIgnored, CaughtUp, Told
<1>3. CASE ~registered' \/ heard' = {}
  BY <1>1, <1>3 DEF Follows, Arriving, NotIgnored, CaughtUp, Told
<1> QED
  BY <1>2, <1>3

LEMMA UpdateFeed ==
  ASSUME FeedInv, NEW s \in State, UpdateState(s)
  PROVE  InOrder' /\ Follows'
<1>1. /\ posting = <<>> /\ posting' = <<s>> /\ mLaststate' = s
      /\ ~Ignored(mLaststate, s) /\ mLaststate \in State
      /\ UNCHANGED <<kind, registered, heard, inbox, wire, shown>>
      /\ inbox \in Seq(Message) /\ wire \in Seq(Message)
  BY DEF UpdateState, Unlocked, FeedInv, TypeInv, TypeOK, log, reg, client
<1>2. PICK x \in State : x = mLaststate
  BY <1>1
<1>3. LastIs(inbox, x)
  BY <1>1, <1>2 DEF FeedInv, InOrder
<1>4. posting' # <<>> /\ Arriving' /\ CaughtUp'
  BY <1>1 DEF Arriving, CaughtUp
<1>5. s = "WAIT" => x # "CONNECTED"
  BY <1>1, <1>2 DEF Ignored
<1>6. s = "WAIT" => Followed(inbox)
  <2>1. CASE x = "WAIT"
    BY <1>2, <2>1 DEF FeedInv, InOrder
  <2>2. CASE ~StatePending(inbox)
    BY <2>2 DEF Followed, Connected, IsState, StatePending
  <2>3. CASE x \notin {"WAIT", "CONNECTED"} /\ StatePending(inbox)
    BY <1>1, <1>3, <2>3, LastSettles
  <2> QED
    BY <1>5, <2>1, <2>2, <2>3
<1>7. ASSUME kind = "app", registered, Told, s = "WAIT"
      PROVE  HasSure(inbox) \/ (Followed(wire) /\ (shown[2] = "CONNECTED" => HasSure(wire)))
  <2>1. CASE x = "WAIT"
    BY <1>2, <1>7, <2>1 DEF FeedInv, Follows, NotIgnored
  <2>2. CASE x \notin {"WAIT", "CONNECTED"} /\ StatePending(inbox)
    BY <1>1, <1>3, <2>2, LastSettles
  <2>3. CASE x \notin {"WAIT", "CONNECTED"} /\ ~StatePending(inbox) /\ StatePending(wire)
    <3>1. LastIs(wire, x)
      BY <1>1, <1>2, <1>7, <2>3 DEF FeedInv, Follows, Arriving
    <3> QED
      BY <1>1, <2>3, <3>1, LastSettles
  <2>4. CASE x \notin {"WAIT", "CONNECTED"} /\ ~StatePending(inbox) /\ ~StatePending(wire)
    <3>1. shown = Whole(x)
      BY <1>1, <1>2, <1>7, <2>4 DEF FeedInv, Follows, CaughtUp, Told
    <3>2. Followed(wire)
      BY <2>4 DEF Followed, Connected, IsState, StatePending
    <3> QED
      BY <2>4, <3>1, <3>2 DEF Whole
  <2> QED
    BY <1>5, <1>7, <2>1, <2>2, <2>3, <2>4
<1>8. InOrder'
  BY <1>1, <1>6 DEF FeedInv, InOrder
<1>9. NotIgnored'
  BY <1>1, <1>7 DEF NotIgnored, Told
<1> QED
  BY <1>4, <1>8, <1>9 DEF Follows

(* A message more on the looper's queue.                                   *)
LEMMA PostOrder ==
  ASSUME FeedInv, NEW m \in Message, NEW x \in State, x = mLaststate, mLaststate' = mLaststate,
         posting' = posting \/ posting' = <<>>,
         inbox' = Append(inbox, m),
         \/ ~IsState(m) /\ posting' = posting
         \/ m = <<"state", Whole(x)>>
  PROVE  InOrder'
<1>1. inbox \in Seq(Message)
  BY DEF FeedInv, TypeInv, TypeOK
<1>2. posting' # <<>> => posting' = <<mLaststate'>>
  BY DEF FeedInv, InOrder
<1>3. posting' = <<>> => LastIs(inbox', x)
  BY <1>1, AppendLast DEF FeedInv, InOrder
<1>4. mLaststate' = "WAIT" => Followed(inbox')
  <2> SUFFICES ASSUME x = "WAIT" PROVE Followed(inbox')
    OBVIOUS
  <2>1. Followed(inbox)
    BY DEF FeedInv, InOrder
  <2>2. ~Connected(m)
    BY DEF Connected, Whole
  <2> QED
    BY <1>1, <2>1, <2>2, AppendSure
<1>5. \A i \in 1..Len(inbox') : IsState(inbox'[i]) => \E s \in State : inbox'[i][2] = Whole(s)
  <2>1. IsState(m) => m[2] = Whole(x)
    OBVIOUS
  <2>2. \A i \in 1..Len(inbox') : inbox'[i] = m \/ (i \in 1..Len(inbox) /\ inbox'[i] = inbox[i])
    BY <1>1, AppendOf
  <2> QED
    BY <2>1, <2>2 DEF FeedInv, InOrder
<1> QED
  BY <1>2, <1>3, <1>4, <1>5 DEF InOrder

LEMMA PostFeed ==
  ASSUME FeedInv, PostState
  PROVE  InOrder' /\ Follows'
<1>1. PICK x \in State : x = mLaststate
  BY DEF FeedInv, TypeInv, TypeOK
<1> DEFINE m == <<"state", Whole(x)>>
<1>2. /\ posting' = <<>> /\ inbox' = Append(inbox, m) /\ mLaststate' = mLaststate
      /\ UNCHANGED <<kind, registered, heard, wire, shown>>
  <2>1. posting = <<x>>
    BY <1>1 DEF PostState, FeedInv, InOrder
  <2> QED
    BY <2>1 DEF PostState, Post, reg, client
<1>3. m \in Message /\ inbox \in Seq(Message) /\ IsState(m)
  BY Messages DEF FeedInv, TypeInv, TypeOK, IsState
<1>4. InOrder'
  BY <1>1, <1>2, <1>3, PostOrder
<1> HIDE DEF m
<1>5. StatePending(inbox') /\ (HasSure(inbox) => HasSure(inbox'))
  BY <1>2, <1>3, AppendSure
<1>6. Arriving' /\ CaughtUp'
  BY <1>5 DEF Arriving, CaughtUp
<1>7. NotIgnored'
  BY <1>2, <1>5 DEF FeedInv, Follows, NotIgnored, Told
<1> QED
  BY <1>4, <1>6, <1>7 DEF Follows

LEMMA LineFeed ==
  ASSUME FeedInv, NewLogItem \/ ReadLogCache
  PROVE  InOrder' /\ Follows'
<1>1. UNCHANGED <<kind, mLaststate, posting, registered, heard, wire, shown>>
  BY DEF NewLogItem, ReadLogCache, feed, reg, client
<1>2. inbox' = inbox \/ \E l \in Line : inbox' = Append(inbox, <<"log", l>>)
  <2>1. NewLogItem => events' \in Line
    BY EventCounts DEF NewLogItem, FeedInv, TypeInv, TypeOK
  <2> QED
    BY <2>1 DEF NewLogItem, ReadLogCache, Post
<1>3. CASE inbox' = inbox
  BY <1>1, <1>3, UnseenFeed DEF FeedInv
<1>4. ASSUME NEW l \in Line, inbox' = Append(inbox, <<"log", l>>)
      PROVE  InOrder' /\ Follows'
  <2> DEFINE m == <<"log", l>>
  <2>1. m \in Message /\ inbox \in Seq(Message) /\ ~IsState(m)
    BY Messages DEF FeedInv, TypeInv, TypeOK, IsState
  <2>2. PICK x \in State : x = mLaststate
    BY DEF FeedInv, TypeInv, TypeOK
  <2>3. inbox' = Append(inbox, m)
    BY <1>4
  <2> HIDE DEF m
  <2>4. InOrder'
    BY <1>1, <2>1, <2>2, <2>3, PostOrder
  <2>5. /\ StatePending(inbox') <=> StatePending(inbox)
        /\ HasSure(inbox) => HasSure(inbox')
    BY <2>1, <2>3, AppendSure
  <2>6. Arriving' /\ CaughtUp' /\ NotIgnored'
    BY <1>1, <2>5 DEF FeedInv, Follows, Arriving, CaughtUp, NotIgnored, Told
  <2> QED
    BY <2>4, <2>6 DEF Follows
<1> QED
  BY <1>2, <1>3, <1>4

LEMMA BroadcastFeed ==
  ASSUME FeedInv, Broadcast
  PROVE  InOrder' /\ Follows'
<1>1. /\ inbox \in Seq(Message) /\ wire \in Seq(Message) /\ inbox # <<>>
      /\ inbox' = Tail(inbox) /\ Head(inbox) \in Message
      /\ UNCHANGED <<kind, mLaststate, posting, registered, shown>>
  BY TailOf DEF Broadcast, FeedInv, TypeInv, TypeOK, feed, reg, client
<1>2. PICK m \in Message : m = Head(inbox)
  BY <1>1
<1>3. PICK x \in State : x = mLaststate
  BY DEF FeedInv, TypeInv, TypeOK
<1>4. InOrder'
  <2>1. posting = <<>> => LastIs(inbox', x)
    BY <1>1, <1>3, TailLast DEF FeedInv, InOrder
  <2>2. x = "WAIT" => Followed(inbox')
    BY <1>1, <1>3, TailSure DEF FeedInv, InOrder
  <2>3. \A i \in 1..Len(inbox') : IsState(inbox'[i]) => \E s \in State : inbox'[i][2] = Whole(s)
    <3>1. \A i \in 1..Len(inbox') : i + 1 \in 1..Len(inbox) /\ inbox'[i] = inbox[i + 1]
      BY <1>1, TailOf
    <3> QED
      BY <3>1 DEF FeedInv, InOrder
  <2> QED
    BY <1>1, <1>3, <2>1, <2>2, <2>3 DEF FeedInv, InOrder
<1>5. CASE ~registered
  BY <1>1, <1>4, <1>5 DEF Follows, Arriving, CaughtUp, NotIgnored
<1>6. CASE registered
  <2>1. wire' = Append(wire, m) /\ heard' = IF IsState(m) THEN heard \union {m[2][1]} ELSE heard
    BY <1>2, <1>6 DEF Broadcast, IsState
  <2>2. ~IsState(m) => heard' = heard
    BY <2>1
  <2>3. StatePending(wire') <=> StatePending(wire) \/ IsState(m)
    BY <1>1, <2>1, AppendSure
  <2>4. ASSUME posting = <<>>, ~StatePending(inbox'), Told'
        PROVE  LastIs(wire', x)
    <3>1. CASE IsState(m)
      <4>1. StatePending(inbox)
        <5>1. 1 \in 1..Len(inbox) /\ inbox[1] = m
          BY <1>1, <1>2, TailOf
        <5> QED
          BY <3>1, <5>1 DEF StatePending, IsState
      <4>2. LastIs(inbox, x)
        BY <1>3, <2>4 DEF FeedInv, InOrder
      <4>3. m = <<"state", Whole(x)>>
        BY <1>1, <1>2, <2>4, <4>1, <4>2, TailLast
      <4> QED
        BY <1>1, <2>1, <4>3, AppendLast
    <3>2. CASE ~IsState(m)
      <4>1. ~StatePending(inbox)
        BY <1>1, <1>2, <2>4, <3>2, TailSure
      <4>2. LastIs(wire, x)
        BY <1>1, <1>3, <1>6, <2>2, <2>4, <3>2, <4>1 DEF FeedInv, Follows, Arriving, Told
      <4> QED
        BY <1>1, <2>1, <3>2, <4>2, AppendLast
    <3> QED
      BY <3>1, <3>2
  <2>5. Arriving'
    BY <1>1, <1>3, <2>4 DEF Arriving
  <2>6. CaughtUp'
    <3> SUFFICES ASSUME Told', ~StatePending(inbox'), ~StatePending(wire'), posting' = <<>>
                 PROVE  shown' = Whole(mLaststate')
      BY DEF CaughtUp, Told
    <3>1. ~IsState(m) /\ ~StatePending(wire)
      BY <2>3
    <3>2. ~StatePending(inbox)
      BY <1>1, <1>2, <3>1, TailSure
    <3> QED
      BY <1>1, <1>6, <2>2, <3>1, <3>2 DEF FeedInv, Follows, CaughtUp, Told
  <2>7. NotIgnored'
    <3> SUFFICES ASSUME kind = "app", Told', x = "WAIT", ~HasSure(inbox')
                 PROVE  Followed(wire') /\ (shown[2] = "CONNECTED" => HasSure(wire'))
      BY <1>1, <1>3 DEF NotIgnored
    <3>1. CASE Sure(m)
      BY <1>1, <2>1, <3>1, AppendSure
    <3>2. CASE ~Sure(m)
      <4>1. ~HasSure(inbox)
        BY <1>1, <1>2, <3>2, TailSure
      <4>2. ~Connected(m)
        BY <1>1, <1>2, <1>3, TailSure DEF FeedInv, InOrder
      <4>3. IsState(m) => m[2][1] = "WAIT"
        <5> SUFFICES ASSUME IsState(m) PROVE m[2][1] = "WAIT"
          OBVIOUS
        <5>1. 1 \in 1..Len(inbox) /\ inbox[1] = m
          BY <1>1, <1>2, TailOf
        <5>2. PICK s \in State : m[2] = Whole(s)
          BY <5>1 DEF FeedInv, InOrder
        <5> QED
          BY <3>2, <4>2, <5>2 DEF Sure, Connected, Whole
      <4>4. Told
        BY <1>1, <2>1, <4>3 DEF Told
      <4>5. Followed(wire) /\ (shown[2] = "CONNECTED" => HasSure(wire))
        BY <1>3, <1>6, <4>1, <4>4 DEF FeedInv, Follows, NotIgnored
      <4> QED
        BY <1>1, <2>1, <4>2, <4>5, AppendSure
    <3> QED
      BY <3>1, <3>2
  <2> QED
    BY <1>4, <2>5, <2>6, <2>7 DEF Follows
<1> QED
  BY <1>5, <1>6

LEMMA DeliverFeed ==
  ASSUME FeedInv, Deliver
  PROVE  InOrder' /\ Follows'
<1>1. /\ wire \in Seq(Message) /\ wire # <<>> /\ wire' = Tail(wire) /\ Head(wire) \in Message
      /\ UNCHANGED <<kind, mLaststate, posting, inbox, registered, heard>>
  BY TailOf DEF Deliver, FeedInv, TypeInv, TypeOK, feed, reg
<1>2. PICK m \in Message : m = Head(wire)
  BY <1>1
<1>3. PICK x \in State : x = mLaststate
  BY DEF FeedInv, TypeInv, TypeOK
<1>4. /\ IsState(m) => shown' = IF kind = "app" /\ Ignored(shown[2], m[2][1]) THEN shown ELSE m[2]
      /\ ~IsState(m) => shown' = shown
  BY <1>2 DEF Deliver, Show, IsState
<1>5. InOrder'
  BY <1>1 DEF FeedInv, InOrder
<1>6. Arriving'
  <2> SUFFICES ASSUME registered, Told, posting = <<>>, ~StatePending(inbox)
               PROVE  LastIs(wire', x)
    BY <1>1, <1>3 DEF Arriving, Told
  <2>1. LastIs(wire, x)
    BY <1>3 DEF FeedInv, Follows, Arriving
  <2> QED
    BY <1>1, <2>1, TailLast
<1>7. NotIgnored'
  <2> SUFFICES ASSUME kind = "app", registered, Told, x = "WAIT", ~HasSure(inbox)
               PROVE  Followed(wire') /\ (shown'[2] = "CONNECTED" => HasSure(wire'))
    BY <1>1, <1>3 DEF NotIgnored, Told
  <2>1. Followed(wire) /\ (shown[2] = "CONNECTED" => HasSure(wire))
    BY <1>3 DEF FeedInv, Follows, NotIgnored
  <2>2. Followed(wire')
    BY <1>1, <2>1, TailSure
  <2>3. ASSUME shown'[2] = "CONNECTED" PROVE HasSure(wire')
    <3>1. CASE IsState(m) /\ shown' = m[2]
      <4>1. Connected(m)
        BY <2>3, <3>1 DEF Connected
      <4> QED
        BY <1>1, <1>2, <2>1, <4>1, TailSure
    <3>2. CASE shown' = shown /\ ~Sure(m)
      BY <1>1, <1>2, <2>1, <2>3, <3>2, TailSure
    <3>3. CASE Sure(m) /\ ~(IsState(m) /\ shown' = m[2])
      BY <1>4, <3>3 DEF Sure, Ignored
    <3> QED
      BY <1>4, <3>1, <3>2, <3>3
  <2> QED
    BY <2>2, <2>3
<1>8. CaughtUp'
  <2> SUFFICES ASSUME registered, Told, ~StatePending(inbox), ~StatePending(wire'), posting = <<>>
               PROVE  shown' = Whole(x)
    BY <1>1, <1>3 DEF CaughtUp, Told
  <2>1. CASE ~IsState(m)
    <3>1. ~StatePending(wire)
      BY <1>1, <1>2, <2>1, TailSure
    <3> QED
      BY <1>3, <1>4, <2>1, <3>1 DEF FeedInv, Follows, CaughtUp, Told
  <2>2. CASE IsState(m)
    <3>1. StatePending(wire)
      <4>1. 1 \in 1..Len(wire) /\ wire[1] = m
        BY <1>1, <1>2, TailOf
      <4> QED
        BY <2>2, <4>1 DEF StatePending, IsState
    <3>2. LastIs(wire, x)
      BY <1>3 DEF FeedInv, Follows, Arriving
    <3>3. m = <<"state", Whole(x)>>
      BY <1>1, <1>2, <3>1, <3>2, TailLast
    <3>4. ~(kind = "app" /\ Ignored(shown[2], x))
      <4> SUFFICES ASSUME kind = "app", shown[2] = "CONNECTED", x = "WAIT" PROVE FALSE
        BY DEF Ignored
      <4>1. ~HasSure(inbox)
        BY DEF HasSure, Sure, IsState, StatePending
      <4>2. HasSure(wire)
        BY <1>3, <4>1 DEF FeedInv, Follows, NotIgnored
      <4>3. ~Sure(m)
        BY <3>3 DEF Sure, Whole
      <4>4. HasSure(wire')
        BY <1>1, <1>2, <4>2, <4>3, TailSure
      <4> QED
        BY <4>4 DEF HasSure, Sure, IsState, StatePending
    <3>5. m[2] = Whole(x) /\ m[2][1] = x
      BY <3>3 DEF Whole
    <3> QED
      BY <1>4, <2>2, <3>4, <3>5
  <2> QED
    BY <2>1, <2>2
<1> QED
  BY <1>5, <1>6, <1>7, <1>8 DEF Follows

LEMMA RestFeed ==
  ASSUME FeedInv, Bind \/ Registering \/ Unregister \/ Crash \/ Restart \/ UNCHANGED vars
  PROVE  InOrder' /\ Follows'
<1>1. CASE Bind \/ GetLogBuffer \/ ReadLast \/ ReadLevel \/ PushLogs \/ UNCHANGED vars
  <2>1. UNCHANGED <<kind, mLaststate, posting, inbox, registered, heard, wire, shown>>
    BY <1>1 DEF Bind, GetLogBuffer, ReadLast, ReadLevel, PushLogs, vars, feed, reg, client
  <2> QED
    BY <2>1, UnseenFeed DEF FeedInv
<1>2. CASE SendLast \/ Register \/ Unregister
  <2>1. UNCHANGED <<kind, mLaststate, posting, inbox>> /\ (~registered' \/ heard' = {})
    BY <1>2 DEF SendLast, Register, Unregister, feed, FeedInv, TypeInv, Asked
  <2> QED
    BY <2>1, UnseenFeed DEF FeedInv
<1>3. CASE Crash \/ Restart
  <2>1. /\ ~registered' /\ posting' = <<>> /\ mLaststate' = "NOPROCESS"
        /\ inbox' \in {<<>>, Replayed}
    BY <1>3 DEF Crash, Restart, feed, reg, FeedInv, TypeInv, TypeOK, Asked
  <2>2. Follows'
    BY <2>1 DEF Follows, Arriving, NotIgnored, CaughtUp
  <2> DEFINE m == <<"state", Whole("NOPROCESS")>>
  <2>3. m[2] = Whole("NOPROCESS") /\ "NOPROCESS" \in State /\ Replayed = <<m>>
    BY DEF State, Replayed
  <2> HIDE DEF m
  <2>4. CASE inbox' = <<>>
    <3>1. Len(inbox') = 0
      BY <2>4
    <3>2. LastIs(inbox', "NOPROCESS")
      BY <3>1 DEF LastIs, StatePending
    <3> QED
      BY <2>1, <2>2, <3>1, <3>2 DEF InOrder
  <2>5. CASE inbox' = Replayed
    <3>1. Len(inbox') = 1 /\ inbox'[1] = m /\ \A k \in 1+1..1 : FALSE
      BY <2>3, <2>5
    <3>2. LastIs(inbox', "NOPROCESS")
      BY <3>1 DEF LastIs, m
    <3> QED
      BY <2>1, <2>2, <2>3, <3>1, <3>2 DEF InOrder
  <2> QED
    BY <2>1, <2>4, <2>5
<1> QED
  BY <1>1, <1>2, <1>3 DEF Registering

LEMMA NextFeed == FeedInv /\ [Next]_vars => FeedInv'
<1> SUFFICES ASSUME FeedInv, [Next]_vars PROVE FeedInv'
  OBVIOUS
<1>1. TypeInv'
  BY NextTypes DEF FeedInv
<1>2. CASE Service
  BY <1>1, <1>2, UpdateFeed, PostFeed, LineFeed, BroadcastFeed DEF Service, FeedInv
<1>3. CASE Deliver
  BY <1>1, <1>3, DeliverFeed DEF FeedInv
<1>4. CASE Bind \/ Registering \/ Unregister \/ Crash \/ Restart \/ UNCHANGED vars
  BY <1>1, <1>4, RestFeed DEF FeedInv
<1> QED
  BY <1>2, <1>3, <1>4 DEF Next

(* A client that has been told of a change since it registered, with       *)
(* nothing more on its way, shows the service's state, whatever it saw     *)
(* before: registrations that race an update, calls still on the wire when *)
(* the process died, a WAIT that the app's side ignores while CONNECTED.   *)
THEOREM ClientCatchesUp == Spec => []CaughtUp
<1>1. Init => FeedInv
  BY InitTypes, InitFeed DEF FeedInv
<1>2. FeedInv => CaughtUp
  BY DEF FeedInv, Follows
<1> QED
  BY <1>1, <1>2, NextFeed, PTL DEF Spec
====
