-------------------------- MODULE ProxyQuery_proofs --------------------------
(***************************************************************************)
(* Theorems about ProxyQuery for any number of sessions and queries.       *)
(***************************************************************************)
EXTENDS ProxyQuery, SequenceTheorems, TLAPS

Command == {"release", "SOCKS", "NONE"}

Has(q, c) == \E i \in 1..Len(q) : q[i] = c

(* One release, and only answers of the looper after it.                   *)
ReleaseLast(q) ==
  \E k \in 1..Len(q) :
    /\ q[k] = "release"
    /\ \A i \in 1..Len(q) : (q[i] = "release" => i = k) /\ (i > k => q[i] = "SOCKS")

(* Releases apart: no answer to a query, and the one answer x.             *)
NoAnswer(q) == \A i \in 1..Len(q) : q[i] = "release"
OneAnswer(q, x) ==
  \E k \in 1..Len(q) : q[k] = x /\ \A i \in 1..Len(q) : i = k \/ q[i] = "release"

-------------------------------------------------------------------------------
(* As long as no hold is released twice: a hold is announced, known to the *)
(* client, or released, and its turn passes behind what the client has     *)
(* sent for the entry before.  What the client owes is not what its flag   *)
(* says, which is set and cleared at other times than the release is       *)
(* written.                                                                *)
LinesInv ==
  \/ phase = "hold" /\ lines \in {<<>>, <<"HOLD">>, <<entry, "HOLD">>}
  \/ phase \in {"query", "up"} /\ lines \in {<<>>, <<entry>>}
  \/ phase \in {"released", "off"} /\ lines = <<>>

HoldInv ==
  phase = "hold" =>
    \/ lines # <<>> /\ ~owed /\ ~Has(cmds, "release")
    \/ lines = <<>> /\ owed /\ ~Has(cmds, "release")
    \/ lines = <<>> /\ ~owed /\ ReleaseLast(cmds)

CmdsInv ==
  /\ phase \in {"released", "query", "up"} =>
       ~owed /\ ~Has(cmds, "release")
  /\ phase = "released" => ~Has(cmds, "NONE")
  /\ phase \in {"query", "up"} /\ entry = "ORBOT" => ~Has(cmds, "NONE")

AnswerInv == phase \in {"query", "up"} /\ entry = "ORBOT" /\ ~asked => socks

Handshake == LinesInv /\ HoldInv /\ CmdsInv /\ AnswerInv

IInv == TypeOK /\ (~twice => Handshake)

-------------------------------------------------------------------------------
(* As long as no query is overtaken, an Orbot query goes through one stage *)
(* after the other and leaves at most the last one behind.  Releases may   *)
(* come more often than holds, so that a query can be asked before the     *)
(* client has read of the hold before it.                                  *)
Waiting == Unanswered /\ entry = "ORBOT"

Elsewhere(s) == pc[s] \in {"idle", "hold"}
ThreadFree == \A s \in Session : Elsewhere(s)
ThreadAt(label) == pc[session] = label /\ \A s \in Session : s = session \/ Elsewhere(s)

NoTimeout == timeouts = [s \in Session |-> 0]
OneTimeout == timeouts = [s \in Session |-> IF s = session THEN 1 ELSE 0]

Removing(at) ==
  main.at = at /\ main.cb \in Session /\ main.more = FALSE /\ statusCallbacks = {main.cb}

Announced ==
  /\ lines \in {<<"ORBOT">>, <<"HOLD", "ORBOT">>} /\ NoAnswer(cmds) /\ main = Idle
  /\ ThreadFree /\ NoTimeout /\ statusCallbacks = {}

Posting ==
  /\ lines = <<>> /\ NoAnswer(cmds) /\ main = Idle
  /\ ThreadAt("post") /\ NoTimeout /\ statusCallbacks = {}

Adding ==
  /\ lines = <<>> /\ NoAnswer(cmds) /\ main = Idle
  /\ ThreadAt("add") /\ OneTimeout /\ statusCallbacks = {}

Expecting ==
  /\ lines = <<>> /\ NoAnswer(cmds) /\ ThreadFree
  /\ \/ main = Idle /\ OneTimeout /\ statusCallbacks = {session}
     \/ Removing("remove") /\ main.cb = session /\ OneTimeout
     \/ Removing("send") /\ main.cb = session /\ NoTimeout

Finished ==
  /\ ThreadFree /\ NoTimeout
  /\ (main = Idle /\ statusCallbacks = {}) \/ Removing("drop")

(* What is on the socket besides an Orbot query and its answer.            *)
Quiet ==
  /\ phase \in {"hold", "released"} => lines \in {<<>>, <<"HOLD">>} /\ NoAnswer(cmds)
  /\ phase = "up" \/ (phase = "query" /\ ~asked) => lines = <<>> /\ NoAnswer(cmds)
  /\ Unanswered /\ entry = "NONE" =>
       \/ lines \in {<<"NONE">>, <<"HOLD", "NONE">>} /\ NoAnswer(cmds)
       \/ lines = <<>> /\ OneAnswer(cmds, "NONE")

Settled == Finished /\ Quiet

Served == Finished /\ lines = <<>> /\ OneAnswer(cmds, "SOCKS")

Stage ==
  /\ Waiting => Announced \/ Posting \/ Adding \/ Expecting \/ Served
  /\ ~Waiting => Settled
  /\ ~crashed

StageInv == ~overtaken => Stage

-------------------------------------------------------------------------------
(* The commands on the socket when one is written or read.                 *)

LEMMA AppendCommand ==
  ASSUME NEW q \in Seq(Command), NEW x \in Command
  PROVE  /\ Append(q, x) \in Seq(Command)
         /\ \A c : Has(Append(q, x), c) <=> Has(q, c) \/ x = c
         /\ ~Has(q, "release") /\ x = "release" => ReleaseLast(Append(q, x))
         /\ ReleaseLast(q) /\ x = "SOCKS" => ReleaseLast(Append(q, x))
<1>1. /\ Append(q, x) \in Seq(Command)
      /\ Len(q) \in Nat /\ Len(Append(q, x)) = Len(q) + 1
      /\ \A i \in 1..Len(q) : Append(q, x)[i] = q[i]
      /\ Append(q, x)[Len(q) + 1] = x
  BY AppendProperties
<1>2. ASSUME NEW c
      PROVE  Has(Append(q, x), c) <=> Has(q, c) \/ x = c
  BY <1>1 DEF Has
<1>3. ASSUME ~Has(q, "release"), x = "release"
      PROVE  ReleaseLast(Append(q, x))
  BY <1>1, <1>3 DEF Has, ReleaseLast
<1>4. ASSUME ReleaseLast(q), x = "SOCKS"
      PROVE  ReleaseLast(Append(q, x))
  <2>1. PICK k \in 1..Len(q) :
          /\ q[k] = "release"
          /\ \A i \in 1..Len(q) : (q[i] = "release" => i = k) /\ (i > k => q[i] = "SOCKS")
    BY <1>4 DEF ReleaseLast
  <2> QED BY <1>1, <1>4, <2>1 DEF ReleaseLast
<1> QED BY <1>1, <1>2, <1>3, <1>4

LEMMA ReadingCommand ==
  ASSUME NEW q \in Seq(Command), q # <<>>
  PROVE  /\ Head(q) \in Command /\ Tail(q) \in Seq(Command)
         /\ Has(q, Head(q))
         /\ \A c : Has(Tail(q), c) => Has(q, c)
         /\ ReleaseLast(q) /\ Head(q) = "release" =>
              ~Has(Tail(q), "release") /\ ~Has(Tail(q), "NONE")
         /\ ReleaseLast(q) /\ Head(q) # "release" => ReleaseLast(Tail(q))
<1>1. /\ Head(q) \in Command /\ Tail(q) \in Seq(Command)
      /\ Len(q) \in Nat \ {0} /\ Len(Tail(q)) = Len(q) - 1
      /\ \A i \in 1..Len(Tail(q)) : Tail(q)[i] = q[i + 1]
      /\ Head(q) = q[1]
  BY HeadTailProperties
<1>2. Has(q, Head(q)) /\ \A c : Has(Tail(q), c) => Has(q, c)
  BY <1>1 DEF Has
<1>3. ASSUME ReleaseLast(q)
      PROVE  /\ Head(q) = "release" => ~Has(Tail(q), "release") /\ ~Has(Tail(q), "NONE")
             /\ Head(q) # "release" => ReleaseLast(Tail(q))
  <2>1. PICK k \in 1..Len(q) :
          /\ q[k] = "release"
          /\ \A i \in 1..Len(q) : (q[i] = "release" => i = k) /\ (i > k => q[i] = "SOCKS")
    BY <1>3 DEF ReleaseLast
  <2>2. CASE Head(q) = "release"
    BY <1>1, <2>1, <2>2 DEF Has
  <2>3. CASE Head(q) # "release"
    <3>1. k - 1 \in 1..Len(Tail(q)) /\ Tail(q)[k - 1] = "release"
      BY <1>1, <2>1, <2>3
    <3> QED BY <1>1, <2>1, <2>3, <3>1 DEF ReleaseLast
  <2> QED BY <2>2, <2>3
<1> QED BY <1>1, <1>2, <1>3

LEMMA AppendAnswer ==
  ASSUME NEW q \in Seq(Command), NEW x \in Command
  PROVE  /\ NoAnswer(q) /\ x = "release" => NoAnswer(Append(q, x))
         /\ NoAnswer(q) => OneAnswer(Append(q, x), x)
         /\ \A y : OneAnswer(q, y) /\ x = "release" => OneAnswer(Append(q, x), y)
<1>1. /\ Append(q, x) \in Seq(Command)
      /\ Len(q) \in Nat /\ Len(Append(q, x)) = Len(q) + 1
      /\ \A i \in 1..Len(q) : Append(q, x)[i] = q[i]
      /\ Append(q, x)[Len(q) + 1] = x
  BY AppendProperties
<1>2. /\ Len(q) + 1 \in 1..Len(Append(q, x))
      /\ \A i \in 1..Len(Append(q, x)) : i = Len(q) + 1 \/ i \in 1..Len(q)
      /\ \A i \in 1..Len(q) : i \in 1..Len(Append(q, x))
  BY <1>1
<1>3. ASSUME NoAnswer(q), x = "release"
      PROVE  NoAnswer(Append(q, x))
  BY <1>1, <1>2, <1>3 DEF NoAnswer
<1>4. ASSUME NoAnswer(q)
      PROVE  OneAnswer(Append(q, x), x)
  BY <1>1, <1>2, <1>4 DEF NoAnswer, OneAnswer
<1>5. ASSUME NEW y, OneAnswer(q, y), x = "release"
      PROVE  OneAnswer(Append(q, x), y)
  <2>1. PICK k \in 1..Len(q) : q[k] = y /\ \A i \in 1..Len(q) : i = k \/ q[i] = "release"
    BY <1>5 DEF OneAnswer
  <2> QED BY <1>1, <1>2, <1>5, <2>1 DEF OneAnswer
<1> QED BY <1>3, <1>4, <1>5

LEMMA ReadingAnswer ==
  ASSUME NEW q \in Seq(Command), q # <<>>
  PROVE  /\ NoAnswer(q) => Head(q) = "release" /\ NoAnswer(Tail(q))
         /\ \A x : OneAnswer(q, x) /\ x # "release" =>
              \/ Head(q) = "release" /\ OneAnswer(Tail(q), x)
              \/ Head(q) = x /\ NoAnswer(Tail(q))
<1>1. /\ Len(q) \in Nat \ {0} /\ Len(Tail(q)) = Len(q) - 1
      /\ \A i \in 1..Len(Tail(q)) : Tail(q)[i] = q[i + 1]
      /\ Head(q) = q[1]
  BY HeadTailProperties
<1>2. ASSUME NoAnswer(q)
      PROVE  Head(q) = "release" /\ NoAnswer(Tail(q))
  BY <1>1, <1>2 DEF NoAnswer
<1>3. ASSUME NEW x, OneAnswer(q, x), x # "release"
      PROVE  \/ Head(q) = "release" /\ OneAnswer(Tail(q), x)
             \/ Head(q) = x /\ NoAnswer(Tail(q))
  <2>1. PICK k \in 1..Len(q) : q[k] = x /\ \A i \in 1..Len(q) : i = k \/ q[i] = "release"
    BY <1>3 DEF OneAnswer
  <2>2. CASE k = 1
    BY <1>1, <2>1, <2>2 DEF NoAnswer
  <2>3. CASE k # 1
    <3>1. Head(q) = "release"
      BY <1>1, <2>1, <2>3
    <3>2. k - 1 \in 1..Len(Tail(q)) /\ Tail(q)[k - 1] = x
      BY <1>1, <2>1, <2>3
    <3>3. \A i \in 1..Len(Tail(q)) : i = k - 1 \/ Tail(q)[i] = "release"
      BY <1>1, <2>1
    <3> QED BY <3>1, <3>2, <3>3 DEF OneAnswer
  <2> QED BY <2>2, <2>3
<1> QED BY <1>2, <1>3

(* The lines: at most two of them, so that their ends can be spelled out.  *)
LEMMA TwoLines ==
  ASSUME NEW x, NEW y
  PROVE  /\ <<x, y>> # <<>> /\ Head(<<x, y>>) = x /\ Tail(<<x, y>>) = <<y>>
         /\ Append(<<x>>, y) = <<x, y>>
<1>1. <<x>> \in Seq({x, y}) /\ <<x, y>> \in Seq({x, y})
      /\ Len(<<x>>) = 1 /\ Len(<<x, y>>) = 2
  OBVIOUS
<1>2. Append(<<x>>, y) \in Seq({x, y}) /\ Len(Append(<<x>>, y)) = 2
      /\ Append(<<x>>, y)[1] = x /\ Append(<<x>>, y)[2] = y
  BY <1>1, AppendProperties
<1>3. \A i \in 1..2 : Append(<<x>>, y)[i] = <<x, y>>[i]
  BY <1>2
<1>4. Append(<<x>>, y) = <<x, y>>
  BY <1>1, <1>2, <1>3, SeqEqual
<1>5. <<x, y>> # <<>> /\ Head(<<x, y>>) = x /\ Tail(<<x, y>>) = <<y>>
  OBVIOUS
<1> QED BY <1>4, <1>5

LEMMA OneLine ==
  ASSUME NEW x
  PROVE  /\ <<x>> # <<>> /\ Head(<<x>>) = x /\ Tail(<<x>>) = <<>>
         /\ Append(<<>>, x) = <<x>>
OBVIOUS

(* What is written, when it is written to a process that takes it.         *)
LEMMA Sending ==
  ASSUME TypeOK, NEW s \in Session, NEW x \in Command, Send(s, x)
  PROVE  /\ cmds' \in Seq(Command)
         /\ phase = "off" => cmds' = <<>>
         /\ \A c : Has(cmds', c) => Has(cmds, c) \/ x = c
         /\ x = "SOCKS" /\ ReleaseLast(cmds) => ReleaseLast(cmds')
         /\ s = session /\ phase # "off" => cmds' = Append(cmds, x)
BY AppendCommand DEF Send, TypeOK, Command

-------------------------------------------------------------------------------
(* The steps of a release, and of handleHold's end, that write nothing.    *)
Releasing ==
  \/ ResumeHold
  \/ \E t \in Releaser : ReleaseHold(t) \/ ClearWaiting(t)
  \/ \E s \in Session : PostResume(s)

(* The cases of Next, for the steps that take it apart.                    *)
LEMMA Cases ==
  ASSUME [Next]_vars
  PROVE  \/ LeaveHold \/ ReadCommand \/ Answered \/ Restart \/ Exit \/ StartSession
         \/ Handle \/ OnReceive \/ RemoveTimeouts \/ SendProxy
         \/ RemoveStatusCallback \/ Crash \/ UNCHANGED vars
         \/ \E s \in Session : PostTimeout(s) \/ AddStatusCallback(s) \/ TimeOut(s)
         \/ Releasing \/ \E t \in Releaser : WriteRelease(t)
BY DEF Next, Listen, OnOrbotReady, ReleaseHoldCmd, Releasing

LEMMA Frames ==
  /\ Releasing => UNCHANGED <<openvpn, socket, owed, twice, orbot>>
  /\ \A t \in Releaser :
       WriteRelease(t) => UNCHANGED <<openvpn, lines, mWaitingForRelease, resumes, pc, orbot>>
  /\ \A t \in Releaser :
       WriteRelease(t) => /\ Send(session, "release")
                          /\ owed' = FALSE /\ twice' = (twice \/ ~owed)
BY DEF Releasing, ResumeHold, ReleaseHold, ClearWaiting, PostResume, WriteRelease

LEMMA HandledLine ==
  ASSUME LinesInv, Handle
  PROVE  \/ lines = <<"HOLD">> /\ Head(lines) = "HOLD" /\ lines' = <<>> /\ phase = "hold"
         \/ lines = <<entry>> /\ Head(lines) = entry /\ lines' = <<>> /\ phase \in {"query", "up"}
         \/ lines = <<entry, "HOLD">> /\ Head(lines) = entry /\ lines' = <<"HOLD">> /\ phase = "hold"
<1>1. lines # <<>> /\ lines' = Tail(lines)
  BY DEF Handle
<1>2. CASE lines = <<"HOLD">>
  BY <1>1, <1>2, OneLine DEF LinesInv
<1>3. CASE lines = <<entry>> /\ phase \in {"query", "up"}
  BY <1>1, <1>3, OneLine
<1>4. CASE lines = <<entry, "HOLD">> /\ phase = "hold"
  BY <1>1, <1>4, TwoLines
<1> QED BY <1>1, <1>2, <1>3, <1>4 DEF LinesInv

LEMMA TypeStep ==
  ASSUME TypeOK, [Next]_vars
  PROVE  TypeOK'
<1> DEFINE Line == Entry \cup {"HOLD"}
           Flags == socks \in BOOLEAN /\ overtaken \in BOOLEAN
           OpenvpnTypes ==
             /\ session \in Session /\ phase \in {"hold", "released", "query", "up", "off"}
             /\ entry \in Entry /\ asked \in BOOLEAN /\ (asked => phase = "query")
             /\ queries \in 0..MaxQueries
           HoldTypes ==
             /\ mWaitingForRelease \in BOOLEAN /\ resumes \in Nat
             /\ releasing \in [Releaser -> {"no", "clear", "write"}]
           OwedTypes == owed \in BOOLEAN /\ twice \in BOOLEAN
           PcTypes == pc \in [Session -> {"idle", "hold", "post", "add"}]
           OrbotTypes ==
             /\ statusCallbacks \subseteq Session
             /\ main = Idle \/ main \in [at : {"remove", "send", "drop"}, cb : Session, more : BOOLEAN]
             /\ crashed \in BOOLEAN
           SocketTypes ==
             /\ lines \in Seq(Line) /\ cmds \in Seq(Command)
             /\ (phase = "off" => lines = <<>> /\ cmds = <<>>)
<1>0. /\ Flags /\ OpenvpnTypes /\ HoldTypes /\ OwedTypes /\ PcTypes /\ OrbotTypes /\ SocketTypes
      /\ timeouts \in [Session -> Nat]
  BY DEF TypeOK, Command
<1> SUFFICES /\ Flags' /\ OpenvpnTypes' /\ HoldTypes' /\ OwedTypes' /\ PcTypes'
             /\ OrbotTypes' /\ SocketTypes' /\ timeouts' \in [Session -> Nat]
  BY DEF TypeOK, Command
<1> USE DEF openvpn, socket, mgmt, hold, orbot
<1>1. OpenvpnTypes'
  <2>1. CASE LeaveHold
    <3>1. queries' \in 0..MaxQueries
      BY <1>0, <2>1, QueryAssumption DEF LeaveHold
    <3> QED BY <1>0, <2>1, <3>1 DEF LeaveHold
  <2>2. CASE ReadCommand
    <3>0. phase = "hold" => asked = FALSE
      BY <1>0
    <3>1. UNCHANGED <<asked, phase>> \/ (asked' = FALSE /\ phase' \in {phase, "released"})
      BY <3>0, <2>2 DEF ReadCommand
    <3>2. UNCHANGED <<session, entry, queries>>
      BY <2>2 DEF ReadCommand
    <3>3. CASE UNCHANGED <<asked, phase>>
      BY <1>0, <3>2, <3>3
    <3>4. CASE asked' = FALSE /\ phase' \in {phase, "released"}
      BY <1>0, <3>2, <3>4
    <3> QED BY <3>1, <3>3, <3>4
  <2>3. CASE Answered \/ Restart \/ Exit \/ Crash
    <3>1. UNCHANGED <<session, entry, queries>> /\ phase' \in {"up", "hold", "off"}
      BY <2>3 DEF Answered, Restart, Exit, Crash
    <3>2. asked' = FALSE
      BY <1>0, <2>3 DEF Answered, Restart, Exit, Crash
    <3> QED BY <1>0, <3>1, <3>2
  <2>4. CASE StartSession
    <3>1. session' \in Session
      BY <1>0, <2>4, QueryAssumption DEF StartSession, Session
    <3> QED BY <1>0, <2>4, <3>1 DEF StartSession
  <2>5. CASE UNCHANGED openvpn
    BY <1>0, <2>5
  <2> QED BY <2>1, <2>2, <2>3, <2>4, <2>5, Cases, Frames DEF Handle, PostTimeout,
          AddStatusCallback, OnReceive, RemoveTimeouts, SendProxy, TimeOut,
          RemoveStatusCallback, vars
<1>6. Flags'
  <2>1. CASE LeaveHold
    BY <1>0, <2>1, Zenon DEF LeaveHold
  <2>2. CASE ReadCommand
    BY <1>0, <2>2, Zenon DEF ReadCommand
  <2>3. CASE Restart \/ Exit
    BY <1>0, <2>3, Zenon DEF Restart, Exit
  <2>4. CASE StartSession
    BY <1>0, <2>4, Zenon DEF StartSession
  <2>5. CASE UNCHANGED <<socks, overtaken>>
    BY <1>0, <2>5
  <2> QED BY <2>1, <2>2, <2>3, <2>4, <2>5, Cases, Frames DEF Answered, Handle, PostTimeout,
          AddStatusCallback, OnReceive, RemoveTimeouts, SendProxy, TimeOut,
          RemoveStatusCallback, Crash, vars
<1>2. HoldTypes'
  <2>1. CASE Handle
    <3>1. mWaitingForRelease' \in {TRUE, mWaitingForRelease} /\ UNCHANGED <<resumes, releasing>>
      BY <2>1 DEF Handle
    <3> QED BY <1>0, <3>1
  <2>5. CASE StartSession
    <3>1. /\ mWaitingForRelease' = FALSE /\ resumes' = 0
          /\ releasing' = [t \in Releaser |-> "no"]
      BY <2>5 DEF StartSession
    <3> QED BY <3>1
  <2>2. CASE Releasing
    <3>1. CASE ResumeHold
      BY <1>0, <3>1 DEF ResumeHold, Move
    <3>2. ASSUME NEW t \in Releaser, ReleaseHold(t) \/ ClearWaiting(t)
          PROVE  HoldTypes'
      <4>1. releasing' \in [Releaser -> {"no", "clear", "write"}]
        <5>1. CASE ReleaseHold(t)
          BY <1>0, <5>1 DEF ReleaseHold, Move
        <5>2. CASE ClearWaiting(t)
          BY <1>0, <5>2 DEF ClearWaiting, Move
        <5> QED BY <3>2, <5>1, <5>2
      <4>2. resumes' \in Nat
        BY <1>0, <3>2 DEF ReleaseHold, ClearWaiting
      <4>3. mWaitingForRelease' \in BOOLEAN
        BY <1>0, <3>2 DEF ReleaseHold, ClearWaiting
      <4> QED BY <4>1, <4>2, <4>3
    <3>3. ASSUME NEW s \in Session, PostResume(s)
          PROVE  HoldTypes'
      BY <1>0, <3>3 DEF PostResume
    <3> QED BY <2>2, <3>1, <3>2, <3>3 DEF Releasing
  <2>3. ASSUME NEW t \in Releaser, WriteRelease(t)
        PROVE  HoldTypes'
    BY <1>0, <2>3 DEF WriteRelease, Move
  <2>4. CASE UNCHANGED hold
    BY <1>0, <2>4
  <2> QED BY <2>1, <2>2, <2>3, <2>4, <2>5, Cases DEF LeaveHold, ReadCommand, Answered, Restart,
          Exit, PostTimeout, AddStatusCallback, OnReceive, RemoveTimeouts, SendProxy, TimeOut,
          RemoveStatusCallback, Crash, vars
<1>7. OwedTypes'
  <2>1. CASE Handle
    BY <1>0, <2>1, Zenon DEF Handle
  <2>2. CASE StartSession
    BY <1>0, <2>2, Zenon DEF StartSession
  <2>3. ASSUME NEW t \in Releaser, WriteRelease(t)
        PROVE  OwedTypes'
    BY <1>0, <2>3, Zenon DEF WriteRelease
  <2>4. CASE UNCHANGED <<owed, twice>>
    BY <1>0, <2>4
  <2> QED BY <2>1, <2>2, <2>3, <2>4, Cases, Frames DEF LeaveHold, ReadCommand, Answered, Restart,
          Exit, PostTimeout, AddStatusCallback, OnReceive, RemoveTimeouts, SendProxy, TimeOut,
          RemoveStatusCallback, Crash, vars
<1>8. PcTypes'
  <2>1. CASE Handle
    BY <1>0, <2>1 DEF Handle, Goto
  <2>2. ASSUME NEW s \in Session, PostTimeout(s) \/ AddStatusCallback(s) \/ PostResume(s)
        PROVE  PcTypes'
    BY <1>0, <2>2 DEF PostTimeout, AddStatusCallback, PostResume, Goto
  <2>3. CASE UNCHANGED pc
    BY <1>0, <2>3
  <2>4. ASSUME NEW t \in Releaser, ReleaseHold(t) \/ ClearWaiting(t) \/ ResumeHold
        PROVE  UNCHANGED pc
    BY <2>4 DEF ReleaseHold, ClearWaiting, ResumeHold
  <2>5. Releasing => PcTypes'
    <3>1. "main" \in Releaser
      BY DEF Releaser
    <3> QED BY <2>2, <2>3, <2>4, <3>1 DEF Releasing
  <2> QED BY <2>1, <2>2, <2>3, <2>5, Cases, Frames DEF LeaveHold, ReadCommand, Answered, Restart,
          Exit, StartSession, OnReceive, RemoveTimeouts, SendProxy, TimeOut,
          RemoveStatusCallback, Crash, vars
<1>3. OrbotTypes'
  <2>1. ASSUME NEW s \in Session, AddStatusCallback(s)
        PROVE  OrbotTypes'
    BY <1>0, <2>1 DEF AddStatusCallback
  <2>2. ASSUME NEW s \in Session, PostTimeout(s)
        PROVE  OrbotTypes'
    BY <1>0, <2>2 DEF PostTimeout
  <2>3. ASSUME NEW s \in Session, TimeOut(s)
        PROVE  OrbotTypes'
    BY <1>0, <2>3 DEF TimeOut
  <2>4. CASE OnReceive
    <3>1. PICK s \in statusCallbacks :
            main' = [at |-> "remove", cb |-> s, more |-> statusCallbacks # {s}]
      BY <2>4 DEF OnReceive
    <3>2. (statusCallbacks # {s}) \in BOOLEAN
      OBVIOUS
    <3> DEFINE more == statusCallbacks # {s}
    <3> HIDE DEF more
    <3>3. main' = [at |-> "remove", cb |-> s, more |-> more] /\ more \in BOOLEAN
      BY <3>1, <3>2 DEF more
    <3>4. UNCHANGED <<statusCallbacks, crashed>>
      BY <2>4 DEF OnReceive
    <3> QED BY <1>0, <3>3, <3>4
  <2>5. CASE RemoveTimeouts \/ SendProxy
    <3>1. main # Idle
      BY <2>5 DEF RemoveTimeouts, SendProxy, Idle
    <3>2. \E at \in {"send", "drop"} : main' = [main EXCEPT !.at = at]
      BY <2>5 DEF RemoveTimeouts, SendProxy
    <3>3. UNCHANGED <<statusCallbacks, crashed>>
      BY <2>5 DEF RemoveTimeouts, SendProxy
    <3> QED BY <1>0, <3>1, <3>2, <3>3
  <2>6. CASE RemoveStatusCallback \/ Crash
    BY <1>0, <2>6 DEF RemoveStatusCallback, Crash
  <2>7. CASE UNCHANGED orbot
    BY <1>0, <2>7
  <2> QED BY <2>1, <2>2, <2>3, <2>4, <2>5, <2>6, <2>7, Cases, Frames DEF LeaveHold, ReadCommand,
          Answered, Restart, Exit, StartSession, Handle, vars
<1>4. SocketTypes'
  <2>1. CASE LeaveHold \/ Restart
    <3>1. \E x \in Line : lines' = Append(lines, x)
      BY <2>1, <1>1 DEF LeaveHold, Restart
    <3>2. phase' # "off" /\ UNCHANGED cmds
      BY <2>1 DEF LeaveHold, Restart
    <3> QED BY <1>0, <3>1, <3>2, AppendProperties
  <2>2. CASE ReadCommand
    <3>1. cmds # <<>> /\ cmds' = Tail(cmds) /\ UNCHANGED lines
          /\ (phase = "off" => phase' # "hold") /\ phase # "off"
      BY <1>0, <2>2 DEF ReadCommand
    <3>2. phase' # "off"
      BY <2>2, <3>1 DEF ReadCommand
    <3> QED BY <1>0, <3>1, <3>2, ReadingCommand
  <2>3. CASE Exit \/ Crash
    BY <2>3, EmptySeq DEF Exit, Crash
  <2>7. CASE StartSession
    <3>1. lines' = <<"HOLD">> /\ UNCHANGED cmds /\ phase' # "off"
      BY <2>7 DEF StartSession
    <3>2. <<"HOLD">> \in Seq(Line)
      OBVIOUS
    <3> QED BY <1>0, <3>1, <3>2
  <2>4. CASE Handle
    <3>1. lines # <<>> /\ lines' = Tail(lines) /\ UNCHANGED phase /\ phase # "off"
      BY <1>0, <2>4 DEF Handle
    <3>2. UNCHANGED cmds \/ Send(session, "NONE")
      BY <2>4 DEF Handle
    <3>3. cmds' \in Seq(Command)
      BY <1>0, <3>2, Sending DEF TypeOK, Command
    <3> QED BY <1>0, <3>1, <3>3, HeadTailProperties
  <2>5. ASSUME SendProxy \/ \E t \in Releaser : WriteRelease(t)
        PROVE  SocketTypes'
    <3>1. UNCHANGED <<lines, phase>>
      BY <2>5, Frames DEF SendProxy
    <3>2. \E s \in Session, x \in Command : Send(s, x)
      <4>1. CASE \E t \in Releaser : WriteRelease(t)
        BY <1>0, <4>1, Frames DEF Command
      <4>2. CASE SendProxy
        BY <1>0, <4>2 DEF SendProxy, Command, Idle
      <4> QED BY <2>5, <4>1, <4>2
    <3> QED BY <1>0, <3>1, <3>2, Sending
  <2>6. CASE UNCHANGED <<lines, cmds, phase>> \/ (Answered /\ UNCHANGED socket)
    BY <1>0, <2>6 DEF Answered
  <2> QED BY <2>1, <2>2, <2>3, <2>4, <2>5, <2>6, <2>7, Cases, Frames DEF Answered, PostTimeout,
          AddStatusCallback, OnReceive, RemoveTimeouts, TimeOut, RemoveStatusCallback, vars
<1>5. timeouts' \in [Session -> Nat]
  <2>1. CASE RemoveTimeouts
    BY <1>0, <2>1 DEF RemoveTimeouts
  <2>2. ASSUME NEW s \in Session, PostTimeout(s)
        PROVE  timeouts' \in [Session -> Nat]
    BY <1>0, <2>2 DEF PostTimeout
  <2>3. ASSUME NEW s \in Session, TimeOut(s)
        PROVE  timeouts' \in [Session -> Nat]
    <3>1. timeouts[s] > 0 /\ timeouts' = [timeouts EXCEPT ![s] = @ - 1]
      BY <1>0, <2>3 DEF TimeOut
    <3> QED BY <1>0, <3>1
  <2>4. CASE UNCHANGED timeouts
    BY <1>0, <2>4
  <2> QED BY <2>1, <2>2, <2>3, <2>4, Cases, Frames DEF LeaveHold, ReadCommand, Answered, Restart,
          Exit, StartSession, Handle, AddStatusCallback, OnReceive, SendProxy,
          RemoveStatusCallback, Crash, vars
<1> QED BY <1>1, <1>2, <1>3, <1>4, <1>5, <1>6, <1>7, <1>8

LEMMA HandshakeStep ==
  ASSUME TypeOK, Handshake, [Next]_vars, ~twice'
  PROVE  Handshake'
<1>0. /\ cmds \in Seq(Command) /\ entry \in Entry
      /\ phase \in {"hold", "released", "query", "up", "off"}
      /\ phase = "off" => cmds = <<>>
  BY DEF TypeOK, Command
<1>e. \A c : ~Has(<<>>, c)
  BY EmptySeq DEF Has
<1> USE DEF openvpn, socket, mgmt, hold, orbot, Handshake
<1>1. CASE LeaveHold
  <2>1. /\ phase = "released" /\ phase' = "query" /\ asked' = TRUE
        /\ UNCHANGED <<cmds, owed>>
    BY <1>1 DEF LeaveHold
  <2>2. lines' = <<entry'>>
    BY <1>1, OneLine DEF LeaveHold, LinesInv
  <2> QED BY <2>1, <2>2 DEF LinesInv, HoldInv, CmdsInv, AnswerInv
<1>2. CASE ReadCommand
  <2>1. cmds # <<>> /\ cmds' = Tail(cmds) /\ UNCHANGED <<entry, lines, owed>>
    BY <1>2 DEF ReadCommand
  <2>2. /\ Has(cmds, Head(cmds)) /\ \A c : Has(cmds', c) => Has(cmds, c)
        /\ ReleaseLast(cmds) /\ Head(cmds) = "release" =>
             ~Has(cmds', "release") /\ ~Has(cmds', "NONE")
        /\ ReleaseLast(cmds) /\ Head(cmds) # "release" => ReleaseLast(cmds')
    BY <1>0, <2>1, ReadingCommand
  <2>3. CASE Head(cmds) = "release"
    <3>1. phase = "hold" /\ phase' = "released" /\ UNCHANGED <<asked, socks>>
      BY <1>0, <1>2, <2>1, <2>2, <2>3 DEF ReadCommand, CmdsInv
    <3>2. ReleaseLast(cmds) /\ lines = <<>> /\ ~owed
      BY <2>2, <2>3, <3>1 DEF HoldInv
    <3> QED BY <2>1, <2>2, <2>3, <3>1, <3>2 DEF LinesInv, HoldInv, CmdsInv, AnswerInv
  <2>4. CASE Head(cmds) \in {"SOCKS", "NONE"}
    <3>1. UNCHANGED phase /\ (Head(cmds) = "SOCKS" => socks')
      BY <1>2, <2>4 DEF ReadCommand
    <3>2. LinesInv' /\ HoldInv' /\ CmdsInv'
      BY <2>1, <2>2, <2>4, <3>1 DEF LinesInv, HoldInv, CmdsInv
    <3>3. AnswerInv'
      BY <2>1, <2>2, <2>4, <3>1 DEF AnswerInv, CmdsInv
    <3> QED BY <3>2, <3>3
  <2> QED BY <1>2, <2>3, <2>4 DEF ReadCommand
<1>3. CASE Answered
  BY <1>3 DEF Answered, LinesInv, HoldInv, CmdsInv, AnswerInv
<1>4. CASE Restart
  <2>1. phase \in {"query", "up"} /\ phase' = "hold"
        /\ UNCHANGED <<entry, cmds, owed>>
    BY <1>4 DEF Restart
  <2>2. lines' # <<>> /\ lines' \in {<<"HOLD">>, <<entry, "HOLD">>}
    <3>1. lines' = Append(lines, "HOLD") /\ lines \in {<<>>, <<entry>>}
      BY <1>4, <2>1 DEF Restart, LinesInv
    <3>2. CASE lines = <<>>
      BY <3>1, <3>2, OneLine
    <3>3. CASE lines = <<entry>>
      BY <3>1, <3>3, TwoLines
    <3> QED BY <3>1, <3>2, <3>3
  <2> QED BY <2>1, <2>2 DEF LinesInv, HoldInv, CmdsInv, AnswerInv
<1>5. CASE Exit \/ Crash
  <2>1. phase' = "off" /\ lines' = <<>>
    BY <1>5 DEF Exit, Crash
  <2> QED BY <2>1 DEF LinesInv, HoldInv, CmdsInv, AnswerInv
<1>6. CASE StartSession
  <2>1. phase' = "hold" /\ lines' = <<"HOLD">> /\ owed' = FALSE /\ cmds' = <<>>
    BY <1>0, <1>6 DEF StartSession
  <2> QED BY <1>e, <2>1, OneLine DEF LinesInv, HoldInv, CmdsInv, AnswerInv
<1>7. CASE Handle
  <2>0. UNCHANGED openvpn /\ (Head(lines) = "HOLD" => owed' = TRUE /\ UNCHANGED cmds)
        /\ (Head(lines) # "HOLD" => UNCHANGED owed)
        /\ (UNCHANGED cmds \/ (Head(lines) = "NONE" /\ Send(session, "NONE")))
    BY <1>7 DEF Handle
  <2>1. \A c : Has(cmds', c) => Has(cmds, c) \/ (Head(lines) = "NONE" /\ c = "NONE")
    BY <2>0, Sending DEF TypeOK, Command
  <2>2. CASE lines = <<"HOLD">> /\ Head(lines) = "HOLD" /\ lines' = <<>> /\ phase = "hold"
    BY <2>0, <2>2, OneLine DEF LinesInv, HoldInv, CmdsInv, AnswerInv
  <2>3. CASE lines = <<entry>> /\ Head(lines) = entry /\ lines' = <<>> /\ phase \in {"query", "up"}
    BY <1>0, <2>0, <2>1, <2>3 DEF LinesInv, HoldInv, CmdsInv, AnswerInv, Entry
  <2>4. CASE lines = <<entry, "HOLD">> /\ Head(lines) = entry /\ lines' = <<"HOLD">> /\ phase = "hold"
    BY <1>0, <2>0, <2>1, <2>4, OneLine, TwoLines DEF LinesInv, HoldInv, CmdsInv, AnswerInv, Entry
  <2> QED BY <1>7, <2>2, <2>3, <2>4, HandledLine
<1>8. ASSUME NEW t \in Releaser, WriteRelease(t)
      PROVE  Handshake'
  <2>1. Send(session, "release") /\ owed /\ owed' = FALSE /\ UNCHANGED <<openvpn, lines>>
    BY <1>8, Frames
  <2>2. phase \in {"hold", "off"}
    BY <1>0, <2>1 DEF CmdsInv
  <2>3. phase = "hold" => lines = <<>> /\ ReleaseLast(cmds')
    <3>1. ASSUME phase = "hold"
          PROVE  lines = <<>> /\ ~Has(cmds, "release") /\ cmds' = Append(cmds, "release")
      BY <2>1, <3>1 DEF HoldInv, Send, TypeOK
    <3> QED BY <1>0, <3>1, AppendCommand DEF Command
  <2> QED BY <2>1, <2>2, <2>3 DEF LinesInv, HoldInv, CmdsInv, AnswerInv
<1>9. CASE SendProxy
  <2>1. UNCHANGED <<openvpn, lines, owed>>
    BY <1>9 DEF SendProxy
  <2>2. Send(main.cb, "SOCKS") /\ main.cb \in Session
    BY <1>9 DEF SendProxy, TypeOK, Idle
  <2>3. /\ \A c : Has(cmds', c) => Has(cmds, c) \/ "SOCKS" = c
        /\ ReleaseLast(cmds) => ReleaseLast(cmds')
    BY <2>2, Sending DEF Command
  <2> QED BY <2>1, <2>3 DEF LinesInv, HoldInv, CmdsInv, AnswerInv
<1>10. CASE UNCHANGED <<openvpn, socket, owed>>
  BY <1>10 DEF LinesInv, HoldInv, CmdsInv, AnswerInv
<1> QED BY <1>1, <1>2, <1>3, <1>4, <1>5, <1>6, <1>7, <1>8, <1>9, <1>10, Cases, Frames
        DEF PostTimeout, AddStatusCallback, OnReceive, RemoveTimeouts, TimeOut,
            RemoveStatusCallback, vars

LEMMA InitInv == Init => IInv
<1> SUFFICES ASSUME Init PROVE IInv
  OBVIOUS
<1> USE DEF Init
<1>1. TypeOK
  <2>1. <<"HOLD">> \in Seq(Entry \cup {"HOLD"}) /\ <<>> \in Seq({"release", "SOCKS", "NONE"})
    OBVIOUS
  <2>2. session \in Session /\ queries \in 0..MaxQueries
    BY QueryAssumption DEF Session
  <2>3. timeouts \in [Session -> Nat] /\ pc \in [Session -> {"idle", "hold", "post", "add"}]
    OBVIOUS
  <2> QED BY <2>1, <2>2, <2>3 DEF TypeOK, Entry
<1>2. Handshake
  BY OneLine, EmptySeq DEF Handshake, LinesInv, HoldInv, CmdsInv, AnswerInv, Has
<1> QED BY <1>1, <1>2 DEF IInv

LEMMA StepInv == IInv /\ [Next]_vars => IInv'
<1> SUFFICES ASSUME IInv, [Next]_vars PROVE IInv'
  OBVIOUS
<1>1. TypeOK'
  BY TypeStep DEF IInv
<1>2. twice => twice'
  BY Cases, Frames DEF LeaveHold, ReadCommand, Answered, Restart, Exit, StartSession, Handle,
     PostTimeout, AddStatusCallback, OnReceive, RemoveTimeouts, SendProxy, TimeOut,
     RemoveStatusCallback, Crash, vars, mgmt, hold
<1>3. ~twice' => Handshake'
  BY <1>2, HandshakeStep DEF IInv
<1> QED BY <1>1, <1>3 DEF IInv

-------------------------------------------------------------------------------
LEMMA StageStep ==
  ASSUME TypeOK, StageInv, [Next]_vars, ~overtaken'
  PROVE  Stage'
<1>0. /\ session \in Session /\ entry \in Entry /\ cmds \in Seq(Command)
      /\ phase \in {"hold", "released", "query", "up", "off"}
      /\ asked \in BOOLEAN /\ (asked => phase = "query")
      /\ phase = "off" => lines = <<>> /\ cmds = <<>>
      /\ pc \in [Session -> {"idle", "hold", "post", "add"}]
  BY DEF TypeOK, Command
<1>1. ~overtaken
  BY Cases, Frames DEF LeaveHold, ReadCommand, Answered, Restart, Exit, StartSession, Handle,
     OnReceive, RemoveTimeouts, SendProxy, RemoveStatusCallback, Crash,
     PostTimeout, AddStatusCallback, TimeOut, vars, openvpn
<1>2. Stage
  BY <1>1 DEF StageInv
<1>3. Idle.at = "idle" /\ NoAnswer(<<>>)
  BY DEF Idle, NoAnswer
<1> USE DEF openvpn, socket, mgmt, hold, orbot, Unanswered, Waiting, Elsewhere
<1>4. CASE LeaveHold
  <2>1. /\ main = Idle /\ phase = "released" /\ phase' = "query" /\ asked' = TRUE
        /\ entry' \in Entry /\ UNCHANGED <<session, cmds, mgmt, orbot>>
        /\ lines' = Append(lines, entry')
    BY <1>4, <1>1 DEF LeaveHold
  <2>2. Settled /\ ~crashed
    BY <1>0, <1>2, <2>1 DEF Stage
  <2>3. lines' \in {<<entry'>>, <<"HOLD", entry'>>} /\ NoAnswer(cmds')
    BY <2>1, <2>2, OneLine, TwoLines DEF Settled, Quiet
  <2>4. Finished' /\ ThreadFree' /\ NoTimeout' /\ statusCallbacks' = {}
    BY <1>3, <2>1, <2>2 DEF Settled, Finished, Removing, ThreadFree, NoTimeout
  <2>5. CASE entry' = "ORBOT"
    BY <2>1, <2>2, <2>3, <2>4, <2>5 DEF Stage, Announced
  <2>6. CASE entry' = "NONE"
    BY <2>1, <2>2, <2>3, <2>4, <2>6 DEF Stage, Settled, Quiet
  <2> QED BY <2>1, <2>5, <2>6 DEF Entry
<1>5. CASE ReadCommand
  <2>1. cmds # <<>> /\ cmds' = Tail(cmds) /\ UNCHANGED <<session, entry, lines, mgmt, orbot>>
    BY <1>5 DEF ReadCommand
  <2>2. /\ NoAnswer(cmds) => Head(cmds) = "release" /\ NoAnswer(cmds')
        /\ \A x \in {"SOCKS", "NONE"} : OneAnswer(cmds, x) =>
             \/ Head(cmds) = "release" /\ OneAnswer(cmds', x)
             \/ Head(cmds) = x /\ NoAnswer(cmds')
    BY <1>0, <2>1, ReadingAnswer
  <2>3. /\ Head(cmds) = "release" => phase' \in {phase, "released"} /\ UNCHANGED asked
                                     /\ (phase # "hold" => phase' = phase)
        /\ Head(cmds) \in {"SOCKS", "NONE"} => asked' = FALSE /\ UNCHANGED phase
    BY <1>5 DEF ReadCommand
  <2>4. CASE Waiting
    <3>1. CASE NoAnswer(cmds)
      <4>1. Waiting' /\ NoAnswer(cmds')
        BY <2>1, <2>2, <2>3, <2>4, <3>1
      <4>2. Announced \/ Posting \/ Adding \/ Expecting
        <5>1. ~Served
          BY <2>2, <3>1 DEF Served, OneAnswer, NoAnswer
        <5> QED BY <1>2, <2>4, <5>1 DEF Stage
      <4> QED BY <1>2, <2>1, <4>1, <4>2 DEF Stage, Announced, Posting, Adding, Expecting, Removing,
              ThreadFree, ThreadAt, NoTimeout, OneTimeout
    <3>2. CASE ~NoAnswer(cmds)
      <4>1. Served
        BY <1>2, <2>4, <3>2 DEF Stage, Announced, Posting, Adding, Expecting
      <4>2. Finished'
        BY <2>1, <4>1 DEF Served, Finished, Removing, ThreadFree, NoTimeout
      <4>3. CASE Head(cmds) = "release" /\ OneAnswer(cmds', "SOCKS")
        BY <1>2, <2>1, <2>3, <2>4, <4>1, <4>2, <4>3 DEF Stage, Served
      <4>4. CASE Head(cmds) = "SOCKS" /\ NoAnswer(cmds')
        BY <1>2, <2>1, <2>3, <2>4, <4>1, <4>2, <4>4 DEF Stage, Served, Settled, Quiet
      <4> QED BY <2>2, <4>1, <4>3, <4>4 DEF Served
    <3> QED BY <3>1, <3>2
  <2>5. CASE ~Waiting
    <3>1. Settled /\ ~crashed
      BY <1>2, <2>5 DEF Stage
    <3>2. Finished'
      BY <2>1, <3>1 DEF Settled, Finished, Removing, ThreadFree, NoTimeout
    <3>3. CASE phase \in {"hold", "released"}
      <4>1. lines \in {<<>>, <<"HOLD">>} /\ Head(cmds) = "release" /\ NoAnswer(cmds')
        BY <2>2, <3>1, <3>3 DEF Settled, Quiet
      <4>2. phase' \in {"hold", "released"}
        BY <2>3, <3>3, <4>1
      <4> QED BY <2>1, <3>1, <3>2, <4>1, <4>2 DEF Stage, Settled, Quiet
    <3>4. CASE phase = "up" \/ (phase = "query" /\ ~asked)
      <4>1. lines = <<>> /\ Head(cmds) = "release" /\ NoAnswer(cmds')
        BY <2>2, <3>1, <3>4 DEF Settled, Quiet
      <4>2. phase' = phase /\ asked' = asked
        BY <2>3, <3>4, <4>1
      <4> QED BY <1>0, <2>1, <3>1, <3>2, <3>4, <4>1, <4>2 DEF Stage, Settled, Quiet
    <3>5. CASE Unanswered /\ entry = "NONE"
      <4>1. CASE lines \in {<<"NONE">>, <<"HOLD", "NONE">>} /\ NoAnswer(cmds)
        <5>1. phase' = phase /\ asked' = asked /\ NoAnswer(cmds')
          BY <2>2, <2>3, <3>5, <4>1
        <5> QED BY <2>1, <3>1, <3>2, <3>5, <4>1, <5>1 DEF Stage, Settled, Quiet
      <4>2. CASE lines = <<>> /\ Head(cmds) = "release" /\ OneAnswer(cmds', "NONE")
        <5>1. phase' = phase /\ asked' = asked
          BY <2>3, <3>5, <4>2
        <5> QED BY <2>1, <3>1, <3>2, <3>5, <4>2, <5>1 DEF Stage, Settled, Quiet
      <4>3. CASE lines = <<>> /\ Head(cmds) = "NONE" /\ NoAnswer(cmds')
        BY <2>1, <2>3, <3>1, <3>2, <3>5, <4>3 DEF Stage, Settled, Quiet
      <4> QED BY <2>2, <3>1, <3>5, <4>1, <4>2, <4>3 DEF Settled, Quiet
    <3> QED BY <1>0, <2>1, <2>5, <3>3, <3>4, <3>5 DEF Entry
  <2> QED BY <2>4, <2>5
<1>6. CASE Answered \/ Exit
  <2>1. ~Unanswered /\ ~Unanswered' /\ UNCHANGED <<session, mgmt, orbot>>
    BY <1>6 DEF Answered, Exit
  <2>2. Settled /\ ~crashed
    BY <1>2, <2>1 DEF Stage
  <2>3. Finished'
    BY <2>1, <2>2 DEF Settled, Finished, Removing, ThreadFree, NoTimeout
  <2>4. phase' \in {"up", "off"} /\ lines' = <<>> /\ NoAnswer(cmds')
    BY <1>3, <1>6, <2>2 DEF Answered, Exit, Settled, Quiet
  <2> QED BY <2>1, <2>2, <2>3, <2>4 DEF Stage, Settled, Quiet
<1>7. CASE Restart
  <2>1. /\ ~Unanswered /\ phase \in {"query", "up"} /\ phase' = "hold"
        /\ lines' = Append(lines, "HOLD") /\ UNCHANGED <<session, cmds, mgmt, orbot>>
    BY <1>7 DEF Restart
  <2>2. Settled /\ ~crashed
    BY <1>2, <2>1 DEF Stage
  <2>3. lines' = <<"HOLD">> /\ NoAnswer(cmds')
    BY <2>1, <2>2, OneLine DEF Settled, Quiet
  <2>4. Finished'
    BY <2>1, <2>2 DEF Settled, Finished, Removing, ThreadFree, NoTimeout
  <2> QED BY <2>1, <2>2, <2>3, <2>4 DEF Stage, Settled, Quiet
<1>8. CASE StartSession
  <2>1. /\ phase = "off" /\ phase' = "hold" /\ lines' = <<"HOLD">> /\ UNCHANGED <<cmds, pc, orbot>>
    BY <1>8 DEF StartSession
  <2>2. Settled /\ ~crashed
    BY <1>2, <2>1 DEF Stage
  <2>3. Finished'
    BY <2>1, <2>2 DEF Settled, Finished, Removing, ThreadFree, NoTimeout
  <2> QED BY <1>0, <1>3, <2>1, <2>2, <2>3 DEF Stage, Settled, Quiet
<1>9. CASE Handle
  <2>0. /\ lines # <<>> /\ lines' = Tail(lines) /\ UNCHANGED <<openvpn, orbot>>
        /\ Head(lines) = "HOLD" => pc' = [pc EXCEPT ![session] = "hold"] /\ UNCHANGED cmds
        /\ Head(lines) = "NONE" => Send(session, "NONE") /\ UNCHANGED pc
        /\ Head(lines) = "ORBOT" => pc' = [pc EXCEPT ![session] = "post"] /\ UNCHANGED cmds
    BY <1>9 DEF Handle, Goto
  <2>a. /\ Head(lines) # "ORBOT" /\ ThreadFree => ThreadFree' \/ Head(lines) \notin {"HOLD", "NONE"}
        /\ Head(lines) = "ORBOT" /\ ThreadFree => ThreadAt("post")'
    BY <1>0, <2>0 DEF ThreadFree, ThreadAt
  <2>b. Head(lines) \in {"HOLD", "NONE"} /\ Finished => Finished'
    BY <2>0, <2>a DEF Finished, Removing, NoTimeout
  <2>1. CASE Waiting
    <3>1. Announced
      BY <1>2, <2>0, <2>1 DEF Stage, Posting, Adding, Expecting, Served
    <3>2. CASE lines = <<"ORBOT">>
      <4>1. lines' = <<>> /\ Head(lines) = "ORBOT"
        BY <2>0, <3>2, OneLine
      <4> QED BY <1>2, <2>0, <2>a, <2>1, <3>1, <4>1 DEF Stage, Announced, Posting, NoTimeout
    <3>3. CASE lines = <<"HOLD", "ORBOT">>
      <4>1. lines' = <<"ORBOT">> /\ Head(lines) = "HOLD"
        BY <2>0, <3>3, TwoLines
      <4> QED BY <1>2, <2>0, <2>a, <2>1, <3>1, <4>1 DEF Stage, Announced, NoTimeout
    <3> QED BY <3>1, <3>2, <3>3 DEF Announced
  <2>2. CASE phase \in {"hold", "released"}
    <3>1. Settled /\ ~crashed /\ lines = <<"HOLD">>
      BY <1>2, <2>0, <2>2 DEF Stage, Settled, Quiet
    <3>2. lines' = <<>> /\ Head(lines) = "HOLD"
      BY <2>0, <3>1, OneLine
    <3> QED BY <2>0, <2>b, <2>2, <3>1, <3>2 DEF Stage, Settled, Quiet
  <2>3. CASE Unanswered /\ entry = "NONE"
    <3>1. Settled /\ ~crashed /\ NoAnswer(cmds) /\ lines \in {<<"NONE">>, <<"HOLD", "NONE">>}
      BY <1>2, <2>0, <2>3 DEF Stage, Settled, Quiet
    <3>2. CASE lines = <<"NONE">>
      <4>1. lines' = <<>> /\ Head(lines) = "NONE"
        BY <2>0, <3>2, OneLine
      <4>2. cmds' = Append(cmds, "NONE")
        BY <2>0, <2>3, <4>1 DEF Send
      <4>3. OneAnswer(cmds', "NONE")
        BY <1>0, <3>1, <4>2, AppendAnswer DEF Command
      <4> QED BY <2>0, <2>b, <2>3, <3>1, <4>1, <4>3 DEF Stage, Settled, Quiet
    <3>3. CASE lines = <<"HOLD", "NONE">>
      <4>1. lines' = <<"NONE">> /\ Head(lines) = "HOLD"
        BY <2>0, <3>3, TwoLines
      <4> QED BY <2>0, <2>b, <2>3, <3>1, <4>1 DEF Stage, Settled, Quiet
    <3> QED BY <3>1, <3>2, <3>3
  <2>4. CASE phase = "up" \/ (phase = "query" /\ ~asked)
    BY <1>2, <2>0, <2>4 DEF Stage, Settled, Quiet
  <2> QED BY <1>0, <2>0, <2>1, <2>2, <2>3, <2>4 DEF Entry
<1>10. ASSUME NEW s \in Session, PostTimeout(s)
       PROVE  Stage'
  <2>1. /\ pc[s] = "post" /\ timeouts' = [timeouts EXCEPT ![s] = @ + 1]
        /\ pc' = [pc EXCEPT ![s] = "add"]
        /\ UNCHANGED <<openvpn, socket, statusCallbacks, main, crashed>>
    BY <1>10 DEF PostTimeout, Goto
  <2>2. Waiting /\ Posting
    BY <1>0, <1>2, <2>1
       DEF Stage, Settled, Finished, ThreadFree, ThreadAt, Announced, Adding, Expecting, Served
  <2>3. s = session
    BY <2>1, <2>2 DEF Posting, ThreadAt
  <2>4. ThreadAt("add")'
    BY <1>0, <2>1, <2>2, <2>3 DEF Posting, ThreadAt
  <2>5. OneTimeout'
    BY <1>0, <2>1, <2>2, <2>3 DEF Posting, NoTimeout, OneTimeout
  <2> QED BY <1>2, <2>1, <2>2, <2>4, <2>5 DEF Stage, Posting, Adding
<1>11. ASSUME NEW s \in Session, AddStatusCallback(s)
       PROVE  Stage'
  <2>1. /\ pc[s] = "add" /\ statusCallbacks' = statusCallbacks \cup {s}
        /\ pc' = [pc EXCEPT ![s] = "idle"]
        /\ UNCHANGED <<openvpn, socket, timeouts, main, crashed>>
    BY <1>11 DEF AddStatusCallback, Goto
  <2>2. Waiting /\ Adding
    BY <1>0, <1>2, <2>1
       DEF Stage, Settled, Finished, ThreadFree, ThreadAt, Announced, Posting, Expecting, Served
  <2>3. s = session
    BY <2>1, <2>2 DEF Adding, ThreadAt
  <2>4. ThreadFree'
    BY <1>0, <2>1, <2>2, <2>3 DEF Adding, ThreadAt, ThreadFree
  <2>5. statusCallbacks' = {session}
    BY <2>1, <2>2, <2>3 DEF Adding
  <2> QED BY <1>2, <2>1, <2>2, <2>4, <2>5 DEF Stage, Adding, Expecting, OneTimeout
<1>12. ASSUME NEW t \in Releaser, WriteRelease(t)
       PROVE  Stage'
  <2>1. Send(session, "release") /\ UNCHANGED <<openvpn, lines, pc, orbot>>
    BY <1>12, Frames
  <2>2. CASE phase = "off"
    <3>1. cmds' = cmds
      BY <2>1, <2>2 DEF Send
    <3> QED BY <1>2, <2>1, <2>2, <3>1
            DEF Stage, Settled, Quiet, Finished, Removing, ThreadFree, NoTimeout
  <2>3. CASE phase # "off"
    <3>1. cmds' = Append(cmds, "release")
      BY <2>1, <2>3 DEF Send
    <3>2. /\ NoAnswer(cmds) => NoAnswer(cmds')
          /\ \A x : OneAnswer(cmds, x) => OneAnswer(cmds', x)
      BY <1>0, <3>1, AppendAnswer DEF Command
    <3>3. Finished => Finished'
      BY <2>1 DEF Finished, Removing, ThreadFree, NoTimeout
    <3>4. CASE Waiting
      BY <1>2, <2>1, <3>2, <3>3, <3>4 DEF Stage, Announced, Posting, Adding, Expecting, Served,
         Removing, ThreadFree, ThreadAt, NoTimeout, OneTimeout
    <3>5. CASE ~Waiting
      BY <1>2, <2>1, <3>2, <3>3, <3>5 DEF Stage, Settled, Quiet
    <3> QED BY <3>4, <3>5
  <2> QED BY <2>2, <2>3
<1>13. CASE OnReceive
  <2>1. main = Idle /\ UNCHANGED <<openvpn, socket, mgmt, timeouts, statusCallbacks, crashed>>
    BY <1>13 DEF OnReceive, Looping
  <2>2. PICK s \in statusCallbacks :
          main' = [at |-> "remove", cb |-> s, more |-> statusCallbacks # {s}]
    BY <1>13 DEF OnReceive
  <2>3. Waiting /\ Expecting
    BY <1>2, <1>3, <2>1, <2>2
       DEF Stage, Settled, Finished, Announced, Posting, Adding, Served, Removing
  <2>4. statusCallbacks = {session} /\ s = session /\ OneTimeout
    BY <1>3, <2>1, <2>2, <2>3 DEF Expecting, Removing
  <2>5. main'.at = "remove" /\ main'.cb = session /\ main'.more = FALSE
    BY <2>2, <2>4
  <2> QED BY <1>0, <1>2, <2>1, <2>3, <2>4, <2>5
          DEF Stage, Expecting, Removing, OneTimeout, ThreadFree
<1>14. CASE RemoveTimeouts
  <2>1. /\ main.at = "remove" /\ main' = [main EXCEPT !.at = "send"]
        /\ timeouts' = [timeouts EXCEPT ![main.cb] = 0]
        /\ UNCHANGED <<openvpn, socket, mgmt, statusCallbacks, crashed>>
    BY <1>14 DEF RemoveTimeouts
  <2>2. Waiting /\ Expecting
    BY <1>2, <1>3, <2>1
       DEF Stage, Settled, Finished, Announced, Posting, Adding, Served, Removing
  <2>3. main.cb = session /\ OneTimeout /\ statusCallbacks = {session} /\ main.more = FALSE
    BY <1>3, <2>1, <2>2 DEF Expecting, Removing
  <2>4. NoTimeout'
    BY <1>0, <2>1, <2>3 DEF OneTimeout, NoTimeout
  <2>5. main'.at = "send" /\ main'.cb = session /\ main'.more = FALSE
    BY <1>3, <2>1, <2>3 DEF TypeOK
  <2> QED BY <1>0, <1>2, <2>1, <2>2, <2>3, <2>4, <2>5 DEF Stage, Expecting, Removing, ThreadFree
<1>15. CASE SendProxy
  <2>1. /\ main.at = "send" /\ main' = [main EXCEPT !.at = "drop"] /\ Send(main.cb, "SOCKS")
        /\ UNCHANGED <<openvpn, lines, mgmt, timeouts, statusCallbacks, crashed>>
    BY <1>15 DEF SendProxy
  <2>2. Waiting /\ Expecting
    BY <1>2, <1>3, <2>1
       DEF Stage, Settled, Finished, Announced, Posting, Adding, Served, Removing
  <2>3. main.cb = session /\ NoTimeout /\ statusCallbacks = {session} /\ main.more = FALSE
    BY <1>3, <2>1, <2>2 DEF Expecting, Removing
  <2>4. OneAnswer(cmds', "SOCKS")
    <3>1. cmds' = Append(cmds, "SOCKS") /\ NoAnswer(cmds)
      BY <2>1, <2>2, <2>3 DEF Send, Expecting
    <3> QED BY <1>0, <3>1, AppendAnswer DEF Command
  <2>5. main'.at = "drop" /\ main'.cb = session /\ main'.more = FALSE
    BY <1>3, <2>1, <2>3 DEF TypeOK
  <2>6. Finished'
    BY <1>0, <2>1, <2>2, <2>3, <2>5 DEF Expecting, Finished, Removing, ThreadFree, NoTimeout
  <2> QED BY <1>2, <2>1, <2>2, <2>4, <2>6 DEF Stage, Expecting, Served
<1>16. ASSUME NEW s \in Session, TimeOut(s)
       PROVE  Stage'
  <2>1. /\ main = Idle /\ timeouts[s] > (IF pc[s] = "add" THEN 1 ELSE 0)
        /\ timeouts' = [timeouts EXCEPT ![s] = @ - 1]
        /\ main' = [at |-> "send", cb |-> s, more |-> FALSE]
        /\ UNCHANGED <<openvpn, socket, mgmt, statusCallbacks, crashed>>
    BY <1>16 DEF TimeOut, Looping
  <2>2. ~NoTimeout /\ ~Adding
    BY <2>1 DEF NoTimeout, Adding, OneTimeout, ThreadAt
  <2>3. Waiting /\ Expecting
    BY <1>2, <2>2 DEF Stage, Settled, Finished, Announced, Posting, Served
  <2>4. statusCallbacks = {session} /\ OneTimeout /\ s = session
    BY <1>3, <2>1, <2>2, <2>3 DEF Expecting, Removing, OneTimeout
  <2>5. NoTimeout'
    BY <1>0, <2>1, <2>4 DEF OneTimeout, NoTimeout
  <2>6. main'.at = "send" /\ main'.cb = session /\ main'.more = FALSE
    BY <2>1, <2>4
  <2> QED BY <1>0, <1>2, <2>1, <2>3, <2>4, <2>5, <2>6 DEF Stage, Expecting, Removing, ThreadFree
<1>17. CASE RemoveStatusCallback \/ Crash
  <2>1. main.at = "drop"
    BY <1>17 DEF RemoveStatusCallback, Crash
  <2>2. Finished /\ Removing("drop")
    BY <1>2, <1>3, <2>1
       DEF Stage, Settled, Finished, Announced, Posting, Adding, Expecting, Served, Removing
  <2>3. ~Throws
    BY <2>2 DEF Throws, Removing
  <2>4. /\ statusCallbacks' = {} /\ main' = Idle
        /\ UNCHANGED <<openvpn, socket, mgmt, timeouts, crashed>>
    BY <1>17, <2>2, <2>3 DEF RemoveStatusCallback, Crash, Removing
  <2>5. Finished'
    BY <2>2, <2>4 DEF Finished, ThreadFree, NoTimeout
  <2>6. CASE Waiting
    <3>1. Served
      BY <1>2, <1>3, <2>1, <2>6 DEF Stage, Announced, Posting, Adding, Expecting, Removing
    <3> QED BY <1>2, <2>4, <2>5, <2>6, <3>1 DEF Stage, Served
  <2>7. CASE ~Waiting
    BY <1>2, <2>4, <2>5, <2>7 DEF Stage, Settled, Quiet
  <2> QED BY <2>6, <2>7
<1>18. ASSUME NEW s \in Session, PostResume(s)
       PROVE  Stage'
  <2>1. /\ pc[s] = "hold" /\ pc' = [pc EXCEPT ![s] = "idle"]
        /\ UNCHANGED <<openvpn, socket, orbot>>
    BY <1>18 DEF PostResume, Goto
  <2>2. /\ ThreadFree => ThreadFree'
        /\ \A label \in {"post", "add"} : ThreadAt(label) => ThreadAt(label)'
    BY <1>0, <2>1 DEF ThreadFree, ThreadAt
  <2>3. Finished => Finished'
    BY <2>1, <2>2 DEF Finished, Removing, NoTimeout
  <2>4. CASE Waiting
    BY <1>2, <2>1, <2>2, <2>3, <2>4 DEF Stage, Announced, Posting, Adding, Expecting, Served,
       Removing, NoTimeout, OneTimeout
  <2>5. CASE ~Waiting
    BY <1>2, <2>1, <2>3, <2>5 DEF Stage, Settled, Quiet
  <2> QED BY <2>4, <2>5
<1>19. CASE UNCHANGED <<openvpn, socket, pc, orbot>>
  BY <1>2, <1>19 DEF Stage, Announced, Posting, Adding, Expecting, Served, Settled, Quiet,
     Finished, Removing, ThreadFree, ThreadAt, NoTimeout, OneTimeout
<1>20. CASE Releasing
  <2>1. ResumeHold \/ (\E t \in Releaser : ReleaseHold(t) \/ ClearWaiting(t)) => UNCHANGED pc
    BY DEF ResumeHold, ReleaseHold, ClearWaiting
  <2> QED BY <1>18, <1>19, <1>20, <2>1, Frames DEF Releasing
<1> QED BY <1>4, <1>5, <1>6, <1>7, <1>8, <1>9, <1>10, <1>11, <1>12, <1>13, <1>14, <1>15,
           <1>16, <1>17, <1>19, <1>20, Cases DEF vars

LEMMA InitStage == Init => StageInv
<1> SUFFICES ASSUME Init PROVE Stage
  BY DEF StageInv
<1>1. Finished /\ ~Unanswered /\ ~crashed
  BY DEF Init, Finished, ThreadFree, Elsewhere, NoTimeout, Unanswered
<1>2. NoAnswer(<<>>)
  BY DEF NoAnswer
<1> QED BY <1>1, <1>2 DEF Init, Stage, Settled, Quiet, Waiting

-------------------------------------------------------------------------------
(* Every variable keeps its type, and a process that has ended is sent     *)
(* nothing.                                                                *)
THEOREM QueryTypes == Spec => []TypeOK
<1>1. IInv => TypeOK
  BY DEF IInv
<1> QED BY <1>1, InitInv, StepInv, PTL DEF Spec

(* An entry that goes through Orbot is connected without it only after     *)
(* some hold was released twice.                                           *)
THEOREM OrbotIsAlwaysUsed == Spec => []OrbotIsUsed
<1>1. IInv => OrbotIsUsed
  BY DEF IInv, TypeOK, Handshake, AnswerInv, OrbotIsUsed
<1> QED BY <1>1, InitInv, StepInv, PTL DEF Spec

(* The looper throws only after a query was overtaken.                     *)
THEOREM CrashesNeedOvertaking == Spec => []CrashNeedsOvertaking
<1>1. Init => IInv /\ StageInv
  BY InitInv, InitStage
<1>2. IInv /\ StageInv /\ [Next]_vars => (IInv /\ StageInv)'
  BY StepInv, StageStep DEF IInv, StageInv
<1>3. StageInv => CrashNeedsOvertaking
  BY DEF StageInv, Stage, CrashNeedsOvertaking
<1> QED BY <1>1, <1>2, <1>3, PTL DEF Spec
===============================================================================
