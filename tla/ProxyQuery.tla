------------------------------ MODULE ProxyQuery ------------------------------
(***************************************************************************)
(* Before a connection openvpn asks for a proxy and waits.  For an entry   *)
(* that goes through Orbot the management thread posts a timeout, adds its *)
(* callback to the process-wide OrbotHelper and asks Orbot for its status; *)
(* the main looper answers openvpn, upon Orbot's broadcast or the timeout. *)
(* A signal ends the query and leaves callback and timeout behind.         *)
(*                                                                         *)
(* A session is a management thread with its openvpn process.  The set of  *)
(* callbacks and the looper are common to all sessions.  The broadcast     *)
(* receiver is registered as long as the set is not empty.                 *)
(***************************************************************************)
EXTENDS Naturals, Sequences

CONSTANTS
  Sessions,     \* bound: number of sessions
  MaxQueries    \* bound: number of proxy queries

ASSUME QueryAssumption == Sessions \in Nat \ {0} /\ MaxQueries \in Nat

Session == 1..Sessions
Entry == {"ORBOT", "NONE"}

(* Who releases a hold: the looper (its own mResumeHoldRunnable, or the    *)
(* receiver's calls) and a thread that serves a client of the API.         *)
Releaser == {"main", "binder"}

VARIABLES
  session,          \* the one that has the process
  phase,            \* the process: hold, released, query, up; off: it has ended
  entry,            \* the kind of the connection entry
  asked,            \* CE_MAN_QUERY_PROXY
  socks,            \* the entry's socks_proxy_server is set
  queries,
  lines, cmds,      \* the two directions of the socket
  mWaitingForRelease,
  resumes,          \* mResumeHoldRunnables in the looper's queue
  releasing,        \* where in releaseHoldCmd each releaser is
  pc,               \* the management threads: idle, in handleHold, or in
                    \* processProxyCMD
  timeouts,         \* orbotStatusTimeOutRunnables in the looper's queue
  statusCallbacks,
  main,             \* the looper: idle, or what it is about to do for a callback
  crashed,          \* an exception on the main looper ended the service's process
  overtaken,        \* history: a query has ended without an answer, or followed
                    \* while the looper was busy with the one before
  owed,             \* history: a hold was announced, and not released since
  twice             \* history: a hold was released again

openvpn == <<session, phase, entry, asked, socks, queries, overtaken>>
socket == <<lines, cmds>>
hold == <<mWaitingForRelease, resumes, releasing, owed, twice>>
mgmt == <<hold, pc>>
orbot == <<timeouts, statusCallbacks, main, crashed>>
vars == <<openvpn, socket, mgmt, orbot>>

Idle == [at |-> "idle"]

Init ==
  /\ session = 1 /\ phase = "hold" /\ entry = "NONE"
  /\ asked = FALSE /\ socks = FALSE /\ queries = 0
  /\ lines = <<"HOLD">> /\ cmds = <<>>
  /\ mWaitingForRelease = FALSE /\ resumes = 0
  /\ releasing = [t \in Releaser |-> "no"]
  /\ owed = FALSE /\ twice = FALSE
  /\ pc = [s \in Session |-> "idle"]
  /\ timeouts = [s \in Session |-> 0]
  /\ statusCallbacks = {} /\ main = Idle
  /\ crashed = FALSE /\ overtaken = FALSE

(* Mutant: whoever writes finds a socket.                                  *)
Send_ToAnyone(s, cmd) == cmds' = Append(cmds, cmd)

(* managmentCommand: a socket that is closed takes nothing.                *)
Send(s, cmd) ==
  cmds' = IF s = session /\ phase # "off" THEN Append(cmds, cmd) ELSE cmds

-------------------------------------------------------------------------------
(* The openvpn process.                                                    *)
(* Mutant: the hold does not wait for the client.                          *)
LeaveHold_Unreleased ==
  /\ phase \in {"hold", "released"} /\ queries < MaxQueries
  /\ phase' = "query" /\ queries' = queries + 1
  /\ entry' \in Entry
  /\ asked' = TRUE /\ socks' = FALSE
  /\ lines' = Append(lines, entry')
  /\ overtaken' = (overtaken \/ main # Idle)
  /\ UNCHANGED <<session, cmds, mgmt, orbot>>

(* next_connection_entry copies an entry and asks.                         *)
LeaveHold ==
  /\ phase = "released" /\ queries < MaxQueries
  /\ phase' = "query" /\ queries' = queries + 1
  /\ entry' \in Entry
  /\ asked' = TRUE /\ socks' = FALSE
  /\ lines' = Append(lines, entry')
  /\ overtaken' = (overtaken \/ main # Idle)
  /\ UNCHANGED <<session, cmds, mgmt, orbot>>

(* Lines are processed as they come: a proxy command changes the entry at  *)
(* hand even if none is asked for.                                         *)
ReadCommand ==
  /\ cmds # <<>>
  /\ cmds' = Tail(cmds)
  /\ \/ /\ Head(cmds) = "release"
        /\ phase' = IF phase = "hold" THEN "released" ELSE phase
        /\ UNCHANGED <<asked, socks>>
     \/ /\ Head(cmds) \in {"SOCKS", "NONE"}
        /\ asked' = FALSE
        /\ socks' = (socks \/ Head(cmds) = "SOCKS")
        /\ UNCHANGED phase
  /\ UNCHANGED <<session, entry, queries, overtaken, lines, mgmt, orbot>>

(* The flag is looked at once a second, so more commands may have come.    *)
Answered ==
  /\ phase = "query" /\ ~asked
  /\ phase' = "up"
  /\ UNCHANGED <<session, entry, asked, socks, queries, overtaken, socket, mgmt, orbot>>

Unanswered == phase = "query" /\ asked

(* A signal, or a connection that is lost.                                 *)
Restart ==
  /\ phase \in {"query", "up"}
  /\ phase' = "hold" /\ asked' = FALSE
  /\ lines' = Append(lines, "HOLD")
  /\ overtaken' = (overtaken \/ Unanswered)
  /\ UNCHANGED <<session, entry, socks, queries, cmds, mgmt, orbot>>

Exit ==
  /\ phase # "off"
  /\ phase' = "off" /\ asked' = FALSE
  /\ lines' = <<>> /\ cmds' = <<>>
  /\ overtaken' = (overtaken \/ Unanswered)
  /\ UNCHANGED <<session, entry, socks, queries, mgmt, orbot>>

(* A session after the end of the one before, whose thread may still be    *)
(* busy.  The flag and the runnables are the new thread's; who releases a  *)
(* hold of the old one writes to a closed socket.                          *)
StartSession ==
  /\ phase = "off" /\ ~crashed /\ session < Sessions
  /\ session' = session + 1
  /\ phase' = "hold" /\ socks' = FALSE
  /\ lines' = <<"HOLD">>
  /\ mWaitingForRelease' = FALSE /\ resumes' = 0
  /\ releasing' = [t \in Releaser |-> "no"]
  /\ owed' = FALSE
  /\ UNCHANGED <<entry, asked, queries, overtaken, twice, cmds, pc, orbot>>

-------------------------------------------------------------------------------
(* The management thread.                                                  *)
Goto(s, label) == pc' = [pc EXCEPT ![s] = label]

(* The lines: HOLD up to the flag, NONE as a whole, ORBOT up to the timeout.*)
Handle ==
  /\ lines # <<>> /\ pc[session] = "idle"
  /\ lines' = Tail(lines)
  /\ \/ /\ Head(lines) = "HOLD"
        /\ mWaitingForRelease' = TRUE /\ owed' = TRUE
        /\ Goto(session, "hold")
        /\ UNCHANGED cmds
     \/ /\ Head(lines) = "NONE"
        /\ Send(session, "NONE")
        /\ UNCHANGED <<mWaitingForRelease, owed, pc>>
     \/ /\ Head(lines) = "ORBOT"
        /\ Goto(session, "post")
        /\ UNCHANGED <<mWaitingForRelease, owed, cmds>>
  /\ UNCHANGED <<openvpn, resumes, releasing, twice, orbot>>

(* The rest of handleHold: whether it posts the runnable depends on the    *)
(* network and the user.                                                   *)
PostResume(s) ==
  /\ pc[s] = "hold" /\ ~crashed
  /\ resumes' \in IF s = session THEN {resumes, resumes + 1} ELSE {resumes}
  /\ Goto(s, "idle")
  /\ UNCHANGED <<openvpn, socket, mWaitingForRelease, releasing, owed, twice, orbot>>

PostTimeout(s) ==
  /\ pc[s] = "post" /\ ~crashed
  /\ timeouts' = [timeouts EXCEPT ![s] = @ + 1]
  /\ Goto(s, "add")
  /\ UNCHANGED <<openvpn, socket, hold, statusCallbacks, main, crashed>>

(* The first callback registers the receiver.                              *)
AddStatusCallback(s) ==
  /\ pc[s] = "add" /\ ~crashed
  /\ statusCallbacks' = statusCallbacks \cup {s}
  /\ Goto(s, "idle")
  /\ UNCHANGED <<openvpn, socket, hold, timeouts, main, crashed>>

-------------------------------------------------------------------------------
Looping == main = Idle /\ releasing["main"] = "no" /\ ~crashed

At(t, label) == releasing[t] = label /\ ~crashed
Move(t, label) == releasing' = [releasing EXCEPT ![t] = label]

(* releaseHold and what it calls, up to the sleep of releaseHoldCmd: the   *)
(* flag is looked at, the runnables are removed.                           *)
ReleaseHold(t) ==
  /\ At(t, "no") /\ (t = "main" => Looping)
  /\ mWaitingForRelease
  /\ resumes' = 0
  /\ Move(t, "clear")
  /\ UNCHANGED <<openvpn, socket, mWaitingForRelease, owed, twice, pc, orbot>>

(* mResumeHoldRunnable, which does not look at the flag.                   *)
ResumeHold ==
  /\ Looping /\ resumes > 0
  /\ \/ resumes' = 0 /\ Move("main", "clear")
     \/ resumes' = resumes - 1 /\ UNCHANGED releasing
  /\ UNCHANGED <<openvpn, socket, mWaitingForRelease, owed, twice, pc, orbot>>

(* The rest of releaseHoldCmd.                                             *)
ClearWaiting(t) ==
  /\ At(t, "clear")
  /\ mWaitingForRelease' = FALSE
  /\ Move(t, "write")
  /\ UNCHANGED <<openvpn, socket, resumes, owed, twice, pc, orbot>>

WriteRelease(t) ==
  /\ At(t, "write")
  /\ Send(session, "release")
  /\ owed' = FALSE /\ twice' = (twice \/ ~owed)
  /\ Move(t, "no")
  /\ UNCHANGED <<openvpn, lines, mWaitingForRelease, resumes, pc, orbot>>

(* Orbot's status is ON: onReceive goes through the set, in an order that  *)
(* a HashSet chooses, and has looked whether there is another one.         *)
OnReceive ==
  /\ Looping
  /\ \E s \in statusCallbacks :
       main' = [at |-> "remove", cb |-> s, more |-> statusCallbacks # {s}]
  /\ UNCHANGED <<openvpn, socket, mgmt, timeouts, statusCallbacks, crashed>>

(* onOrbotReady: removeCallbacks, the answer, removeStatusCallback.        *)
(* Mutant: no removeCallbacks.                                             *)
RemoveTimeouts_Forgotten ==
  /\ main.at = "remove"
  /\ main' = [main EXCEPT !.at = "send"]
  /\ UNCHANGED <<openvpn, socket, mgmt, timeouts, statusCallbacks, crashed>>

RemoveTimeouts ==
  /\ main.at = "remove"
  /\ timeouts' = [timeouts EXCEPT ![main.cb] = 0]
  /\ main' = [main EXCEPT !.at = "send"]
  /\ UNCHANGED <<openvpn, socket, mgmt, statusCallbacks, crashed>>

SendProxy ==
  /\ main.at = "send"
  /\ Send(main.cb, "SOCKS")
  /\ main' = [main EXCEPT !.at = "drop"]
  /\ UNCHANGED <<openvpn, lines, mgmt, timeouts, statusCallbacks, crashed>>

(* The time is over; what was posted just now does not run before the      *)
(* thread has added its callback.                                          *)
TimeOut(s) ==
  /\ Looping
  /\ timeouts[s] > (IF pc[s] = "add" THEN 1 ELSE 0)
  /\ timeouts' = [timeouts EXCEPT ![s] = @ - 1]
  /\ main' = [at |-> "send", cb |-> s, more |-> FALSE]
  /\ UNCHANGED <<openvpn, socket, mgmt, statusCallbacks, crashed>>

(* unregisterReceiver throws if the set was empty before, and the loop in  *)
(* onReceive if it goes on after the set has changed.                      *)
Throws == statusCallbacks = {} \/ main.more

(* Mutant: onOrbotReady removes the timeouts last.                         *)
RemoveStatusCallback_ThenTimeouts ==
  /\ main.at = "drop" /\ ~Throws
  /\ statusCallbacks' = statusCallbacks \ {main.cb}
  /\ timeouts' = [timeouts EXCEPT ![main.cb] = 0]
  /\ main' = Idle
  /\ UNCHANGED <<openvpn, socket, mgmt, crashed>>

RemoveStatusCallback ==
  /\ main.at = "drop" /\ ~Throws
  /\ statusCallbacks' = statusCallbacks \ {main.cb}
  /\ main' = Idle
  /\ UNCHANGED <<openvpn, socket, mgmt, timeouts, crashed>>

(* The process of the service ends, and openvpn with its socket.           *)
Crash ==
  /\ main.at = "drop" /\ Throws
  /\ crashed' = TRUE /\ main' = Idle
  /\ phase' = "off" /\ asked' = FALSE /\ lines' = <<>> /\ cmds' = <<>>
  /\ UNCHANGED <<session, entry, socks, queries, overtaken, mgmt, timeouts, statusCallbacks>>

-------------------------------------------------------------------------------
Listen == Handle \/ \E s \in Session : PostResume(s) \/ PostTimeout(s) \/ AddStatusCallback(s)

ReleaseHoldCmd == \E t \in Releaser : ClearWaiting(t) \/ WriteRelease(t)

OnOrbotReady == RemoveTimeouts \/ SendProxy \/ RemoveStatusCallback \/ Crash

Next ==
  \/ LeaveHold \/ ReadCommand \/ Answered \/ Restart \/ Exit \/ StartSession
  \/ Listen
  \/ ResumeHold \/ ReleaseHoldCmd \/ \E t \in Releaser : ReleaseHold(t)
  \/ OnReceive \/ OnOrbotReady \/ \E s \in Session : TimeOut(s)

(* Threads go on, openvpn reads, timeouts run; Orbot need not answer.      *)
Fairness ==
  /\ WF_vars(ReadCommand) /\ WF_vars(Answered)
  /\ WF_vars(Handle) /\ WF_vars(OnOrbotReady)
  /\ \A t \in Releaser : WF_vars(ClearWaiting(t)) /\ WF_vars(WriteRelease(t))
  /\ \A s \in Session :
       /\ WF_vars(PostResume(s)) /\ WF_vars(PostTimeout(s)) /\ WF_vars(AddStatusCallback(s))
       /\ SF_vars(TimeOut(s))

Spec == Init /\ [][Next]_vars
FairSpec == Spec /\ Fairness

-------------------------------------------------------------------------------
(* The types; a process that has ended is sent nothing.                    *)
TypeOK ==
  /\ session \in Session /\ phase \in {"hold", "released", "query", "up", "off"}
  /\ entry \in Entry /\ asked \in BOOLEAN /\ socks \in BOOLEAN
  /\ queries \in 0..MaxQueries
  /\ lines \in Seq(Entry \cup {"HOLD"}) /\ cmds \in Seq({"release", "SOCKS", "NONE"})
  /\ mWaitingForRelease \in BOOLEAN /\ resumes \in Nat
  /\ releasing \in [Releaser -> {"no", "clear", "write"}]
  /\ owed \in BOOLEAN /\ twice \in BOOLEAN
  /\ pc \in [Session -> {"idle", "hold", "post", "add"}]
  /\ timeouts \in [Session -> Nat]
  /\ statusCallbacks \subseteq Session
  /\ main = Idle \/ main \in [at : {"remove", "send", "drop"}, cb : Session, more : BOOLEAN]
  /\ crashed \in BOOLEAN /\ overtaken \in BOOLEAN
  /\ asked => phase = "query"
  /\ phase = "off" => lines = <<>> /\ cmds = <<>>

(* A connection whose entry goes through Orbot is not made without it: no  *)
(* answer to an earlier query, with another entry, is taken for its own.   *)
(* A hold that is released twice is the one exception.                     *)
OrbotIsUsed == phase = "up" /\ entry = "ORBOT" => socks \/ twice

(* As long as each query ends with an answer, from the broadcast or from   *)
(* the timeout, and the next one comes when the looper is done, no         *)
(* callback is removed twice and none in a set of two.                     *)
CrashNeedsOvertaking == crashed => overtaken

(* Orbot may be silent: each query ends.                                   *)
QueryEnds == phase = "query" ~> phase # "query"

(* "Removes an existing registered StatusCallback."                        *)
(* (OrbotHelper.java:152): what is removed is registered.                  *)
RemovesRegistered == main.at = "drop" => main.cb \in statusCallbacks

(* Without the exception.                                                  *)
OrbotIsKept == phase = "up" /\ entry = "ORBOT" => socks

(* An entry without a proxy is connected without one.                      *)
NoneIsKept == phase = "up" /\ entry = "NONE" => ~socks
===============================================================================
