------------------------------ MODULE TunConfig -------------------------------
(***************************************************************************)
(* How openvpn gets its tun.  After a push the process asks the management *)
(* thread to note addresses, routes, DNS servers and domain in fields of   *)
(* OpenVPNService, then whether the old tun still fits, then for a tun.    *)
(* Queries are answered one at a time; a signal ends the waiting for an    *)
(* answer, of the query at hand and of every later one.                    *)
(***************************************************************************)
EXTENDS Integers, Sequences, SequencesExt

CONSTANTS
  Configs,        \* what servers push: [ip, ip6, routes, dns, domain]
  LocalNetworks,  \* networks of the phone that mAllowLocalLAN excludes
  HostAddresses,  \* addresses with a prefix length of 32
  MaxSetups,      \* bound: number of tun setups
  NoTun, None     \* model values

(* The queries for a configuration.                                        *)
Query(c) ==
  [cmd : {"IFCONFIG"}, arg : {c.ip} \ {None}]
  \cup [cmd : {"IFCONFIG6"}, arg : {c.ip6} \ {None}]
  \cup [cmd : {"ROUTE"}, arg : ToSet(c.routes)]
  \cup [cmd : {"DNSSERVER"}, arg : ToSet(c.dns)]
  \cup [cmd : {"DNSDOMAIN"}, arg : {c.domain} \ {None}]
  \cup [cmd : {"PERSIST_TUN_ACTION"}, arg : {None}]

OpenTunQuery == [cmd |-> "OPENTUN", arg |-> None]

AnyQuery == {OpenTunQuery} \cup UNION {Query(c) : c \in Configs}

(* What a tun is made of: parts of configurations.                         *)
Nets(routes) == {r.net : r \in routes}

Field(f) == {c[f] : c \in Configs} \cup {None}

Network == LocalNetworks \cup Field("ip") \cup UNION {Nets(ToSet(c.routes)) : c \in Configs}

Tun ==
  [ip : Field("ip"), ip6 : Field("ip6"), domain : Field("domain"),
   routes : SUBSET [net : Network, included : BOOLEAN],
   dns : Seq(UNION {ToSet(c.dns) : c \in Configs})]

Answer ==
  [status : {"ok", "cancel", "NOACTION", "OPEN_BEFORE_CLOSE"}, tun : Tun \cup {NoTun}]

ASSUME TunAssumption ==
  /\ MaxSetups \in Nat /\ NoTun \notin Tun
  /\ \A c \in Configs :
       /\ c.routes \in Seq(ToSet(c.routes)) /\ c.dns \in Seq(ToSet(c.dns))
       /\ \A r \in ToSet(c.routes) : r.included \in BOOLEAN

VARIABLES
  phase,     \* openvpn: off, between connections, in do_open_tun, connected, exited
  pushed,    \* the configuration of this connection
  todo,      \* queries that are still to be answered
  waiting,   \* the first of them has been sent
  sig,       \* a signal is pending
  fd,        \* the tun that the process holds
  setups,
  inbox,     \* queries in the socket of the management thread
  answer,    \* its answer, or None
  mLocalIP, mLocalIPv6, mRoutes, mDnslist, mDomain,
  mLastTunCfg,
  since      \* history: the values that were noted since a tun was opened last

openvpn == <<phase, pushed, todo, waiting, sig, fd, setups>>
config == <<mLocalIP, mLocalIPv6, mRoutes, mDnslist, mDomain>>
service == <<config, mLastTunCfg, since>>
vars == <<openvpn, inbox, answer, service>>

NoConfig ==
  /\ mLocalIP = None /\ mLocalIPv6 = None /\ mRoutes = {} /\ mDnslist = <<>>
  /\ mDomain = None /\ mLastTunCfg = NoTun /\ since = {}

Init ==
  /\ phase = "dead" /\ pushed = None /\ todo = <<>> /\ waiting = FALSE
  /\ sig = FALSE /\ fd = NoTun /\ setups = 0
  /\ inbox = <<>> /\ answer = None
  /\ NoConfig

-------------------------------------------------------------------------------
(* The openvpn process.                                                    *)
Ask(cmd, values) == [k \in 1..Len(values) |-> [cmd |-> cmd, arg |-> values[k]]]

Optional(v) == IF v = None THEN <<>> ELSE <<v>>

(* do_ifconfig, do_route and open_tun, in this order.                      *)
Queries(c) ==
  Ask("IFCONFIG", Optional(c.ip)) \o Ask("IFCONFIG6", Optional(c.ip6))
  \o Ask("ROUTE", c.routes) \o Ask("DNSSERVER", c.dns)
  \o Ask("DNSDOMAIN", Optional(c.domain)) \o Ask("PERSIST_TUN_ACTION", <<None>>)

(* A process has started.  endVpnService has left the fields as they were, *)
(* unless the service is another instance.                                 *)
StartProcess ==
  /\ phase = "dead" /\ inbox = <<>> /\ setups < MaxSetups
  /\ phase' = "hold" /\ sig' = FALSE /\ fd' = NoTun /\ answer' = None
  /\ UNCHANGED <<pushed, todo, waiting, setups, inbox>>
  /\ \/ UNCHANGED service
     \/ /\ mLocalIP' = None /\ mLocalIPv6' = None /\ mRoutes' = {} /\ mDnslist' = <<>>
        /\ mDomain' = None /\ mLastTunCfg' = NoTun /\ since' = {}

DoOpenTun ==
  /\ phase = "hold" /\ setups < MaxSetups
  /\ pushed' \in Configs
  /\ todo' = Queries(pushed')
  /\ phase' = "setup" /\ setups' = setups + 1
  /\ UNCHANGED <<waiting, sig, fd, inbox, answer, service>>

Send ==
  /\ phase = "setup" /\ ~waiting
  /\ inbox' = Append(inbox, Head(todo))
  /\ waiting' = TRUE /\ answer' = None
  /\ UNCHANGED <<phase, pushed, todo, sig, fd, setups, service>>

(* What open_tun does with the answer.  msg(M_ERR) ends the process.       *)
Continue(query, status) ==
  CASE query.cmd = "PERSIST_TUN_ACTION" /\ status = "NOACTION" /\ fd # NoTun ->
         phase' = "up" /\ todo' = <<>> /\ UNCHANGED fd
    [] query.cmd = "PERSIST_TUN_ACTION" /\ ~(status = "NOACTION" /\ fd # NoTun) ->
         todo' = Ask("OPENTUN", <<None>>) /\ UNCHANGED <<phase, fd>>
    [] query.cmd = "OPENTUN" /\ status = "ok" ->
         phase' = "up" /\ todo' = <<>> /\ fd' = answer.tun
    [] query.cmd = "OPENTUN" /\ status = "cancel" ->
         phase' = "dead" /\ todo' = <<>> /\ fd' = NoTun
    [] OTHER -> todo' = Tail(todo) /\ UNCHANGED <<phase, fd>>

Receive ==
  /\ phase = "setup" /\ waiting /\ ~sig /\ answer # None
  /\ Continue(Head(todo), answer.status)
  /\ waiting' = FALSE
  /\ UNCHANGED <<pushed, sig, setups, inbox, answer, service>>

(* management_query_user_pass returns without an answer: nobody looks at   *)
(* that, except where the answer is an action or a tun.                    *)
Interrupted ==
  /\ phase = "setup" /\ waiting /\ sig
  /\ IF Head(todo).cmd \in {"PERSIST_TUN_ACTION", "OPENTUN"}
     THEN phase' = "dead" /\ todo' = <<>> /\ fd' = NoTun
     ELSE todo' = Tail(todo) /\ UNCHANGED <<phase, fd>>
  /\ waiting' = FALSE
  /\ UNCHANGED <<pushed, sig, setups, inbox, answer, service>>

(* signal SIGUSR1 of a pause or of a change of the network.                *)
Signal ==
  /\ phase \in {"setup", "up"} /\ ~sig
  /\ sig' = TRUE
  /\ UNCHANGED <<phase, pushed, todo, waiting, fd, setups, inbox, answer, service>>

(* do_close_tun keeps the tun under persist-tun.                           *)
Restart ==
  /\ phase = "up" /\ sig
  /\ phase' = "hold" /\ sig' = FALSE /\ fd' \in {fd, NoTun}
  /\ UNCHANGED <<pushed, todo, waiting, setups, inbox, answer, service>>

Die ==
  /\ phase \in {"hold", "up"}
  /\ phase' = "dead" /\ fd' = NoTun
  /\ UNCHANGED <<pushed, todo, waiting, sig, setups, inbox, answer, service>>

-------------------------------------------------------------------------------
(* The management thread: processNeedCommand.                              *)
Note(v) == since' = since \cup {v}

Reply(status) == answer' = [status |-> status, tun |-> NoTun]

(* Mutant: the order of the set looks at the kind, too.                    *)
AddIP_ByKind(routes, net, included) ==
  routes \cup {[net |-> net, included |-> included]}

(* NetworkSpace.addIP: the set takes no network twice, whatever its kind.  *)
AddIP(routes, net, included) ==
  routes \cup {r \in {[net |-> net, included |-> included]} :
                \A k \in routes : k.net # net}

(* The network of the interface is a route too, if it is more than the     *)
(* address, and bears its name here.                                       *)
SetLocalIP(ip) ==
  /\ mLocalIP' = ip /\ Note(ip)
  /\ mRoutes' = IF ip \in HostAddresses THEN mRoutes ELSE AddIP(mRoutes, ip, TRUE)
  /\ Reply("ok")
  /\ UNCHANGED <<mLocalIPv6, mDnslist, mDomain, mLastTunCfg>>

SetLocalIPv6(ip6) ==
  /\ mLocalIPv6' = ip6 /\ Note(ip6)
  /\ Reply("ok")
  /\ UNCHANGED <<mLocalIP, mRoutes, mDnslist, mDomain, mLastTunCfg>>

AddRoute(route) ==
  /\ mRoutes' = IF mLocalIP = None THEN mRoutes
                ELSE AddIP(mRoutes, route.net, route.included)
  /\ Note(route.net)
  /\ Reply("ok")
  /\ UNCHANGED <<mLocalIP, mLocalIPv6, mDnslist, mDomain, mLastTunCfg>>

(* Mutant: processNeedCommand returns where it should break.               *)
AddDNS_Silent(dns) ==
  /\ mDnslist' = Append(mDnslist, dns) /\ Note(dns)
  /\ UNCHANGED <<answer, mLocalIP, mLocalIPv6, mRoutes, mDomain, mLastTunCfg>>

AddDNS(dns) ==
  /\ mDnslist' = Append(mDnslist, dns) /\ Note(dns)
  /\ Reply("ok")
  /\ UNCHANGED <<mLocalIP, mLocalIPv6, mRoutes, mDomain, mLastTunCfg>>

SetDomain(domain) ==
  /\ mDomain' = (IF mDomain = None THEN domain ELSE mDomain) /\ Note(domain)
  /\ Reply("ok")
  /\ UNCHANGED <<mLocalIP, mLocalIPv6, mRoutes, mDnslist, mLastTunCfg>>

TunConfigOf(routes) ==
  [ip |-> mLocalIP, ip6 |-> mLocalIPv6, routes |-> routes, dns |-> mDnslist,
   domain |-> mDomain]

(* Mutant: the comparison leaves the DNS servers out.                      *)
GetTunReopenStatus_NoDns ==
  /\ Reply(IF mLastTunCfg # NoTun
              /\ [TunConfigOf(mRoutes) EXCEPT !.dns = <<>>] = [mLastTunCfg EXCEPT !.dns = <<>>]
           THEN "NOACTION" ELSE "OPEN_BEFORE_CLOSE")
  /\ UNCHANGED service

GetTunReopenStatus ==
  /\ Reply(IF TunConfigOf(mRoutes) = mLastTunCfg THEN "NOACTION" ELSE "OPEN_BEFORE_CLOSE")
  /\ UNCHANGED service

(* Mutant: the domain is not reset.                                        *)
OpenTun_KeepsDomain ==
  IF mLocalIP = None /\ mLocalIPv6 = None
  THEN Reply("cancel") /\ UNCHANGED service
  ELSE LET cfg == TunConfigOf(mRoutes)
       IN  /\ answer' = [status |-> "ok", tun |-> cfg]
           /\ mLastTunCfg' = cfg
           /\ mDnslist' = <<>> /\ mRoutes' = {} /\ UNCHANGED mDomain
           /\ mLocalIP' = None /\ mLocalIPv6' = None
           /\ since' = {}

(* Nothing is reset before there is an address and addAddress has taken it, *)
(* but the local networks stay with the routes; establish may fail.        *)
OpenTun ==
  IF mLocalIP = None /\ mLocalIPv6 = None
  THEN Reply("cancel") /\ UNCHANGED service
  ELSE \E lan \in SUBSET LocalNetworks :
         LET added == {n \in lan : mLocalIP # None /\ n # mLocalIP
                                   /\ \A r \in mRoutes : r.net # n}
             routes == mRoutes \cup {[net |-> n, included |-> FALSE] : n \in added}
             cfg == TunConfigOf(routes)
         IN  \/ /\ Reply("cancel")
                /\ mRoutes' = routes
                /\ UNCHANGED <<mLocalIP, mLocalIPv6, mDnslist, mDomain, mLastTunCfg, since>>
             \/ /\ answer' = [status |-> "ok", tun |-> cfg] \/ Reply("cancel")
                /\ mLastTunCfg' = cfg
                /\ mDnslist' = <<>> /\ mRoutes' = {} /\ mDomain' = None
                /\ mLocalIP' = None /\ mLocalIPv6' = None
                /\ since' = {}

ProcessNeedCommand ==
  /\ inbox # <<>>
  /\ inbox' = Tail(inbox)
  /\ LET query == Head(inbox)
     IN  \/ query.cmd = "IFCONFIG" /\ SetLocalIP(query.arg)
         \/ query.cmd = "IFCONFIG6" /\ SetLocalIPv6(query.arg)
         \/ query.cmd = "ROUTE" /\ AddRoute(query.arg)
         \/ query.cmd = "DNSSERVER" /\ AddDNS(query.arg)
         \/ query.cmd = "DNSDOMAIN" /\ SetDomain(query.arg)
         \/ query.cmd = "PERSIST_TUN_ACTION" /\ GetTunReopenStatus
         \/ query.cmd = "OPENTUN" /\ OpenTun
  /\ UNCHANGED openvpn

Setup == DoOpenTun \/ Send \/ Receive \/ Interrupted

Next == StartProcess \/ Setup \/ Signal \/ Restart \/ Die \/ ProcessNeedCommand

Fairness == WF_vars(Send \/ Receive \/ Interrupted) /\ WF_vars(ProcessNeedCommand)

Spec == Init /\ [][Next]_vars
FairSpec == Spec /\ Fairness

-------------------------------------------------------------------------------
(* Also: nothing is asked but in do_open_tun, and the service notes no     *)
(* network twice.                                                          *)
TypeOK ==
  /\ phase \in {"dead", "hold", "setup", "up"} /\ pushed \in Configs \cup {None}
  /\ waiting \in BOOLEAN /\ sig \in BOOLEAN /\ setups \in 0..MaxSetups
  /\ todo \in Seq(AnyQuery) /\ inbox \in Seq(AnyQuery) /\ answer \in Answer \cup {None}
  /\ phase = "setup" <=> todo # <<>>
  /\ waiting => phase = "setup"
  /\ TunConfigOf(mRoutes) \in Tun
  /\ mLastTunCfg \in Tun \cup {NoTun} /\ fd \in Tun \cup {NoTun}
  /\ \A r, k \in mRoutes : r.net = k.net => r = k

(* A connected process has a tun with all that was pushed last: its        *)
(* addresses, its DNS servers, behind older ones, its networks and, if the *)
(* server names one, a domain.                                             *)
TunCoversPushed ==
  phase = "up" =>
    /\ fd # NoTun
    /\ pushed.ip # None => fd.ip = pushed.ip
    /\ pushed.ip6 # None => fd.ip6 = pushed.ip6
    /\ IsSuffix(pushed.dns, fd.dns)
    /\ pushed.ip # None => \A r \in ToSet(pushed.routes) : r.net \in Nets(fd.routes)
    /\ pushed.domain # None => fd.domain # None

Values(tun) ==
  {tun.ip, tun.ip6, tun.domain} \cup ToSet(tun.dns) \cup Nets(tun.routes)

(* A tun is opened with nothing that an earlier tun was opened with and no *)
(* server has pushed again: openTun forgets what it has used.              *)
TunIsRecent ==
  [][answer' # answer /\ answer' # None /\ answer'.tun # NoTun =>
       Values(answer'.tun) \subseteq since \cup LocalNetworks \cup {None}]_vars

(* A setup ends, with a tun or with the process: every query is answered   *)
(* once, or a signal ends the waiting.                                     *)
SetupEnds == phase = "setup" ~> phase \in {"up", "dead"}

(* doc/android.txt of openvpn: OPENTUN is "to receive a tun fd with the    *)
(* requested configuration": with no other DNS server and domain.          *)
TunIsPushed ==
  phase = "up" => ToSet(fd.dns) \subseteq ToSet(pushed.dns) /\ fd.domain = pushed.domain

(* doc/android.txt: the app uses "SIGUSR1 and management-hold to restart,  *)
(* pause, continue the VPN": a signal ends no process.                     *)
SignalKeepsProcess == [][sig /\ phase = "setup" => phase' # "dead"]_vars
===============================================================================
