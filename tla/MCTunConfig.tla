----------------------------- MODULE MCTunConfig ------------------------------
(* Three servers: one with an address of its own and a domain, one with    *)
(* another domain, two DNS servers and a network for the tun, and one with *)
(* IPv6 only that excludes the same network; and one that pushes no        *)
(* address.                                                                *)
EXTENDS TunConfig

CONSTANTS ip, host, ip6, net, lan, dns1, dns2, domain1, domain2

Config(i, i6, routes, dns, domain) ==
  [ip |-> i, ip6 |-> i6, routes |-> routes, dns |-> dns, domain |-> domain]

Route(n, included) == [net |-> n, included |-> included]

MCConfigs ==
  {Config(host, None, <<>>, <<dns1>>, domain1),
   Config(ip, ip6, <<Route(net, TRUE)>>, <<dns2, dns1>>, domain2),
   Config(None, ip6, <<Route(net, FALSE)>>, <<dns1>>, None),
   Config(None, None, <<>>, <<>>, None)}

(* Two servers that have nothing in common but the network.                *)
MCTwo ==
  {Config(host, None, <<>>, <<dns1>>, domain1), Config(ip, None, <<>>, <<dns2>>, domain2)}

MCLan == {lan}
MCHosts == {host}
===============================================================================
