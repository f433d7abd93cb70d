----------------------------- MODULE MCStartUp -----------------------------
(* Loopback and three links, one with a second address under a label of its *)
(* own, one that is not there at first; command lines of every kind.        *)
EXTENDS StartUp

Link(i, n, m, r, as) == [index |-> i, name |-> n, mac |-> m, numRings |-> r,
                         addrs |-> as]
Lo   == Link(1, "lo", "m0", 1, <<[ip |-> 127, label |-> "lo"]>>)
Eth0 == Link(2, "eth0", "m1", 1, <<[ip |-> 10, label |-> "eth0"],
                                   [ip |-> 11, label |-> "eth0:1"]>>)
Eth1 == Link(3, "eth1", "m2", 2, <<[ip |-> 20, label |-> "eth1"]>>)
Eth2 == Link(4, "eth2", "m3", 1, <<>>)

MCLinks     == {Lo, Eth0, Eth1, Eth2}
MCInitLinks == {Lo, Eth0, Eth1}
MCOptions   == {"-t", "-h", "--help"}
MCAtoi      == [a \in {"2", "eth1", "-h"} |-> IF a = "2" THEN 2 ELSE 0]
MCArgvs     == {<<>>, <<"-t">>, <<"-t", "2">>, <<"-h">>, <<"--help", "eth0">>,
                <<"eth0", "eth2">>, <<"eth2", "eth0">>, <<"-t", "2", "eth1">>,
                <<"eth0", "eth1">>, <<"eth0", "eth0">>, <<"-t", "eth1">>}
=============================================================================
