---------------------------- MODULE MCSizedQuery ----------------------------
EXTENDS SizedQuery

Addr(m, i, b) == [mask |-> m, ifa |-> i, brd |-> b]

(* An Ethernet interface, one without a name, and a loopback interface. *)
Eth == [index |-> 1, name |-> 11, ifp |-> TRUE, len |-> 2,
        addrs |-> <<Addr("full", 2, 2), Addr("none", 0, 0), Addr("zero", 2, 0)>>]
Ghost == [index |-> 2, name |-> 0, ifp |-> FALSE, len |-> 1,
          addrs |-> <<Addr("full", 2, 0)>>]
Lo == [index |-> 3, name |-> 13, ifp |-> TRUE, len |-> 1, addrs |-> <<Addr("zero", 1, 0)>>]
Tun == [index |-> 4, name |-> 14, ifp |-> TRUE, len |-> 2, addrs |-> <<>>]

MCLists == {<<>>, <<Lo>>, <<Lo, Tun>>, <<Eth, Ghost>>, <<Eth, Ghost, Lo>>,
            <<Tun, Eth, Ghost, Lo>>}

MCArgs == {0, 1, 11, 14}
=============================================================================
