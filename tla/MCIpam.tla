------------------------------- MODULE MCIpam -------------------------------
(* Ipam for TLC: request sets, and networks that exist at the start.       *)
EXTENDS IpamInvariant, TLC

CONSTANTS n1

Q(op, net, id, name, desc, addr, len) ==
    [op |-> op, net |-> net, id |-> id, name |-> name, desc |-> desc,
     addr |-> addr, len |-> len, type |-> "ipv4"]

OneSeeded == [n \in Net |-> IF n = n1 THEN [name |-> "a", desc |-> "x"] ELSE Nil]

Creates(parents, names, addrs, lens) ==
    {Q("CreateSubnet", n1, p, name, "x", addr, len) :
        p \in parents, name \in names, addr \in addrs, len \in lens}

Updates == {Q("UpdateSubnet", n1, s, "a", "y", Nil, 0) : s \in Subnet}

Deletes == {Q("DeleteSubnet", n1, s, "a", "x", Nil, 0) : s \in Subnet}

\* Requests the input checks refuse: no other creates under subnets have
\* address 2, and the blocks under which they come end below it.
InvalidRequests ==
    Creates({n1}, {"b"}, {Nil, BadAddress}, {1})
    \cup Creates({n1} \cup Subnet, {""}, {0}, {1})
    \cup Creates(Subnet, {"b"}, {Nil, 2}, {0, 3})
    \cup Creates(Subnet, {"b"}, {2}, {2})
    \cup {[q EXCEPT !.type = "ipv6"] : q \in Creates({n1}, {"a"}, {0}, {1})}
    \cup {Q("CreateNetwork", Nil, Nil, "", "x", Nil, 0),
          Q("CreateNetwork", Nil, Nil, "b", BadTags, Nil, 0),
          Q("UpdateNetwork", Nil, n1, "", "y", Nil, 0),
          Q("UpdateNetwork", Nil, n1, "b", BadTags, Nil, 0)}

\* Subnet requests: explicit blocks under the network, automatic ones under
\* subnets, updates, deletes, through the URL of either network; the deletion
\* of network n1.  No block ends at the highest address, so no search wraps.
SubnetRequests ==
    InvalidRequests
    \cup Creates({n1}, {"a"}, {1}, {1})
    \cup Creates({n1}, {"b"}, {1, 2}, {2})
    \cup Creates(Subnet, {"b", "c"}, {Nil}, {2})
    \cup {[q EXCEPT !.net = n] :
            q \in Updates \cup Deletes \cup Creates(Subnet, {"c"}, {Nil}, {2}),
            n \in Net}
    \cup {Q("DeleteNetwork", Nil, n1, "a", "x", Nil, 0)}

\* Networks that are created, renamed and deleted over subnets that come and go.
MixedRequests ==
    Creates({n1}, {"a"}, {0}, {1})
    \cup Creates({n1}, {"b"}, {1}, {2})
    \cup Creates(Subnet, {"b"}, {Nil}, {2})
    \cup {[q EXCEPT !.net = n] : q \in Updates, n \in Net}
    \cup Deletes
    \cup {Q("CreateNetwork", Nil, Nil, "b", "x", Nil, 0),
          Q("UpdateNetwork", Nil, n1, "b", "y", Nil, 0),
          Q("DeleteNetwork", Nil, n1, "a", "x", Nil, 0)}

\* n1 is the network that exists at the start and that requests name.
Symmetry ==
    Permutations(Subnet) \cup Permutations(Req) \cup Permutations(Net \ {n1})
=============================================================================
