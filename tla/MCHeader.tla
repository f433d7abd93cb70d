----------------------------- MODULE MCHeader -----------------------------
(* Headers for TLC: every checksum there is, and each way to be refused. *)
EXTENDS Header

Base == [version |-> 4, ihl |-> 5, tos |-> 0, total_length |-> 84, ttl |-> 3,
         proto |-> 1, checksum |-> 0, rest |-> 0]
Sealed(h) == [h EXCEPT !.checksum = IPv4HdrChecksum(h)]

MCHeaders ==
  {Sealed([Base EXCEPT !.rest = r]) : r \in U16}
    \cup {Sealed([Base EXCEPT !.ttl = t, !.rest = r]) :
            t \in {0, 1, 255}, r \in {0, 1, 255, 65535}}
    \cup {Sealed([Base EXCEPT !.version = 6]), Sealed([Base EXCEPT !.ihl = 4]),
          Sealed([Base EXCEPT !.ihl = 15, !.total_length = 59]), Base}
MCLengths == {19, 20, 98}
=============================================================================
