---- MODULE MCWire ----
EXTENDS BmpBuild
Cap(c, n) == [code |-> c, size |-> n, family |-> <<>>]
Ses(parent, type, rib, rd, host, version, caps) ==
    [parent |-> parent, type |-> type, rib |-> rib, rd |-> rd, address |-> "a", v6 |-> FALSE,
     mrt |-> type = "mrt", host |-> host, version |-> version, role |-> host > 0, label |-> 70000 * (host % 2),
     caps |-> caps, addpath |-> IF version > 0 THEN <<Ipv4Unicast, <<1, 2>>, Ipv6FlowSpec>> ELSE <<>>]
RD == <<"rd">>
BgpCaps == <<MultiProtocol(Ipv6Unicast), Cap(2, 2), Cap(69, 10), Cap(73, 8), Cap(5, 8), Cap(71, 9)>>
WS == {Ses(p, "global", r, NoDistinguisher, 0, 0, <<>>) : p \in {1, 2}, r \in {"InPre", "InPost", "OutPre", "OutPost"}}
      \cup {Ses(p, "rd", "InPost", RD, 5, 6, BgpCaps) : p \in {1, 2}}
      \cup {Ses(1, "loc", "Loc", NoDistinguisher, 0, 0, <<>>), Ses(0, "global", "none", NoDistinguisher, 4, 3, BgpCaps)}
      \cup {Ses(3, "mrt", "none", NoDistinguisher, 0, 0, <<>>)}
      \cup {Ses(4, "global", "InPre", NoDistinguisher, h, v, BgpCaps) : h \in {1, 100, 183, 200, 255}, v \in {0, 90, 91, 92, 93, 94, 95}}
At(c, h, n, nh, w) == [code |-> c, header |-> h, value |-> n, nh |-> nh, whole |-> w]
Rt(f, bits, raw, pid, blob) == [family |-> f, bits |-> bits, raw |-> raw, pid |-> pid, blob |-> blob]
Small == <<At(1, 3, 1, 0, TRUE), At(14, 3, 30, 16, TRUE), At(2, 4, 300, 0, TRUE)>>
Big(n) == <<At(14, 3, 22, 32, TRUE), At(15, 3, 3, 0, TRUE), At(2, 4, n, 0, TRUE), At(8, 3, 200, 0, FALSE)>>
WR == {Rt(f, b, 0, pid, bl) : f \in {Ipv4Unicast}, b \in {0, 9, 32}, pid \in BOOLEAN, bl \in {<<>>, Small} \cup {Big(n) : n \in {65500, 65503, 65507, 65508}}}
      \cup {Rt(Ipv6Unicast, b, 0, pid, bl) : b \in {0, 48, 128}, pid \in BOOLEAN, bl \in {<<>>, Small} \cup {Big(n) : n \in {65467, 65480, 65485}}}
      \cup {Rt(f, 0, raw, pid, bl) : f \in {Ipv4FlowSpec, Ipv6FlowSpec}, raw \in {3, 239, 240, 244, 248, 249, 250, 4095}, pid \in BOOLEAN, bl \in {<<>>, Small, Big(65260), Big(61400)}}
VB == [size : {20, 23, 64, 65535, 65536}, declared : {20, 23, 64, 65535, 0}, type : {2, 3}]
====
