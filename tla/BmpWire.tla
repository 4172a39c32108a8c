------------------------------- MODULE BmpWire -------------------------------
(* The messages that bmp-tcp-out builds byte by byte                       *)
(* (src/units/bmp_tcp_out/bmp_builder.rs): the peer of the per-peer header *)
(* and the two OPENs of its Peer Up, the UPDATEs of single routes and      *)
(* rules, the End-of-RIB markers and the UPDATEs passed on as received.    *)
(*                                                                         *)
(* A buffer is the lengths of its parts in octets.  What the code writes   *)
(* in a length field is kept beside the length of what it appends, so that *)
(* the two can be compared; a field of one or two octets is cut off as     *)
(* `as u8' and `as u16' do.                                                *)
EXTENDS Integers, Sequences, FiniteSets, SequencesExt

Octet(n) == n % 256
TwoOctets(n) == n % 65536
Total(lengths) == FoldLeft(LAMBDA a, b : a + b, 0, lengths)

MaxBgpUpdateLen == 65535
BgpUpdateMinLen == 23

-----------------------------------------------------------------------------
(* PeerInfo *)

\* The address families that bmp-tcp-out writes, as [afi, safi].
Ipv4Unicast == <<1, 1>>
Ipv6Unicast == <<2, 1>>
Ipv4FlowSpec == <<1, 133>>
Ipv6FlowSpec == <<2, 133>>
Written == <<Ipv4Unicast, Ipv6Unicast, Ipv4FlowSpec, Ipv6FlowSpec>>

\* A capability as received: its code, its length with the header, and the
\* family of a MultiProtocol one.
MultiProtocol(f) == [code |-> 1, size |-> 6, family |-> f]

\* V, L and O of the peer flags.
PeerFlags(s) ==
    [v |-> s.v6,
     l |-> s.rib \in {"InPost", "OutPost", "Loc", "none"},
     o |-> s.rib \in {"OutPost", "OutPre"}]

\* The families of the ADD-PATH capability, of both OPENs.
AddPathFamilies(s) == SelectSeq(s.addpath, LAMBDA f : f[1] \in {1, 2} /\ f[2] \in {1, 133})

peerCapabilities(s) ==
    s.caps \o IF s.mrt THEN <<MultiProtocol(Ipv6Unicast), MultiProtocol(Ipv4FlowSpec),
                              MultiProtocol(Ipv6FlowSpec)>>
                       ELSE <<>>

\* fan_in_distinguisher_tag: an injective image of the upstream router, never 0.
FanInTag(parent) == <<"tag", parent>>
NoDistinguisher == <<"zero">>

Distinguisher(s, fanIn) ==
    IF fanIn /\ s.parent # 0 /\ s.rd = NoDistinguisher THEN FanInTag(s.parent) ELSE s.rd

\* build_peer_info_for_emit: what a receiver tells peers apart by.
PerPeerHeader(s, fanIn) ==
    [type |-> s.type, flags |-> PeerFlags(s), address |-> s.address,
     distinguisher |-> Distinguisher(s, fanIn)]

Supports(s, f) == \/ f = Ipv4Unicast
                  \/ MultiProtocol(f) \in ToSet(peerCapabilities(s))
SupportedAfisafis(s) == SelectSeq(Written, LAMBDA f : Supports(s, f))

-----------------------------------------------------------------------------
(* The OPENs and the Peer Up *)

PassthroughExclude == {1, 5, 6, 9, 64, 65, 69, 73, 75}

CapTotal(caps) == Total([i \in DOMAIN caps |-> caps[i].size])

\* The closure push_cap: a capability that does not fit is left out.
PushCap(caps, code, value) ==
    IF value <= 255 /\ CapTotal(caps) + 2 + value <= 255
    THEN Append(caps, [code |-> code, size |-> 2 + value, family |-> <<>>])
    ELSE caps

\* The capabilities written from the session, whatever their length.
Synthesized(s, restart) ==
    LET families == SupportedAfisafis(s)
        paths == AddPathFamilies(s)
    IN  <<[code |-> 65, size |-> 6, family |-> <<>>], [code |-> 6, size |-> 2, family |-> <<>>]>>
        \o [i \in DOMAIN families |-> MultiProtocol(families[i])]
        \o (IF paths = <<>> THEN <<>>
            ELSE <<[code |-> 69, size |-> 2 + 4 * Len(paths), family |-> paths]>>)
        \o (IF restart THEN <<[code |-> 64, size |-> 4 + 4 * Len(families), family |-> families]>>
            ELSE <<>>)

\* Those that describe the peer: host name, software version and role.
Described(s, caps) ==
    LET a == IF s.host \in 1 .. 255 THEN PushCap(caps, 73, s.host + 2) ELSE caps
        b == IF s.version \in 1 .. 255 THEN PushCap(a, 75, s.version + 1) ELSE a
    IN  IF s.role THEN PushCap(b, 9, 1) ELSE b

\* Every other capability as received, if it still fits.
PassedThrough(s, caps) ==
    LET pass(got, c) == IF c.code \notin PassthroughExclude /\ CapTotal(got) + c.size <= 255
                        THEN Append(got, c) ELSE got
    IN  FoldLeft(pass, caps, peerCapabilities(s))

\* build_bgp_open: one parameter that holds the capabilities.
BgpOpen(caps) ==
    [caps |-> caps,
     capLen |-> Octet(CapTotal(caps)),        \* length of the parameter
     optLen |-> Octet(2 + CapTotal(caps)),    \* length of all parameters
     len |-> TwoOctets(19 + 10 + 2 + CapTotal(caps))]

PeerUpOf(s, restart) ==
    [kind |-> "up", session |-> s,
     sent |-> BgpOpen(Synthesized(s, restart)),
     received |-> BgpOpen(PassedThrough(s, Described(s, Synthesized(s, restart)))),
     labelled |-> s.label \in 0 .. 65535]      \* build_peer_up's max_tlv_len

-----------------------------------------------------------------------------
(* UPDATEs *)

\* filter_pa_from_raw.  A blob is a sequence of attributes [code, header,
\* value, nh, whole]: the walk stops at one that is cut short.
Readable(blob) ==
    LET cut == {i \in DOMAIN blob : ~blob[i].whole}
    IN  IF cut = {} THEN blob ELSE SubSeq(blob, 1, (CHOOSE i \in cut : \A j \in cut : i <= j) - 1)

Kept(blob) == SelectSeq(Readable(blob), LAMBDA a : a.code \notin {14, 15})

\* The next hop of the last MP_REACH_NLRI; 16 octets of zeros without one.
NextHopLen(blob) ==
    LET reach == SelectSeq(Readable(blob), LAMBDA a : a.code = 14 /\ a.value >= 4 + a.nh)
    IN  IF reach = <<>> THEN 16 ELSE Last(reach).nh

Attr(header, declared, value) == [header |-> header, declared |-> declared, value |-> value]
Verbatims(blob) == LET k == Kept(blob)
                   IN  [i \in DOMAIN k |-> Attr(k[i].header, k[i].value, k[i].value)]
AttrsLen(attrs) == Total([i \in DOMAIN attrs |-> attrs[i].header + attrs[i].value])

\* An MP attribute of a single route takes the short header when it can; that
\* of an aggregated message never does.
MpAttr(declared, value) == IF declared > 255 THEN Attr(4, TwoOctets(declared), value)
                                             ELSE Attr(3, declared, value)

PathIdLen(r) == IF r.pid THEN 4 ELSE 0

\* nlri_encoded_len and append_prefix_nlri; flowspec_nlri_encoded_len.
NlriLen(r) == PathIdLen(r) + 1 + (r.bits + 7) \div 8
FlowNlriLen(r) == PathIdLen(r) + r.raw + IF r.raw >= 240 THEN 2 ELSE 1

\* append_flowspec_nlri: the length field has twelve bits.
FlowNlriWritten(r) ==
    LET n == IF r.raw > 4095 THEN 4095 ELSE r.raw
    IN  PathIdLen(r) + n + IF n >= 240 THEN 2 ELSE 1

UpdateOf(total, wdLen, wd, paLen, attrs, nlri) ==
    [kind |-> "update", len |-> TwoOctets(total), wdLen |-> TwoOctets(wdLen), wd |-> wd,
     paLen |-> TwoOctets(paLen), attrs |-> attrs, nlri |-> nlri]

\* build_mp_unreach_nlri, and the same attribute for a rule.
MpUnreach(r) == IF r.family = Ipv6Unicast THEN MpAttr(3 + NlriLen(r), 3 + NlriLen(r))
                ELSE MpAttr(3 + FlowNlriLen(r), 3 + FlowNlriWritten(r))

\* A withdrawal, also of a route whose attributes are too long to announce.
Withdrawal(r) ==
    IF r.family = Ipv4Unicast
    THEN UpdateOf(19 + 2 + NlriLen(r) + 2, NlriLen(r), NlriLen(r), 0, <<>>, 0)
    ELSE LET attrs == <<MpUnreach(r)>>
         IN  UpdateOf(19 + 2 + 2 + AttrsLen(attrs), 0, 0, AttrsLen(attrs), attrs, 0)

\* MP_REACH_NLRI of a route and of a rule, which has no next hop.
MpReach(r) == LET v == 2 + 1 + 1 + NextHopLen(r.blob) + 1 + NlriLen(r) IN MpAttr(v, v)
FlowReach(r) == MpAttr(5 + FlowNlriLen(r), 5 + FlowNlriWritten(r))

\* The attributes of an announcement, and its length.
AnnounceAttrs(r) ==
    Verbatims(r.blob) \o CASE r.family = Ipv4Unicast -> <<>>
                           [] r.family = Ipv6Unicast -> <<MpReach(r)>>
                           [] OTHER -> <<FlowReach(r)>>

AnnounceLen(r) ==
    19 + 2 + 2 + AttrsLen(AnnounceAttrs(r)) + IF r.family = Ipv4Unicast THEN NlriLen(r) ELSE 0

TooLong(r) == AnnounceLen(r) > MaxBgpUpdateLen

NothingBuilt == [kind |-> "none"]
Unlimited(r) == UpdateOf(AnnounceLen(r), 0, 0, AttrsLen(AnnounceAttrs(r)), AnnounceAttrs(r),
                         IF r.family = Ipv4Unicast THEN NlriLen(r) ELSE 0)

\* build_bgp_update and build_flowspec_bgp_update: a route that does not fit
\* is dropped.
Announcement(r) ==
    IF TooLong(r) THEN NothingBuilt
    ELSE UpdateOf(AnnounceLen(r), 0, 0, AttrsLen(AnnounceAttrs(r)), AnnounceAttrs(r),
                  IF r.family = Ipv4Unicast THEN NlriLen(r) ELSE 0)

\* build_end_of_rib_marker.
EndOfRib(f) ==
    IF f = Ipv4Unicast THEN UpdateOf(23, 0, 0, 0, <<>>, 0)
    ELSE UpdateOf(19 + 2 + 2 + 6, 0, 0, 6, <<Attr(3, 3, 3)>>, 0)

\* build_route_monitoring_raw: only an UPDATE whose length field is right.
PassOn(u) ==
    /\ u.size >= BgpUpdateMinLen
    /\ u.type = 2 /\ u.declared = u.size /\ u.declared <= MaxBgpUpdateLen

Forwarded(u) == IF PassOn(u) THEN [kind |-> "raw", size |-> u.size, declared |-> u.declared]
                             ELSE NothingBuilt
=============================================================================
