------------------------------- MODULE BmpBuild ------------------------------
(* The messages of BmpWire for every session, route and received UPDATE of *)
(* given sets: what a receiver can make of the lengths, the capabilities   *)
(* and the per-peer headers that bmp-tcp-out writes.                       *)
EXTENDS BmpWire

CONSTANTS
    WireSessions,   \* what the register knows of the sessions
    WireRoutes,     \* the routes and rules to encode
    Verbatim        \* UPDATEs of upstream routers: [size, declared, type]

VARIABLE wire       \* the message last built

WireInit == wire = NothingBuilt

BuildPeerUp(s) == \E restart \in BOOLEAN : wire' = PeerUpOf(s, restart)
BuildRouteMonitoring(r) == wire' = Announcement(r) \/ wire' = Withdrawal(r)
BuildEndOfRib(s) == \E f \in ToSet(SupportedAfisafis(s)) : wire' = EndOfRib(f)
BuildRaw(u) == wire' = Forwarded(u)

\* One message of every kind and input.
WireNext ==
    /\ wire = NothingBuilt
    /\ \/ \E s \in WireSessions : BuildPeerUp(s)
       \/ \E r \in WireRoutes : BuildRouteMonitoring(r)
       \/ \E s \in WireSessions : BuildEndOfRib(s)
       \/ \E u \in Verbatim : BuildRaw(u)

WireSpec == WireInit /\ [][WireNext]_wire

-----------------------------------------------------------------------------
(* Properties *)

\* An UPDATE is as long as it says, at every level: its own length, that of
\* the withdrawn routes, of the path attributes and of each attribute.  A
\* length that was cut off would take every later message of the stream with
\* it (build_bgp_update, build_flowspec_bgp_update, build_mp_reach_nlri,
\* build_mp_unreach_nlri, build_eor_mp_unreach, build_route_monitoring_raw).
UpdateFramed ==
    /\ wire.kind = "update" =>
          /\ wire.len = 19 + 2 + wire.wd + 2 + AttrsLen(wire.attrs) + wire.nlri
          /\ wire.wdLen = wire.wd
          /\ wire.paLen = AttrsLen(wire.attrs)
          /\ \A i \in DOMAIN wire.attrs :
                /\ wire.attrs[i].declared = wire.attrs[i].value
                /\ wire.attrs[i].header = 3 => wire.attrs[i].declared < 256
    /\ wire.kind = "raw" => wire.size = wire.declared

\* The header of the parameter counts towards the length of all parameters,
\* and push_cap does not: with 254 or 255 octets of capabilities the length
\* field wraps.  Up to there both OPENs of build_bgp_open are as long as they
\* say.
CapsWrap(open) == CapTotal(open.caps) \in {254, 255}
OpenFramed ==
    wire.kind = "up" =>
        \A open \in {wire.sent, wire.received} :
            /\ open.capLen = CapTotal(open.caps)
            /\ open.len = 29 + 2 + CapTotal(open.caps)
            /\ CapsWrap(open) \/ open.optLen = 2 + CapTotal(open.caps)

\* The comment in build_bgp_open without that exception: no capability may
\* overflow the length of the optional parameters.
OptionalParametersFit ==
    wire.kind = "up" =>
        \A open \in {wire.sent, wire.received} : open.optLen = 2 + CapTotal(open.caps)

\* What a receiver derives from the two OPENs, their intersection, is what the
\* routes are written with: the families, ADD-PATH per family, four-octet AS
\* numbers and extended messages are in both of them, once, whatever the
\* capabilities that the peer advertised itself (PASSTHROUGH_EXCLUDE).
Negotiated(open, code) == SelectSeq(open.caps, LAMBDA c : c.code = code)
OpensNegotiate ==
    wire.kind = "up" =>
        /\ \A code \in {1, 6, 65, 64, 69} :
              Negotiated(wire.sent, code) = Negotiated(wire.received, code)
        /\ \A code \in {5, 6, 9, 64, 65, 69, 73, 75} : Len(Negotiated(wire.received, code)) <= 1
        /\ \A f \in ToSet(wire.session.addpath) :
              f \in ToSet(Written) =>
                  \E i \in DOMAIN wire.sent.caps :
                      wire.sent.caps[i].code = 69 /\ f \in ToSet(wire.sent.caps[i].family)

\* Two sessions of one stream have different per-peer headers when the tag is
\* enabled: those of two routers with one neighbour, and the views of one
\* router before and after policy, in and out.  Only sessions with a real route
\* distinguisher, which is left untouched, may share one across routers
\* (apply_fan_in_distinguisher, from_ingress_info).
Identity(s) == <<s.parent, s.type, s.address, s.rd, s.rib>>
HeadersApart ==
    wire.kind = "up" =>
        \A t \in WireSessions :
            LET s == wire.session
            IN  /\ Identity(s) # Identity(t)
                /\ PerPeerHeader(s, TRUE) = PerPeerHeader(t, TRUE)
                => s.rd # NoDistinguisher /\ s.rd = t.rd /\ s.parent # t.parent

\* A receiver stays in step with the stream: every message ends where it says,
\* is read in the way the OPENs negotiated, and belongs to one peer
\* (build_bgp_update, build_bgp_open, build_peer_up_notification).
ReceiverInStep == UpdateFramed /\ OpenFramed /\ OpensNegotiate /\ HeadersApart
=============================================================================
