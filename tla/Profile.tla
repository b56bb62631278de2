------------------------------- MODULE Profile -------------------------------
(* What a profile becomes: the parser of the blob a user imports              *)
(* (config/mod.rs), and the configurations start() derives from the result    *)
(* (transport/leaf_impl.rs, arti_pipeline.rs, dns/mod.rs, orchestrator.rs).   *)
(*                                                                            *)
(* A JSON value of another type than the one expected is read as a missing    *)
(* one, so an optional value is <<>> or <<v>>.  The strings that are          *)
(* normalised are sequences of characters; the others are model values.       *)
EXTENDS Integers, Sequences, SequencesExt

CONSTANTS
  RsaLen, EdLen,  \* the lengths of the two fingerprints (40 and 43)
  Hex, Base64,    \* the characters of each
  UpperOf,        \* to_ascii_uppercase on Hex
  BridgeAddrs,    \* the addresses arti can parse
  BridgeIds,      \* the fingerprints arti can parse
  ProxySchemes,   \* the schemes of proxies the HTTP client takes, per platform
  Max8, Max16,    \* u8::MAX and u16::MAX
  Width           \* the bits of an IPv4 address

ASSUME LengthAssumption == {RsaLen, EdLen, Max8, Max16, Width} \subseteq Nat
ASSUME UpperAssumption == UpperOf \in [Hex -> Hex]

Blank == " "

ASSUME CharAssumption == Blank \notin Hex \cup Base64 /\ "$" \notin Hex /\ "ed25519:" \notin Base64

OrElse(opt, default) == IF opt = <<>> THEN default ELSE opt[1]

-----------------------------------------------------------------------------
(* Fingerprints.                                                              *)

\* The places of another character than c.
Besides(s, c) == {i \in DOMAIN s : s[i] # c}

\* trim_start_matches
TrimStart(s, c) == IF Besides(s, c) = {} THEN <<>> ELSE SubSeq(s, Min(Besides(s, c)), Len(s))
Trim(s) ==
  IF Besides(s, Blank) = {} THEN <<>>
  ELSE SubSeq(s, Min(Besides(s, Blank)), Max(Besides(s, Blank)))

\* filter: what is at the given places, in their order.
Filtered(s, places) ==
  [k \in 1..Cardinality(places) |-> s[CHOOSE i \in places : Cardinality({j \in places : j <= i}) = k]]

\* Mutant of NormalizeRsa: the `$` is looked for before the blanks are trimmed.
NormalizeRsaUntrimmed(s) ==
  LET u == TrimStart(s, "$")
      t == Filtered(u, Besides(u, Blank))
  IN  IF Len(t) = RsaLen /\ ToSet(t) \subseteq Hex THEN << [i \in DOMAIN t |-> UpperOf[t[i]]] >> ELSE <<>>
NormalizeRsa(s) ==
  LET u == TrimStart(Trim(s), "$")
      t == Filtered(u, Besides(u, Blank))
  IN  IF Len(t) = RsaLen /\ ToSet(t) \subseteq Hex THEN << [i \in DOMAIN t |-> UpperOf[t[i]]] >> ELSE <<>>

NormalizeEd(s) ==
  LET t == Trim(s)
      body == IF t # <<>> /\ t[1] = "ed25519:" THEN Tail(t) ELSE t
  IN  IF Len(body) = EdLen /\ ToSet(body) \subseteq Base64 THEN <<body>> ELSE <<>>

-----------------------------------------------------------------------------
(* The parser.  An outbound is a record of optional values; a missing         *)
(* "settings" or "vnext" is an empty vnext, a missing "streamSettings" has no *)
(* field.                                                                     *)

RealityFields == {"serverName", "publicKey", "shortId", "fingerprint"}

ParseVless(o) ==
  LET server == o.vnext[1]
      user == server.users[1]
      security == OrElse(o.security, "none")
  IN  IF \/ o.vnext = <<>> \/ server.address = <<>> \/ server.port = <<>>
         \/ server.users = <<>> \/ user.id = <<>>
         \/ security = "reality" /\ o.reality = <<>>
      THEN <<>>
      ELSE << [address |-> server.address[1],
               port |-> server.port[1] % (Max16 + 1),   \* as u16
               userId |-> user.id[1],
               flow |-> OrElse(user.flow, ""),
               network |-> OrElse(o.network, "tcp"),
               serviceName |-> OrElse(o.serviceName, ""),
               multiMode |-> OrElse(o.mode, FALSE),
               security |-> security,
               reality |-> IF security = "reality"
                           THEN << [f \in RealityFields |-> OrElse(o.reality[1][f], "")] >>
                           ELSE <<>>] >>

IsPt(o) == o.protocol = <<"vless">> /\ o.tag # <<"direct">>

\* Profile::from_json.  A URL is a record: whether it parses, and its host.
FromJson(raw) ==
  LET pts == {i \in DOMAIN raw.outbounds : IsPt(raw.outbounds[i])}
      rsa == IF raw.rsa = <<>> THEN <<>> ELSE NormalizeRsa(raw.rsa[1])
      ed == IF raw.ed = <<>> THEN <<>> ELSE NormalizeEd(raw.ed[1])
      pt == IF pts = {} THEN <<>> ELSE ParseVless(raw.outbounds[Min(pts)])
  IN  IF \/ rsa = <<>> \/ ed = <<>> \/ pt = <<>>
         \/ raw.doh = <<>> \/ ~raw.doh[1].parses
         \/ raw.dohIp # <<>> /\ ~raw.dohIp[1].parses
      THEN <<>>
      ELSE << [rsa |-> rsa[1], ed |-> ed[1], doh |-> raw.doh[1], dohIp |-> raw.dohIp,
               pt |-> pt[1], exitCountry |-> ""] >>

-----------------------------------------------------------------------------
(* registry.rs and the leaf configurations.                                   *)

\* LeafProvider::capabilities, and registry::pick among the one provider.
Capabilities == [protocols |-> {"vless", "trojan"}, networks |-> {"grpc", "tcp", "ws"}, reality |-> TRUE]
Pick(network, reality) ==
  /\ "vless" \in Capabilities.protocols
  /\ network \in {"grpc", "tcp", "ws"} => network \in Capabilities.networks
  /\ reality => Capabilities.reality

\* Mutant of Security: only REALITY is passed on.
SecurityRealityOnly(v) == IF v.security = "reality" /\ v.reality # <<>> THEN "reality" ELSE "none"
Security(v) ==
  CASE v.security = "reality" /\ v.reality # <<>> -> "reality"
    [] v.security = "tls" -> "tls"
    [] OTHER -> "none"

BuildVlessOutbound(v) ==
  [protocol |-> "vless", address |-> v.address, port |-> v.port, uuid |-> v.userId, flow |-> v.flow,
   network |-> v.network,
   grpc |-> IF v.network = "grpc" THEN << [serviceName |-> v.serviceName, multiMode |-> v.multiMode] >> ELSE <<>>,
   security |-> Security(v),
   reality |-> IF v.security = "reality" THEN v.reality ELSE <<>>]

\* Mutant of MaskToNetmask: the shift is by the prefix itself.
MaskToNetmaskUnflipped(b) ==
  LET bits == IF b < Width THEN b ELSE Width
  IN  IF bits = 0 THEN 0 ELSE ((2^Width - 1) * 2^bits) % 2^Width

\* u32::MAX << (32 - bits)
MaskToNetmask(b) ==
  LET bits == IF b < Width THEN b ELSE Width
  IN  IF bits = 0 THEN 0 ELSE ((2^Width - 1) * 2^(Width - bits)) % 2^Width

\* The SOCKS inbound is there in every configuration; a TUN inbound when there
\* is an fd or leaf makes the interface itself.
BuildConfig(listen, tun, outbound) ==
  [listen |-> listen,
   tun |-> IF tun.fd # <<>>
           THEN << [fd |-> tun.fd, auto |-> FALSE, netmask |-> MaskToNetmask(tun.mask), wintun |-> <<>>] >>
           ELSE IF tun.auto
           THEN << [fd |-> <<>>, auto |-> TRUE, netmask |-> MaskToNetmask(tun.mask), wintun |-> tun.wintun] >>
           ELSE <<>>,
   outbound |-> outbound]

NoTun == [fd |-> <<>>, auto |-> FALSE, mask |-> 24 % (Max8 + 1), wintun |-> <<>>]

-----------------------------------------------------------------------------
(* start(), as far as its arguments decide what is run and what is refused.   *)

\* The targets the core is built for, and what cfg! says of each.
Platforms == {"android", "ios", "linux", "macos", "windows"}
SelfProvisioning == {"macos", "windows"}
EmbeddedTun == {"ios"}

\* The TUN leaf #1 is told of; `mask as u8`, and the fd unless it is negative.
TunOf(platform, fd, mask, dll) ==
  [fd |-> IF fd >= 0 THEN <<fd>> ELSE <<>>,
   auto |-> fd < 0 /\ platform \in SelfProvisioning,
   mask |-> mask % (Max8 + 1),
   wintun |-> IF platform = "windows" THEN dll ELSE <<>>]

AdoptTun(platform, fd) == fd >= 0 \/ platform \in EmbeddedTun \cup SelfProvisioning

\* SocksEndpoint::as_url
AsUrl(endpoint) == [scheme |-> "socks5", of |-> endpoint]

\* build_client: the host is pinned to the profile's address and no proxy is
\* set (one the environment names is left out); or all goes through leaf #1's
\* SOCKS inbound, if the HTTP client was built with proxies of that scheme, and
\* the start is refused if not.
BuildClient(p, platform) ==
  LET url == AsUrl("leaf1")
  IN  IF p.dohIp # <<>>
      THEN IF p.doh.host = <<>> THEN <<>>
           ELSE << [pin |-> << <<p.doh.host[1], p.dohIp[1]>> >>, proxy |-> <<>>] >>
      ELSE IF url.scheme \in ProxySchemes[platform] THEN << [pin |-> <<>>, proxy |-> <<url>>] >>
      ELSE <<>>

\* Who finds the address of the DoH host: a pin, a proxy that is told the name,
\* or else the system.
Resolver(client) ==
  IF client.pin # <<>> THEN "pin"
  ELSE IF client.proxy # <<>> /\ client.proxy[1].scheme = "socks5h" THEN "proxy"
  ELSE "system"

\* arti's bridge and the exit country of its streams; arti parses the three.
Bridge(p) == [address |-> p.pt.address, port |-> p.pt.port, ids |-> <<p.rsa, p.ed>>, exit |-> p.exitCountry]
Parses(bridge) == bridge.address \in BridgeAddrs /\ bridge.ids[1] \in BridgeIds /\ bridge.ids[2] \in BridgeIds

\* Everything start() hands to its parts, and what it returns if nothing else
\* fails (a bind, the bootstrap: see Orchestrator).
StartWith(p, platform, fd, mask, dll) ==
  [out |-> IF ~Pick(p.pt.network, p.pt.security = "reality") THEN "provider"
           ELSE IF ~Parses(Bridge(p)) THEN "bridge"
           ELSE IF BuildClient(p, platform) = <<>> THEN "dns"
           ELSE IF ~AdoptTun(platform, fd) THEN "tun"
           ELSE "up",
   leaf2 |-> BuildConfig("leaf2", NoTun, BuildVlessOutbound(p.pt)),
   bridge |-> Bridge(p),
   leaf1 |-> BuildConfig("leaf1", TunOf(platform, fd, mask, dll), [protocol |-> "socks", upstream |-> "arti"]),
   client |-> BuildClient(p, platform)]
=============================================================================
