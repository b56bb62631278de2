----------------------------- MODULE ProfilePath -----------------------------
(* The way of a profile through the program: the user imports a blob, Dart    *)
(* keeps what the core made of it (config_state.dart) across restarts, and    *)
(* connect() hands the active one, with the chosen country, to start().       *)
(*                                                                            *)
(* ProfilesController loads and saves asynchronously: both wait for the       *)
(* preferences, in the order of the calls, and read or write `state` then.    *)
EXTENDS Profile, FiniteSets

CONSTANTS
  Blobs,        \* Blobs[n] is what a user may import as the n-th
  Countries,    \* the exit countries; "" is none
  Fds, Masks,   \* what the caller of the C ABI may give as fd and mask
  MaxRestarts   \* bound on restarts of the app

MaxImports == Len(Blobs)  \* bound on imports

ASSUME CountryAssumption == "" \in Countries
ASSUME CallerAssumption == Fds \subseteq Int /\ Masks \subseteq Nat
ASSUME ImportAssumption == MaxRestarts \in Nat

\* What is read of a blob: texts, a list, values that may be missing, u64.
Optional(value) == value = <<>> \/ value = <<value[1]>>

ASSUME BlobAssumption ==
  \A raw \in UNION ToSet(Blobs) :
    /\ Optional(raw.rsa) /\ Optional(raw.ed)
    /\ \A text \in ToSet(raw.rsa) \cup ToSet(raw.ed) : text \in Seq(ToSet(text))
    /\ raw.outbounds \in Seq(ToSet(raw.outbounds))
    /\ \A o \in ToSet(raw.outbounds) :
         /\ Optional(o.security) /\ Optional(o.network)
         /\ o.vnext # <<>> => Optional(o.vnext[1].port) /\ ToSet(o.vnext[1].port) \subseteq Nat

VARIABLES
  disk,      \* the stored list, <<>> if there is none
  profiles,  \* ProfilesController.state: id, and the data the core returned
  pending,   \* its _load and _save calls that wait for the preferences
  selected,  \* selectedProfileIdProvider, <<>> for null
  country,   \* selectedCountryProvider
  imports,   \* history: the blobs imported so far; an id is a place in it
  restarts,  \* history: restarts so far
  kept,      \* history: ids whose import returned, and that were not removed
  early,     \* history: ids imported before the profiles were loaded
  session    \* history: what the last step has started: id, country, arguments, outcome

vars == <<disk, profiles, pending, selected, country, imports, restarts, kept, early, session>>

NoSession == [id |-> 0]
Ids(list) == {list[i].id : i \in DOMAIN list}

Init ==
  /\ disk = <<>> /\ profiles = <<>> /\ pending = << [op |-> "load", id |-> 0] >>
  /\ selected = <<>> /\ country = ""
  /\ imports = <<>> /\ restarts = 0 /\ kept = {} /\ early = {}
  /\ session = NoSession

\* _save() after a change: the one that adds answers the import.
Saving(id) == pending' = Append(pending, [op |-> "save", id |-> id])

\* Mutant of Added: the list is replaced.
AddedAlone(p) == <<p>>
Added(p) == Append(profiles, p)

\* addFromJson: an id is its time.
Import(blob) ==
  /\ Len(imports) < MaxImports /\ blob \in Blobs[Len(imports) + 1]
  /\ imports' = Append(imports, blob)
  /\ LET id == Len(imports) + 1
         parsed == FromJson(blob)
     IN  IF parsed = <<>>
         THEN UNCHANGED <<profiles, pending, early>>
         ELSE /\ profiles' = Added([id |-> id, data |-> parsed[1]])
              /\ early' = IF \E i \in DOMAIN pending : pending[i].op = "load" THEN early \cup {id} ELSE early
              /\ Saving(id)
  /\ UNCHANGED <<disk, selected, country, restarts, kept>>

\* The others: no two have one id.
Without(id) == RemoveAt(profiles, CHOOSE i \in DOMAIN profiles : profiles[i].id = id)

RemoveProfile(id) ==
  /\ id \in Ids(profiles)
  /\ profiles' = Without(id)
  /\ kept' = kept \ {id}
  /\ Saving(0)
  /\ UNCHANGED <<disk, selected, country, imports, restarts, early>>

\* The preferences are there for the oldest call that waits.
Load ==
  /\ pending # <<>> /\ Head(pending).op = "load"
  /\ pending' = Tail(pending)
  /\ profiles' = OrElse(disk, profiles)
  /\ UNCHANGED <<disk, selected, country, imports, restarts, kept, early>>

Save ==
  /\ pending # <<>> /\ Head(pending).op = "save"
  /\ pending' = Tail(pending)
  /\ disk' = <<profiles>>
  /\ LET id == Head(pending).id
     IN  kept' = kept \cup ({id} \cap Ids(profiles))
  /\ UNCHANGED <<profiles, selected, country, imports, restarts, early>>

\* The dropdown of the home page, and the country picker.
Select(id) ==
  /\ id \in Ids(profiles) /\ selected' = <<id>>
  /\ UNCHANGED <<disk, profiles, pending, country, imports, restarts, kept, early>>

PickCountry(c) ==
  /\ country' = c
  /\ UNCHANGED <<disk, profiles, pending, selected, imports, restarts, kept, early>>

\* activeProfileProvider: the selected one, or the first if none was selected.
Found == IF selected = <<>> THEN DOMAIN profiles ELSE {i \in DOMAIN profiles : profiles[i].id = selected[1]}
Active == profiles[Min(Found)]

\* VpnController.connect, and the native side of it: on a desktop the fd is
\* that of the provisioned TUN, elsewhere the platform's.
Connect(platform, fd, mask) ==
  /\ Found # {}
  /\ session' = [id |-> Active.id, country |-> country, platform |-> platform, fd |-> fd, mask |-> mask,
                 run |-> StartWith([Active.data EXCEPT !.exitCountry = country],
                                   platform, fd, mask, <<"wintun.dll">>)]
  /\ UNCHANGED <<disk, profiles, pending, selected, country, imports, restarts, kept, early>>

\* The app ends, with whatever it had not saved, and is started again.
Restart ==
  /\ restarts < MaxRestarts /\ restarts' = restarts + 1
  /\ profiles' = <<>> /\ pending' = << [op |-> "load", id |-> 0] >>
  /\ selected' = <<>> /\ country' = ""
  /\ UNCHANGED <<disk, imports, kept, early>>

Store ==
  \/ \E b \in UNION ToSet(Blobs) : Import(b)
  \/ \E id \in Ids(profiles) : RemoveProfile(id) \/ Select(id)
  \/ Load \/ Save \/ Restart
  \/ \E c \in Countries : PickCountry(c)

Next ==
  \/ Store /\ session' = NoSession
  \/ \E pl \in Platforms, fd \in Fds, m \in Masks : Connect(pl, fd, m)

Spec == Init /\ [][Next]_vars

-----------------------------------------------------------------------------
TypeOK ==
  /\ restarts \in 0..MaxRestarts /\ imports \in Seq(UNION ToSet(Blobs)) /\ country \in Countries
  /\ \A i \in DOMAIN profiles : profiles[i].id \in DOMAIN imports
  /\ (Ids(profiles) \cup kept \cup early \cup ToSet(selected)) \subseteq DOMAIN imports

(* What a blob means, said without the parser.                                *)

\* Blanks, dollars, then digits with blanks anywhere.
IsRsa(s) ==
  \E i \in 0..Len(s) : \E j \in i..Len(s) :
    /\ \A k \in 1..i : s[k] = Blank
    /\ \A k \in i + 1..j : s[k] = "$"
    /\ \A k \in j + 1..Len(s) : s[k] \in Hex \cup {Blank}
    /\ Cardinality({k \in j + 1..Len(s) : s[k] \in Hex}) = RsaLen

\* Exactly EdLen characters in one piece, a prefix, and blanks around.
IsEd(s) ==
  \E i \in 0..Len(s) : \E n \in {0, 1} :
    /\ i + n + EdLen <= Len(s)
    /\ \A k \in 1..Len(s) : k \in i + n + 1..i + n + EdLen <=> s[k] \in Base64
    /\ \A k \in 1..Len(s) \ (i + n + 1..i + n + EdLen) : s[k] = IF n = 1 /\ k = i + 1 THEN "ed25519:" ELSE Blank

\* The outbound meant: the first VLESS one that is not tagged "direct".
Meant(raw) ==
  CHOOSE o \in ToSet(raw.outbounds) :
    \E i \in DOMAIN raw.outbounds :
      /\ raw.outbounds[i] = o /\ o.protocol = <<"vless">> /\ o.tag # <<"direct">>
      /\ \A j \in 1..i - 1 : raw.outbounds[j].protocol # <<"vless">> \/ raw.outbounds[j].tag = <<"direct">>

Usable(raw) ==
  /\ raw.rsa # <<>> /\ IsRsa(raw.rsa[1])
  /\ raw.ed # <<>> /\ IsEd(raw.ed[1])
  /\ raw.doh # <<>> /\ raw.doh[1].parses
  /\ raw.dohIp = <<>> \/ raw.dohIp[1].parses
  /\ \E o \in ToSet(raw.outbounds) : o.protocol = <<"vless">> /\ o.tag # <<"direct">>
  /\ LET o == Meant(raw)
     IN  /\ o.vnext # <<>>
         /\ o.security = <<"reality">> => o.reality # <<>>
         /\ LET v == o.vnext[1]
            IN  /\ v.address # <<>> /\ v.port # <<>>
                /\ v.users # <<>> /\ v.users[1].id # <<>>

\* The fingerprints a blob gives: the digits of a text in upper case, and its
\* base64 characters.
RsaOf(text) ==
  LET digits == Filtered(text, {i \in DOMAIN text : text[i] \in Hex})
  IN  [i \in DOMAIN digits |-> UpperOf[digits[i]]]
EdOf(text) == Filtered(text, {i \in DOMAIN text : text[i] \in Base64})

\* The DoH client asks the host a blob names: at the pinned address and without
\* a proxy, or else through leaf #1, after the system has looked the host up.
AsksAsMeant(raw, run) ==
  LET client == run.client[1]
  IN  IF raw.dohIp # <<>>
      THEN /\ client.pin = << <<raw.doh[1].host[1], raw.dohIp[1]>> >>
           /\ client.proxy = <<>> /\ Resolver(client) = "pin"
      ELSE /\ client.pin = <<>> /\ client.proxy[1].of = run.leaf1.listen
           /\ Resolver(client) = "system"

\* What start() ran is what a blob says.
RunsAsMeant(raw, up) ==
  LET o == Meant(raw)
      v == o.vnext[1]
      run == up.run
      out == run.leaf2.outbound
  IN  /\ out.address = v.address[1] /\ out.uuid = v.users[1].id[1]
      /\ out.port = v.port[1] % (Max16 + 1)
      /\ out.security = IF o.security \in {<<"reality">>, <<"tls">>} THEN o.security[1] ELSE "none"
      /\ out.reality # <<>> <=> out.security = "reality"
      /\ out.reality # <<>> =>
           \A f \in RealityFields : o.reality[1][f] # <<>> => out.reality[1][f] = o.reality[1][f][1]
      /\ o.network = <<"grpc">> <=> out.grpc # <<>>
      /\ out.grpc # <<>> /\ o.serviceName # <<>> => out.grpc[1].serviceName = o.serviceName[1]
      /\ run.leaf1.outbound = [protocol |-> "socks", upstream |-> "arti"]
      /\ <<run.bridge.address, run.bridge.port>> = <<out.address, out.port>>
      /\ run.bridge.exit = up.country
      /\ run.bridge.ids = <<RsaOf(raw.rsa[1]), EdOf(raw.ed[1])>>
      /\ run.client # <<>> => AsksAsMeant(raw, run)

\* A session runs what the active profile's blob says: every hop of it goes
\* where and as the outbound meant says, REALITY and TLS are never given up,
\* arti knows the bridge by both fingerprints and the country chosen last, and
\* the resolver asks the host named, at the address pinned to it if there is
\* one.  Three things a reader of the blob would not expect are what the code
\* does: of a port only what 16 bits hold is kept, a security other than
\* REALITY and TLS is run as none at all, and a host that is not pinned is
\* looked up by the system, as the proxy's URL says socks5.
StartedAsMeant == session.id # 0 => RunsAsMeant(imports[session.id], session)

\* arti can parse what a blob gives of the bridge.
Readable(raw) ==
  /\ Meant(raw).vnext[1].address[1] \in BridgeAddrs
  /\ RsaOf(raw.rsa[1]) \in BridgeIds /\ EdOf(raw.ed[1]) \in BridgeIds

\* A client can be built for the resolver a blob names.
Askable(raw, platform) ==
  IF raw.dohIp # <<>> THEN raw.doh[1].host # <<>> ELSE "socks5" \in ProxySchemes[platform]

\* A start succeeds exactly if all that is looked at late allows it, and what
\* it is refused for is the first that does not.
StartsIff(raw, up) ==
  LET out == up.run.out
      tun == up.fd >= 0 \/ up.platform \in {"ios", "macos", "windows"}
  IN  /\ out = "up" <=> Readable(raw) /\ Askable(raw, up.platform) /\ tun
      /\ out = "bridge" <=> ~Readable(raw)
      /\ out = "dns" <=> Readable(raw) /\ ~Askable(raw, up.platform)
      /\ out = "tun" <=> Readable(raw) /\ Askable(raw, up.platform) /\ ~tun

\* The core takes a blob if and only if it can be used (a port of any size can,
\* see StartedAsMeant).  A start from one fails, as far as its arguments decide
\* it, exactly if arti cannot parse the address or a fingerprint, if the host is
\* pinned and missing, or not pinned and the HTTP client has no SOCKS proxies,
\* or if the platform has no TUN to offer: a profile may be accepted and never
\* start.
AcceptedIffUsable ==
  /\ \A id \in DOMAIN imports : id \in kept \cup Ids(profiles) => Usable(imports[id])
  /\ \A id \in DOMAIN imports : Usable(imports[id]) <=> FromJson(imports[id]) # <<>>
  /\ session.id # 0 => StartsIff(imports[session.id], session)

\* Only leaf #1 has a source of packets, and a session that is up exactly one:
\* an fd, an interface leaf makes, or the iOS pump.
OneSource(up) ==
  LET run == up.run
      tun == run.leaf1.tun
  IN  /\ run.leaf2.tun = <<>>
      /\ run.out = "up" =>
           Cardinality({k \in {"fd", "auto", "pump"} :
             CASE k = "fd" -> tun # <<>> /\ tun[1].fd = <<up.fd>> /\ up.fd >= 0
               [] k = "auto" -> tun # <<>> /\ tun[1].auto
               [] k = "pump" -> tun = <<>> /\ up.platform = "ios"}) = 1

\* The netmask is the prefix the caller gave.
PrefixKept(up) ==
  LET tun == up.run.leaf1.tun
      bits == up.mask % (Max8 + 1)
      prefix == IF bits < Width THEN bits ELSE Width
  IN  tun # <<>> =>
        /\ tun[1].netmask \div 2^(Width - prefix) = 2^prefix - 1
        /\ tun[1].netmask % 2^(Width - prefix) = 0
        /\ tun[1].netmask < 2^Width

\* A session that is up has exactly one source of packets, and its netmask is
\* the prefix the caller gave.
OneTun == session.id # 0 => OneSource(session) /\ PrefixKept(session)

\* A profile whose import has returned is there until it is removed, in memory
\* once the load has ended and on disk when nothing waits to be saved.  The
\* exception is one imported before the load had ended, which the load
\* overwrites.
LostOnlyIfEarly ==
  /\ ~(\E i \in DOMAIN pending : pending[i].op = "load") => kept \ early \subseteq Ids(profiles)
  /\ pending = <<>> /\ disk # <<>> => kept \ early \subseteq Ids(disk[1])
=============================================================================
