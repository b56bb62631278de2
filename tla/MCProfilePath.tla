---------------------------- MODULE MCProfilePath ----------------------------
(* Blobs for TLC: a usable one, and each of its fields as another user, or    *)
(* another server, might write it.                                            *)
EXTENDS ProfilePath

MCUpper == [c \in {"a", "A"} |-> "A"]
MCHex == {"a", "A"}
MCBase64 == {"a", "+", "-"}
\* arti takes no url-safe base64.
MCBridgeIds == [1..2 -> {"A"}] \cup [1..2 -> {"a", "+"}]
\* A build as it is declared, without SOCKS proxies, and one with them.
MCProxySchemes == [p \in Platforms |-> {"http", "https"} \cup IF p \in {"android", "macos"} THEN {"socks5"} ELSE {}]
MCFds == {-1, 5}
MCMasks == {2, 8}

Url(parses, host) == [parses |-> parses, host |-> host]
User == [id |-> <<"u">>, flow |-> <<>>]
Server == [address |-> <<"h">>, port |-> <<2>>, users |-> <<User>>]
Keys == [f \in RealityFields |-> IF f = "shortId" THEN <<>> ELSE <<f>>]
Vless == [protocol |-> <<"vless">>, tag |-> <<>>, vnext |-> <<Server>>, network |-> <<"grpc">>,
          serviceName |-> <<"g">>, mode |-> <<>>, security |-> <<"reality">>, reality |-> <<Keys>>]
Other == [Vless EXCEPT !.protocol = <<"freedom">>]
Direct == [Vless EXCEPT !.tag = <<"direct">>, !.vnext = <<>>]
Good == [rsa |-> << <<"a", "A">> >>, ed |-> << <<"a", "+">> >>, doh |-> <<Url(TRUE, <<"d">>)>>,
         dohIp |-> <<>>, outbounds |-> <<Vless>>]
With(o) == [Good EXCEPT !.outbounds = <<o>>]

Wide ==
  {Good}
  \cup {[Good EXCEPT !.rsa = r] :
         r \in {<<>>, << <<" ", "$", "$", "a", " ", "a", " ">> >>, << <<"$", " ", "a", "a">> >>,
                << <<"a", "$", "a">> >>, << <<"a">> >>, << <<"a", "x">> >>, << <<"$", "a", "a", "a">> >>}}
  \cup {[Good EXCEPT !.ed = e] :
         e \in {<<>>, << <<" ", "ed25519:", "a", "a", " ">> >>, << <<"ed25519:", " ", "a", "a">> >>,
                << <<"a", " ", "a">> >>, << <<"a", "a", "a">> >>, << <<"a", "=">> >>, << <<"-", "a">> >>}}
  \cup {[Good EXCEPT !.doh = d, !.dohIp = ip] :
         d \in {<<>>, <<Url(FALSE, <<>>)>>, <<Url(TRUE, <<>>)>>, <<Url(TRUE, <<"d">>)>>},
         ip \in {<<>>, << [parses |-> TRUE] >>, << [parses |-> FALSE] >>}}
  \cup {[Good EXCEPT !.outbounds = os] :
         os \in {<<>>, <<Other>>, <<Direct>>, <<Other, Direct, Vless>>,
                 <<[Vless EXCEPT !.security = <<"tls">>], Vless>>}}
  \cup {With([Vless EXCEPT !.security = s, !.reality = <<>>]) :
         s \in {<<>>, <<"tls">>, <<"xtls">>, <<"reality">>}}
  \cup {With([Vless EXCEPT !.network = n, !.serviceName = <<>>]) : n \in {<<>>, <<"ws">>, <<"grpc">>}}
  \cup {With([Vless EXCEPT !.vnext = v]) :
         v \in {<<>>, <<Server, [Server EXCEPT !.address = <<"other">>]>>,
                <<[Server EXCEPT !.address = <<>>]>>, <<[Server EXCEPT !.address = <<"no address">>]>>,
                <<[Server EXCEPT !.port = <<>>]>>, <<[Server EXCEPT !.port = <<7>>]>>,
                <<[Server EXCEPT !.users = <<>>]>>, <<[Server EXCEPT !.users = <<[User EXCEPT !.id = <<>>]>>]>>}}

MCBlobs == <<Wide, {[Good EXCEPT !.rsa = << <<"A", "A">> >>]}>>
=============================================================================
