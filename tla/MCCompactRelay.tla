--------------------------- MODULE MCCompactRelay --------------------------
(***************************************************************************)
(* Signals for CompactRelay: the offer a browser makes for a data channel, *)
(* and what deviates from it in at most three respects; candidates as      *)
(* browsers write them.                                                    *)
(***************************************************************************)
EXTENDS CompactRelay

Attr(attr, words) == Line("a", attr, words)
If(condition, line) == IF condition THEN <<line>> ELSE <<>>

(* The text of words, each of them in the pieces that expressions see.     *)
Spaced(words) ==
    FlattenSeq([i \in DOMAIN words |-> (IF i = 1 THEN <<>> ELSE <<Blank>>) \o words[i]])
Plain(words) == Spaced([i \in DOMAIN words |-> <<words[i]>>])

HostCandidate == Plain(<<"84216", "1", "udp", "2113937151", "192.168.1.7", "56143", "typ", "host",
                         "generation", "0", "network-cost", "999">>)
TcpCandidate == Plain(<<"84217", "1", "tcp", "1518280447", "a1.local", "9", "typ", "host",
                        "tcptype", "active", "generation", "0", "ufrag", "x1y2", "network-id", "1">>)
Reflexive(raddr) ==
    Plain(<<"84218", "1", "UDP", "1677729535", "0.0.0.0", "61001", "typ", "srflx", "raddr">>)
        \o <<Blank>> \o raddr \o <<Blank>>
        \o Plain(<<"rport", "0", "generation", "0", "network-cost", "999">>)
RelayCandidate ==
    Plain(<<"84219", "1", "udp", "41885439", "5.6.7.8", "3478", "typ", "relay", "raddr", "1.2.3.4",
            "rport", "0", "generation", "0">>)
CostlyCandidate ==   \* 9990: the phrase P is found, and a zero left
    Plain(<<"84216", "1", "udp", "2113937151", "192.168.1.7", "56143", "typ", "host",
            "generation", "0", "network-cost">>) \o <<Blank, "999", "0">>
ActiveCandidate ==   \* 00: of "generation 00" only the first zero is replaced
    Plain(<<"84217", "1", "tcp", "1518280447", "0.0.0.0", "9", "typ", "host",
            "tcptype", "active", "generation">>) \o <<Blank, "0", "0">>
ShortCandidate == Plain(<<"84220", "1", "udp", "7">>)
BareCandidate == Plain(<<"84220", "1", "udp", "7", "1.2.3.4">>)
GluedCandidate == Spaced(<<<<"udp", "84">>, <<"1">>, <<"udp", "lite">>, <<"7">>, <<"1.2.3.4">>, <<"9">>>>)
Candidates == <<HostCandidate, TcpCandidate, RelayCandidate, CostlyCandidate, Reflexive(<<"0.0.0.0">>),
                Reflexive(<<"2", "0.0.0.0">>), Reflexive(<<"0:0:0:0">>)>>
OddCandidates == <<ActiveCandidate, ShortCandidate, BareCandidate, GluedCandidate>>

(* The media lines, in the pieces that the expressions see.                *)
DataMedia == <<"application", "9", "UDP/DTLS/SCTP", "webrtc-datachannel">>
OldDataMedia == <<"application", "9", "DTLS/SCTP", "5000">>
TcpDataMedia == <<"application", "9", "TC", "P", "/", "DTLS/SCTP", "webrtc-datachannel">>
AudioMedia == <<"audio", "9", "U", "D", "P", "/TL", "S", "/RT", "P", "/", "S", "AV", "P", "F", "111">>

(* In each respect, what is usual and what else occurs.                    *)
Usual ==
    [type |-> "offer", user |-> "-", version |-> "3", address |-> <<"IP4", "127.0.0.1">>,
     setup |-> "actpass", mid |-> "0", extmap |-> TRUE, msid |-> "WMS",
     options |-> "trickle", sendrecv |-> FALSE, hash |-> "sha-256", sctp |-> "sctp-port",
     media |-> <<DataMedia>>, candidates |-> <<HostCandidate>>, ip |-> <<"IP4", "0.0.0.0">>]
Unusual ==
    [type |-> {"answer", "pranswer"}, user |-> {"mozilla"}, version |-> {"2", "12"},
     address |-> {<<"IP4", "192.168.1.7">>, <<"IP6", "::1">>},
     setup |-> {"active", "passive"}, mid |-> {"data"}, extmap |-> {FALSE},
     msid |-> {"WMS *"}, options |-> {"ice2,trickle", "renomination"},
     sendrecv |-> {TRUE}, hash |-> {"sha-1", "sha-3"}, sctp |-> {"sctpmap"},
     media |-> {<<OldDataMedia>>, <<TcpDataMedia>>, <<DataMedia, AudioMedia>>},
     candidates |-> {<<>>, Candidates, OddCandidates} \cup { <<c>> : c \in ToSet(Candidates) },
     ip |-> {<<"IP4", "1.2.3.4">>, <<"IP6", "::">>}]

Deviations == UNION { { r :> v : v \in Unusual[r] } : r \in DOMAIN Unusual } \cup {<<>>}
Shapes == { a @@ b @@ c @@ Usual : a, b, c \in Deviations }

(* The section of a media line.                                            *)
Section(shape, k) ==
    << Line("m", "", shape.media[k]), Line("c", "", <<"IN">> \o shape.ip) >>
    \o [i \in DOMAIN shape.candidates |-> Attr("candidate", shape.candidates[i])]
    \o << Attr("ice-ufrag", <<"x1y2">>), Attr("ice-pwd", <<"secret">>),
          Attr("ice-options", <<shape.options>>),
          Attr("fingerprint", <<shape.hash, "AB:CD">>), Attr("setup", <<shape.setup>>),
          Attr("mid", <<IF shape.mid = "0" THEN ToString(k - 1) ELSE shape.mid>>) >>
    \o If(shape.sendrecv, Attr("sendrecv", <<>>))
    \o << Attr(shape.sctp, <<"5000">>), Attr("max-message-size", <<"262144">>) >>

Description(shape) ==
    [type |-> shape.type, mid |-> "",
     lines |-> << Line("v", "", <<"0">>),
                  Line("o", "", <<shape.user, "46117", shape.version, "IN">> \o shape.address),
                  Line("s", "", <<"-">>), Line("t", "", <<"0", "0">>),
                  Attr("group", <<"BUNDLE">> \o
                     [k \in DOMAIN shape.media |->
                        IF shape.mid = "0" THEN ToString(k - 1) ELSE shape.mid]) >>
               \o If(shape.extmap, Attr("extmap-allow-mixed", <<>>))
               \o << Attr("msid-semantic", <<shape.msid>>) >>
               \o FlattenSeq([k \in DOMAIN shape.media |-> Section(shape, k)])
               \o << Line("", "", <<>>) >>]

(* The pieces of dict.js, and texts in which nothing is found.              *)
MCPieces ==
    Lookalikes \cup Keys(mediaEncodeMap) \cup Codes(mediaEncodeMap) \cup Keys(protocolEncodeMap)
        \cup UNION { ToSet(p.words) : p \in candidateDecodeMap }
        \cup {"1", "2", "7", "9", "84", "111", "3478", "5000", "56143", "61001", "84216", "84217",
              "84218", "84219", "84220", "41885439", "1518280447", "1677729535", "2113937151",
              "192.168.1.7", "1.2.3.4", "5.6.7.8", "a1.local", "x1y2", "relay", "lite",
              "audio", "F", "TC", "/", "/TL", "/RT", "AV"}

MCSignals ==
    { Description(shape) : shape \in Shapes }
    \cup { [type |-> "candidate", mid |-> mid, lines |-> <<Line(field, "candidate", c)>>] :
            mid \in {"0", "1"}, field \in {"", "a"}, c \in ToSet(Candidates \o OddCandidates) }
    \cup {[type |-> type, mid |-> "", lines |-> <<>>] : type \in {"candidate", "renegotiate"}}

=============================================================================
