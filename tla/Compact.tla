------------------------------ MODULE Compact ------------------------------
(***************************************************************************)
(* Compact signalling (lib/compact): the hub rewrites a session            *)
(* description or a candidate into a short code for peers that asked for   *)
(* it (Hub._processJson), and the peer restores it (decompact).            *)
(*                                                                         *)
(* A line of a description is its field, its attribute and its words:      *)
(* "a=ice-ufrag:abcd" is Line("a", "ice-ufrag", <<"abcd">>).  Where a      *)
(* regular expression replaces text, the words are the pieces that it can  *)
(* tell apart: an m= line is what mediaEncode or mediaDecode sees of it,   *)
(* and a candidate is the text of its pieces with the blanks between its   *)
(* words, so "raddr 20.0.0.0" is <<"raddr", Blank, "2", "0.0.0.0">>.  A    *)
(* fingerprint is one word: module Fingerprint is about its text.  A       *)
(* signal is its type, the media id of a candidate, and its lines.         *)
(***************************************************************************)
EXTENDS Integers, SequencesExt

CONSTANTS
    VersionsEndingIn2,  \* the session versions whose last digit is 2
    Lookalikes          \* what /0.0.0.0/ matches but itself: "0:0:0:0"

ASSUME VersionsAssumption == "2" \in VersionsEndingIn2

Line(field, attr, words) == [field |-> field, attr |-> attr, words |-> words]

(* An object of dict.js is the set of its entries, keys with their codes;   *)
(* the Reverse objects are made from the same entries, reversed.            *)
Keys(map) == {p[1] : p \in map}
Codes(map) == {p[2] : p \in map}
Reversed(map) == {<<p[2], p[1]>> : p \in map}

Encode(map, w) == IF w \in Keys(map) THEN (CHOOSE p \in map : p[1] = w)[2] ELSE w
Decode(map, w) == Encode(Reversed(map), w)

-----------------------------------------------------------------------------
(* dict.js                                                                 *)

FieldReplaceMap ==
    {<<"v", "V">>, <<"o", "O">>, <<"s", "S">>, <<"c", "C">>, <<"a", "A">>, <<"m", "M">>,
     <<"t", "T">>}

AttributeRepalceMap ==
    {<<"ice-ufrag", "U">>, <<"ice-pwd", "P">>, <<"fingerprint", "F">>, <<"candidate", "C">>,
     <<"sctp-port", "S">>, <<"max-message-size", "M">>}

(* Variant: two functions share a number.                                  *)
HashFuncMapClash ==
    {<<"sha-1", "1">>, <<"sha-224", "2">>, <<"sha-256", "1">>, <<"sha-384", "4">>,
     <<"sha-512", "5">>, <<"md5", "6">>, <<"md2", "7">>, <<"token", "8">>}

HashFuncMap ==
    {<<"sha-1", "1">>, <<"sha-224", "2">>, <<"sha-256", "3">>, <<"sha-384", "4">>,
     <<"sha-512", "5">>, <<"md5", "6">>, <<"md2", "7">>, <<"token", "8">>}

MediaConnectionAddressTypeMap == {<<"IP4", "4">>, <<"IP6", "6">>}
MediaConnectionIPMap == {<<"0.0.0.0", "0">>}

mediaEncodeMap ==
    {<<"application", "P">>, <<"UDP/DTLS/SCTP", "U">>, <<"DTLS/SCTP", "S">>,
     <<"webrtc-datachannel", "D">>}

protocolEncodeMap == {<<"udp", "U">>, <<"UDP", "U">>, <<"tcp", "T">>, <<"TCP", "T">>}

Blank == " "

(* The regular expression tries the phrases in this order.                 *)
candidateEncodeMap == <<
    [words |-> <<"typ", Blank, "host", Blank, "generation", Blank, "0", Blank,
                 "network-cost", Blank, "999">>, code |-> "P"],
    [words |-> <<"rport", Blank, "0", Blank, "generation", Blank, "0", Blank,
                 "network-cost", Blank, "999">>, code |-> "W"],
    [words |-> <<"typ", Blank, "host">>, code |-> "H"],
    [words |-> <<"typ", Blank, "srflx">>, code |-> "S"],
    [words |-> <<"rport">>, code |-> "R"],
    [words |-> <<"raddr">>, code |-> "A"],
    [words |-> <<"0.0.0.0">>, code |-> "V"],
    [words |-> <<"ufrag">>, code |-> "F"],
    [words |-> <<"rport", Blank, "0", Blank, "generation", Blank, "0">>, code |-> "G"],
    [words |-> <<"network-cost">>, code |-> "N"],
    [words |-> <<"network-id">>, code |-> "E"],
    [words |-> <<"tcptype", Blank, "active">>, code |-> "C"],
    [words |-> <<"generation", Blank, "0">>, code |-> "Q"] >>

candidateDecodeMap ==
    ToSet(candidateEncodeMap)
        \cup {[words |-> <<"UDP">>, code |-> "U"], [words |-> <<"TCP">>, code |-> "T"]}

ASSUME LookalikesAssumption ==
    /\ Lookalikes \cap (Keys(protocolEncodeMap) \cup {"undefined", Blank}) = {}
    /\ \A p \in candidateDecodeMap :
          p.code \notin Lookalikes /\ ToSet(p.words) \cap Lookalikes = {}

(* The phrases that are in a text at a place.                              *)
Found(text, i) ==
    { k \in DOMAIN candidateEncodeMap :
        IsPrefix(candidateEncodeMap[k].words, SubSeq(text, i, Len(text))) }

(* What replaces a piece that is in no phrase: the dots of 0.0.0.0 match   *)
(* every character, and what they match otherwise is no key of the map.    *)
Replaced(piece) == IF piece \in Lookalikes THEN "undefined" ELSE piece

(* Replaces the phrases, at each place the first one that is there.        *)
ReplacePhrases(text) ==
    LET from[i \in 1 .. Len(text) + 1] ==
            IF i > Len(text) THEN <<>>
            ELSE IF Found(text, i) = {} THEN <<Replaced(text[i])>> \o from[i + 1]
            ELSE LET phrase == candidateEncodeMap[Min(Found(text, i))]
                 IN  <<phrase.code>> \o from[i + Len(phrase.words)]
    IN  from[1]

(* Where the next word ends, the first four and the first five.            *)
NextBlank(text, i) ==
    Min({j \in i + 1 .. Len(text) : text[j] = Blank} \cup {Len(text) + 1})
FourthBlank(text) == NextBlank(text, NextBlank(text, NextBlank(text, NextBlank(text, 0))))
FifthBlank(text) == NextBlank(text, FourthBlank(text))

(* The fifth word, the address, is left as it is; it gets a blank after it *)
(* even if nothing follows.                                                *)
candidateEncode(text) ==
    IF FourthBlank(text) > Len(text) THEN text
    ELSE [i \in 1 .. FifthBlank(text) - 1 |->
             IF i < FourthBlank(text) THEN Encode(protocolEncodeMap, text[i]) ELSE text[i]]
         \o <<Blank>> \o ReplacePhrases(SubSeq(text, FifthBlank(text) + 1, Len(text)))

(* The pieces from i to j are whole words.                                 *)
Whole(text, i, j) ==
    /\ i = 1 \/ text[i - 1] = Blank
    /\ j = Len(text) \/ text[j + 1] = Blank

DecodeItem(item) ==
    IF \E p \in candidateDecodeMap : p.code = item
    THEN (CHOOSE p \in candidateDecodeMap : p.code = item).words
    ELSE <<item>>

(* Only whole words are decoded, and "candidate:" is before the first one. *)
candidateDecode(text) ==
    FlattenSeq([i \in DOMAIN text |->
        IF i > 1 /\ Whole(text, i, i) THEN DecodeItem(text[i]) ELSE <<text[i]>>])

mediaEncode(words) == [i \in DOMAIN words |-> Encode(mediaEncodeMap, words[i])]
mediaDecode(words) == [i \in DOMAIN words |-> Decode(mediaEncodeMap, words[i])]

-----------------------------------------------------------------------------
(* index.js                                                                *)

(* Variant: a line that decompact adds is kept.                            *)
DroppedWithoutMsid(line) ==
    \/ line.field \in {"v", "s", "t"}
    \/ line.field = "a" /\ line.attr \in {"extmap-allow-mixed", "sctpmap",
                               "group", "mid", "setup"}

(* Lines that the other side can do without, or makes up.                  *)
Dropped(line) ==
    \/ line.field \in {"v", "s", "t"}
    \/ line.field = "a" /\ line.attr \in {"extmap-allow-mixed", "sctpmap",
                               "msid-semantic", "group", "mid", "setup"}

(* Lines that become one letter.                                           *)
LineCodes ==
    {<<Line("a", "ice-options", <<"trickle">>), "I">>,
     <<Line("a", "ice-options", <<"ice2,trickle">>), "Z">>,
     <<Line("a", "sendrecv", <<>>), "B">>}

(* Variant: an address that is not the loopback one is forgotten when the  *)
(* version is 2.                                                           *)
compactOriginByVersion(words) ==
    CASE words[3] = "2" -> <<words[2]>>
      [] words[3] # "2" /\ SubSeq(words, 4, 6) = <<"IN", "IP4", "127.0.0.1">> ->
            <<words[2], words[3]>>
      [] OTHER -> <<words[2], words[3], words[5], words[6]>>

(* The words of an o= line: user, session, version, "IN", type, address.   *)
(* The line is compared by its end, "2 IN IP4 127.0.0.1", so every version *)
(* whose last digit is 2 passes for 2.                                     *)
compactOrigin(words) ==
    IF SubSeq(words, 4, 6) # <<"IN", "IP4", "127.0.0.1">>
    THEN <<words[2], words[3], words[5], words[6]>>
    ELSE IF words[3] \in VersionsEndingIn2 THEN <<words[2]>> ELSE <<words[2], words[3]>>

compactWords(line) ==
    LET w == line.words
    IN  CASE line.field = "o" -> compactOrigin(w)
          [] line.field = "m" -> mediaEncode(w)
          [] line.field = "c" -> <<Encode(MediaConnectionAddressTypeMap, w[2]),
                                   Encode(MediaConnectionIPMap, w[3])>>
          [] line.attr = "candidate" -> candidateEncode(w)
          [] line.attr = "fingerprint" -> <<Encode(HashFuncMap, w[1]), w[2]>>
          [] OTHER -> w

compactLine(line) ==
    IF line \in Keys(LineCodes) THEN Line(Encode(LineCodes, line), "", <<>>)
    ELSE Line(Encode(FieldReplaceMap, line.field),
              Encode(AttributeRepalceMap, line.attr), compactWords(line))

compactSDPStr(lines) ==
    LET compactSDP[i \in 0 .. Len(lines)] ==   \* after i lines
          IF i = 0 THEN <<>>
          ELSE IF Dropped(lines[i]) THEN compactSDP[i - 1]
          ELSE Append(compactSDP[i - 1], compactLine(lines[i]))
    IN  compactSDP[Len(lines)]

NoCode == [form |-> "null"]

(* module.exports: a candidate loses its prefix "candidate:" and its       *)
(* media id; of other signals only descriptions have a code.  An empty     *)
(* candidate, the end of the list, has none.                               *)
compact(signal) ==
    CASE signal.lines # <<>> /\ signal.type = "candidate" ->
            [form |-> "C", words |-> candidateEncode(signal.lines[1].words)]
      [] /\ signal.lines # <<>> /\ signal.type # "candidate"
         /\ signal.lines[1] = Line("v", "", <<"0">>) ->
            [form |-> IF signal.type = "offer" THEN "O" ELSE "A",
             lines |-> compactSDPStr(signal.lines)]
      [] OTHER -> NoCode

=============================================================================
