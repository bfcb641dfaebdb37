---------------------------- MODULE CompactRelay ---------------------------
(***************************************************************************)
(* A signal on its way from a sender that writes descriptions in full to a *)
(* peer that registered with c=1: Hub._processJson replaces the data by    *)
(* its compact form if it has one, and the peer restores it as             *)
(* lib/compact/decompact.js does.                                          *)
(***************************************************************************)
EXTENDS Compact

CONSTANTS
    Signals,       \* what peers send
    CapitalNames,  \* the names that begin with the code of an attribute
    Pieces         \* the texts in which the expressions of dict.js find nothing,
                   \* or which they find as a whole: not "20.0.0.0" or "udplite"

ASSUME NamesAssumption == Codes(AttributeRepalceMap) \subseteq CapitalNames

(* A text is cut around all that the expressions find in it.                *)
IsCut(words) == ToSet(words) \subseteq Pieces

(* No piece of a candidate is one of the codes.                             *)
IsCandidate(words) == \A p \in candidateDecodeMap : p.code \notin ToSet(words)

(* A line as in RFC 4566: no name begins with one of the capitals that are  *)
(* codes (decompactLine would take the first letter of "Sxyz" for one), and *)
(* its values are in full.                                                  *)
IsLine(line) ==
    /\ line.field \notin Codes(FieldReplaceMap) \cup Codes(LineCodes)
    /\ line.attr \notin CapitalNames
    /\ line.attr # "" => line.field = "a"
    /\ line.field = "c" =>
          /\ Len(line.words) = 3 /\ line.words[1] = "IN"
          /\ line.words[2] \notin Codes(MediaConnectionAddressTypeMap)
          /\ line.words[3] \notin Codes(MediaConnectionIPMap)
    /\ line.field = "o" =>
          /\ Len(line.words) = 6 /\ line.words[4] = "IN"
          /\ ToSet(line.words) \cap Keys(protocolEncodeMap) = {}
    /\ line.attr = "fingerprint" =>
          Len(line.words) = 2 /\ line.words[1] \notin Codes(HashFuncMap)
    /\ line.field = "m" => IsCut(line.words)
    /\ line.attr = "candidate" => IsCut(line.words) /\ IsCandidate(line.words)

(* Its origin is the second line of a description.                          *)
IsDescription(lines) ==
    /\ Len(lines) > 1
    /\ \A i \in DOMAIN lines : IsLine(lines[i]) /\ (lines[i].field = "o" <=> i = 2)

(* A candidate is one line, with or without its prefix "a=".                *)
ASSUME SignalsAssumption ==
    \A s \in Signals :
        /\ s \in [type : STRING, mid : STRING,
                  lines : Seq([field : STRING, attr : STRING, words : Seq(STRING)])]
        /\ s.lines # <<>> =>
              IF s.type = "candidate"
              THEN /\ Len(s.lines) = 1 /\ s.lines[1].attr = "candidate"
                   /\ s.lines[1].field \in {"", "a"}
                   /\ IsCut(s.lines[1].words) /\ IsCandidate(s.lines[1].words)
              ELSE s.mid = "" /\ IsDescription(s.lines)

VARIABLES
    signal,     \* json.data as the sender wrote it
    isCompact,  \* the target's Client.isCompact
    data,       \* json.data as it is sent on
    received    \* what the target's program gets

vars == <<signal, isCompact, data, received>>

Nothing == [form |-> "nothing"]
Full(s) == [form |-> "full", signal |-> s]

-----------------------------------------------------------------------------
(* decompact.js                                                            *)

(* An origin of one word had version 2, one of two words had the loopback  *)
(* address.  The user is always "-".                                       *)
decompactOrigin(words) ==
    CASE Len(words) = 1 -> <<"-", words[1], "2", "IN", "IP4", "127.0.0.1">>
      [] Len(words) = 2 -> <<"-", words[1], words[2], "IN", "IP4", "127.0.0.1">>
      [] OTHER -> <<"-", words[1], words[2], "IN", words[3], words[4]>>

decompactWords(field, attr, w) ==
    CASE field = "o" -> decompactOrigin(w)
      [] field = "m" -> mediaDecode(w)
      [] field = "c" -> <<"IN", Decode(MediaConnectionAddressTypeMap, w[1]),
                          Decode(MediaConnectionIPMap, w[2])>>
      [] attr = "candidate" -> candidateDecode(w)
      [] attr = "fingerprint" -> <<Decode(HashFuncMap, w[1]), w[2]>>
      [] OTHER -> w

decompactLine(line) ==
    IF line.field \in Codes(LineCodes) THEN Decode(LineCodes, line.field)
    ELSE LET field == Decode(FieldReplaceMap, line.field)
             attr == Decode(AttributeRepalceMap, line.attr)
         IN  Line(field, attr, decompactWords(field, attr, line.words))

Header == << Line("v", "", <<"0">>), Line("s", "", <<"-">>),
             Line("t", "", <<"0", "0">>), Line("a", "extmap-allow-mixed", <<>>),
             Line("a", "msid-semantic", <<"WMS">>) >>

(* The origin goes to the second place; every media line is followed by    *)
(* what was dropped of its section, numbered.                              *)
Restore(acc, line, isOffer) ==
    CASE line.field = "o" -> [acc EXCEPT !.sdp = InsertAt(@, 2, line)]
      [] line.field = "m" ->
            [sdp |-> acc.sdp \o << line,
                Line("a", "setup", <<IF isOffer THEN "actpass" ELSE "active">>),
                Line("a", "mid", <<ToString(acc.mediaID)>>) >>,
             mediaID |-> acc.mediaID + 1]
      [] OTHER -> [acc EXCEPT !.sdp = Append(@, line)]

(* The group of all sections is put before the last line.                  *)
decompactSDPStr(lines, isOffer) ==
    LET after[i \in 0 .. Len(lines)] ==
          IF i = 0 THEN [sdp |-> Header, mediaID |-> 0]
          ELSE Restore(after[i - 1], decompactLine(lines[i]), isOffer)
        all == after[Len(lines)]
        mids == [i \in 1 .. all.mediaID |-> ToString(i - 1)]
    IN  InsertAt(all.sdp, Len(all.sdp), Line("a", "group", <<"BUNDLE">> \o mids))

decompact(code) ==
    IF code.form = "C"
    THEN [type |-> "candidate", mid |-> "0",
          lines |-> <<Line("", "candidate", candidateDecode(code.words))>>]
    ELSE [type |-> IF code.form = "O" THEN "offer" ELSE "answer", mid |-> "",
          lines |-> decompactSDPStr(code.lines, code.form = "O")]

-----------------------------------------------------------------------------
Init ==
    /\ signal \in Signals
    /\ isCompact \in BOOLEAN
    /\ data = Nothing
    /\ received = Nothing

(* Hub._processJson *)
processJson ==
    /\ data = Nothing
    /\ data' = IF isCompact /\ compact(signal) # NoCode
               THEN compact(signal) ELSE Full(signal)
    /\ UNCHANGED <<signal, isCompact, received>>

Receive ==
    /\ data # Nothing
    /\ received = Nothing
    /\ received' = Full(IF data.form = "full" THEN data.signal ELSE decompact(data))
    /\ UNCHANGED <<signal, isCompact, data>>

Next == processJson \/ Receive

Spec == Init /\ [][Next]_vars

-----------------------------------------------------------------------------
(* Properties.                                                             *)

(* compareStringArrays of hub.js, which developers used to compare both    *)
(* ends: neither order nor case count.                                     *)
LowerCase(w) == CASE w = "UDP" -> "udp" [] w = "TCP" -> "tcp" [] OTHER -> w
Lower(line) == [line EXCEPT !.words = [i \in DOMAIN line.words |-> LowerCase(line.words[i])]]
Comparable(lines) == {Lower(line) : line \in lines}
Same(s, t) ==
    /\ s.type = t.type /\ s.mid = t.mid
    /\ Comparable(ToSet(s.lines)) = Comparable(ToSet(t.lines))

LinesWith(s, attr) == { line \in ToSet(s.lines) : line.attr = attr }
LinesOf(s, field) == { line \in ToSet(s.lines) : line.field = field }
WordsOf(lines) == UNION { ToSet(line.words) : line \in lines }

(* Wherever a phrase is found, what is replaced is whole words, and nothing *)
(* is taken for the wildcard address.                                       *)
RegularPhrases(text) ==
    \A i \in DOMAIN text :
        /\ text[i] \notin Lookalikes
        /\ Found(text, i) # {} =>
              Whole(text, i, i + Len(candidateEncodeMap[Min(Found(text, i))].words) - 1)

(* A candidate of five words or more has something after its address, and   *)
(* none of its words merely contains what the dictionaries replace, as      *)
(* 20.0.0.0 contains the wildcard address.                                  *)
RegularCandidate(text) ==
    FourthBlank(text) <= Len(text) =>
        /\ FifthBlank(text) <= Len(text)
        /\ \A i \in 1 .. FourthBlank(text) - 1 :
              text[i] \in Keys(protocolEncodeMap) => i > 1 /\ Whole(text, i, i)
        /\ RegularPhrases(SubSeq(text, FifthBlank(text) + 1, Len(text)))

RegularCandidates(s) ==
    \A line \in LinesWith(s, "candidate") : RegularCandidate(line.words)

(* The lines about the session and its sections as such, and what they are *)
(* for data channels: the media ids are numbers, all sections are in one   *)
(* group, and who offers leaves the role to the other one, who takes it.   *)
SessionLines(s) ==
    { line \in ToSet(s.lines) :
        \/ line.field \in {"v", "s", "t"}
        \/ line.attr \in {"extmap-allow-mixed", "msid-semantic", "sctpmap", "group", "mid",
                         "setup"} }
UsualLines(sections, isOffer) ==
    LET mids == [k \in 1 .. sections |-> ToString(k - 1)]
    IN  ToSet(Header)
            \cup {Line("a", "setup", <<IF isOffer THEN "actpass" ELSE "active">>) : m \in ToSet(mids)}
            \cup {Line("a", "mid", <<m>>) : m \in ToSet(mids)}
            \cup {Line("a", "group", <<"BUNDLE">> \o mids)}
Sections(lines) == Cardinality({i \in DOMAIN lines : lines[i].field = "m"})

(* Descriptions like those a browser makes for data channels, and that     *)
(* were not negotiated again twelve times.                                 *)
RegularDescription(s) ==
    /\ s.type \in {"offer", "answer"}
    /\ \A line \in LinesOf(s, "o") :
          /\ line.words[1] = "-"
          /\ SubSeq(line.words, 5, 6) = <<"IP4", "127.0.0.1">> =>
                line.words[3] \notin VersionsEndingIn2 \ {"2"}
    /\ Comparable(SessionLines(s)) =
          Comparable(UsualLines(Sections(s.lines), s.type = "offer"))
    /\ WordsOf(LinesOf(s, "m")) \cap Codes(mediaEncodeMap) = {}
    /\ RegularCandidates(s)

Regular(s) ==
    \/ s.lines = <<>>
    \/ IF s.type = "candidate"
       THEN RegularCandidates(s) /\ s.mid = "0" /\ s.lines[1].field = ""
       ELSE s.lines[1] = Line("v", "", <<"0">>) => RegularDescription(s)

(* The peer gets what was sent, up to order and case, exactly if it is     *)
(* regular or the peer is not compact.                                     *)
RegularArrivesIntact ==
    received # Nothing =>
        (Same(received.signal, signal) <=> Regular(signal) \/ ~isCompact)

(* Whatever else is lost, what a connection needs is not: credentials,     *)
(* fingerprints, ports and addresses of the connection reach the peer, and *)
(* none that was not sent.                                                 *)
Essential(s) ==
    LinesOf(s, "c") \cup
        UNION { LinesWith(s, attr) : attr \in {"ice-ufrag", "ice-pwd", "fingerprint",
                          "sctp-port", "max-message-size", "ice-options"} }
EssentialsArrive ==
    received # Nothing => Essential(received.signal) = Essential(signal)

(* What the check in Hub._processJson accepts: an origin that differs at    *)
(* the other end is one that began with "o=mozilla".                       *)
OnlyMozillaOriginsChange ==
    received # Nothing =>
        \A line \in LinesOf(signal, "o") :
            line.words[1] # "mozilla" => line \in ToSet(received.signal.lines)

(* The compact form is a normal form: what it loses, it loses once.        *)
CompactAgainIsSame ==
    received # Nothing /\ data.form # "full" => compact(received.signal) = data

=============================================================================
