-------------------------------- MODULE Beacon ---------------------------------
(***************************************************************************)
(* A beacon and the row the ingestor makes of it (apps/ingestor/internal/  *)
(* event), next to the contract it mirrors (packages/shared): the schema   *)
(* and the helpers there.  Operators only.                                 *)
(*                                                                         *)
(* A text is what can go wrong with it: its length in UTF-16 units, the    *)
(* bytes of a unit (1 for plain ASCII) and whether blanks surround it.  A  *)
(* URL adds what the two parsers find.  A host is its name without www and *)
(* those of the known needles that occur in it: net/url reads it after //, *)
(* with or without a scheme, as it is written; new URL reads it only where *)
(* there is a scheme, and writes it its own way (lower case, punycode, an  *)
(* IPv6 address in brackets).  A path is its segments, a final slash and   *)
(* whether it is written with %-escapes; the campaign stands for the three *)
(* tags.  A number is written with all its digits or as a power of ten.    *)
(***************************************************************************)
EXTENDS Integers, Sequences, FiniteSets, SequencesExt

CONSTANTS
    Words,    \* what a text may say
    Limits    \* the maxima: name, url, domain, key, value, props, of a campaign tag, and
              \* the bytes of a request's body

\* A key that is cut keeps a character: one takes at most three bytes a unit.
ASSUME LimitsAssumption ==
    /\ \A l \in {"name", "url", "domain", "key", "value", "props", "tag", "body"} :
          Limits[l] \in Nat \ {0}
    /\ Limits.key >= 3

Texts == [id : Words, len : Nat, width : 1 .. 3, pad : BOOLEAN]
Hosts == [name : STRING, has : SUBSET STRING]
URLPaths == [segments : Seq(STRING), slash : BOOLEAN, escaped : BOOLEAN]

\* url.Parse may refuse what new URL reads: a % that is no escape, for one.
URLs == [text : Texts, absolute : BOOLEAN, refused : BOOLEAN, host : Hosts, webHost : Hosts]

\* utmOdd: the tag's pair has a ; or a % that is no escape.
BeaconURLs == [url : URLs, path : URLPaths, utm : Texts, utmOdd : BOOLEAN]

\* cutRefused: what is left of it when it is cut is refused, half an escape at its end.
Referrers == [url : URLs, cutRefused : BOOLEAN]

\* The values of a property besides strings and booleans: a finite number, and what JSON
\* writes for anything else, a list or null.
Numbers == [written : Texts, scientific : Texts, exponent : Int]
Others == [written : Texts]
Values == Texts \cup Numbers \cup Others
Properties == [key : Texts, value : Values]

Bytes(t) == t.len * t.width
Trim(t) == [t EXCEPT !.pad = FALSE]
IsASCII(t) == t.width = 1

\* Go cuts bytes, in the middle of a character if need be; JavaScript cuts units.
CutBytes(t, max) == IF Bytes(t) > max THEN [t EXCEPT !.len = max \div t.width] ELSE t
CutUnits(t, max) == IF t.len > max THEN [t EXCEPT !.len = max] ELSE t

-----------------------------------------------------------------------------
(* The contract *)

\* beaconSchema, as far as a tracker's beacon can fail it.
SchemaAccepts(b) ==
    /\ Trim(b.n).len \in 1 .. Limits.name
    /\ b.u.url.absolute /\ b.u.url.text.len <= Limits.url
    /\ b.d.len \in 1 .. Limits.domain
    /\ b.r.url.text.len <= Limits.url
    /\ \A i \in DOMAIN b.m : b.m[i].key.len <= Limits.key /\ b.m[i].value \in Texts \cup Numbers

\* String(): a number below 1e-6, or from 1e21 on, is a power of ten.
FixedExponents == -6 .. 20
String(v) ==
    IF v \in Texts THEN v
    ELSE IF v.exponent \in FixedExponents THEN v.written ELSE v.scientific

\* normalizeProps: the first ones, in the order they were given.
SchemaProps(m) ==
    LET named == {i \in DOMAIN m : m[i].key.len > 0}
        first == {i \in named : Cardinality({j \in named : j <= i}) <= Limits.props} IN
    {[key |-> CutUnits(m[i].key, Limits.key), value |-> CutUnits(String(m[i].value), Limits.value)]
        : i \in first}

NoText == [len |-> 0, width |-> 1, pad |-> FALSE]

\* The same on both sides.
normalizePath(p) == [p EXCEPT !.slash = (p.segments = <<>>)]

\* parseUrl: the path as it is written.
parseUrl(u) ==
    IF u.url.absolute
    THEN [host |-> u.url.webHost.name, path |-> normalizePath(u.path),
          utm |-> CutUnits(u.utm, Limits.tag)]
    ELSE [host |-> "", path |-> [segments |-> <<>>, slash |-> TRUE, escaped |-> FALSE],
          utm |-> NoText]

KNOWN_SOURCES ==
    << <<"google.", "Google">>, <<"bing.", "Bing">>, <<"duckduckgo.", "DuckDuckGo">>,
       <<"yahoo.", "Yahoo">>, <<"yandex.", "Yandex">>, <<"baidu.", "Baidu">>,
       <<"t.co", "Twitter">>, <<"twitter.", "Twitter">>, <<"x.com", "Twitter">>,
       <<"facebook.", "Facebook">>, <<"instagram.", "Instagram">>,
       <<"linkedin.", "LinkedIn">>, <<"lnkd.in", "LinkedIn">>, <<"reddit.", "Reddit">>,
       <<"youtube.", "YouTube">>, <<"github.", "GitHub">>,
       <<"news.ycombinator.com", "Hacker News">>, <<"producthunt.", "Product Hunt">> >>

\* classifyReferrer: the first needle that occurs in the host gives the name; new URL
\* throws on what is not absolute.
classifyReferrer(r, ownHost) ==
    LET host == r.url.webHost
        hits == {i \in DOMAIN KNOWN_SOURCES : KNOWN_SOURCES[i][1] \in host.has} IN
    IF r.url.text.len = 0 \/ ~r.url.absolute \/ host.name \in {"", ownHost} THEN "Direct"
    ELSE IF hits # {} THEN KNOWN_SOURCES[Min(hits)][2] ELSE host.name

\* What a beacon the schema accepts stands for.
Agreed(b) ==
    [name |-> Trim(b.n), page |-> parseUrl(b.u), referrer |-> Trim(b.r.url.text),
     source |-> classifyReferrer(b.r, parseUrl(b.u).host), props |-> SchemaProps(b.m)]

-----------------------------------------------------------------------------
(* The ingestor *)

\* Mutant of Validate: the limits themselves are out.
ValidateStrictly(b) ==
    /\ Bytes(Trim(b.n)) \in 1 .. Limits.name - 1
    /\ Bytes(b.u.url.text) \in 1 .. Limits.url - 1
    /\ ~b.u.url.refused /\ b.u.url.absolute
    /\ Bytes(b.d) \in 1 .. Limits.domain - 1

\* Validate: lengths in bytes.
Validate(b) ==
    /\ Bytes(Trim(b.n)) \in 1 .. Limits.name
    /\ Bytes(b.u.url.text) \in 1 .. Limits.url
    /\ ~b.u.url.refused /\ b.u.url.absolute
    /\ Bytes(b.d) \in 1 .. Limits.domain

\* ... and an over-long referrer is cut.
CutReferrer(r) ==
    [r EXCEPT !.url.text = CutBytes(Trim(@), Limits.url),
              !.url.refused = IF Bytes(r.url.text) > Limits.url THEN r.cutRefused ELSE @]
Validated(b) == [b EXCEPT !.n = Trim(@), !.r = CutReferrer(@)]

\* stringifyProp: a number with all its digits.
stringifyProp(v) == IF v \in Texts THEN v ELSE v.written

\* NormalizeProps walks a Go map: which properties come first is open.
NormalizeProps(m) ==
    LET named == {i \in DOMAIN m : m[i].key.len > 0} IN
    {{[key |-> CutBytes(m[i].key, Limits.key),
       value |-> CutBytes(stringifyProp(m[i].value), Limits.value)] : i \in S}
     : S \in {S \in SUBSET named :
                 Cardinality(S) = IF Cardinality(named) > Limits.props THEN Limits.props
                                  ELSE Cardinality(named)}}

\* ParseURL: url.Parse has undone the escapes of the path; Query() drops an odd pair.
ParseURL(u) ==
    IF u.url.absolute /\ ~u.url.refused
    THEN [host |-> u.url.host.name, path |-> normalizePath([u.path EXCEPT !.escaped = FALSE]),
          utm |-> IF u.utmOdd THEN NoText ELSE CutBytes(u.utm, Limits.tag)]
    ELSE [host |-> "", path |-> [segments |-> <<>>, slash |-> TRUE, escaped |-> FALSE],
          utm |-> NoText]

knownSources ==
    << <<"google.", "Google">>, <<"bing.", "Bing">>, <<"duckduckgo.", "DuckDuckGo">>,
       <<"yahoo.", "Yahoo">>, <<"yandex.", "Yandex">>, <<"baidu.", "Baidu">>,
       <<"t.co", "Twitter">>, <<"twitter.", "Twitter">>, <<"x.com", "Twitter">>,
       <<"facebook.", "Facebook">>, <<"instagram.", "Instagram">>,
       <<"linkedin.", "LinkedIn">>, <<"lnkd.in", "LinkedIn">>, <<"reddit.", "Reddit">>,
       <<"youtube.", "YouTube">>, <<"github.", "GitHub">>,
       <<"news.ycombinator.com", "Hacker News">>, <<"producthunt.", "Product Hunt">> >>

\* ClassifyReferrer: a host is a host, with a scheme before it or without.
ClassifyReferrer(r, ownHost) ==
    LET host == r.url.host
        matches == {i \in DOMAIN knownSources : knownSources[i][1] \in host.has} IN
    IF r.url.text.len = 0 \/ r.url.refused \/ host.name \in {"", ownHost} THEN "Direct"
    ELSE IF matches # {} THEN knownSources[Min(matches)][2] ELSE host.name

\* BuildRow, for each choice of properties; what it derives from the request's headers
\* is left out.
BuildRows(b) ==
    {[name |-> b.n, page |-> ParseURL(b.u), referrer |-> b.r.url.text,
      source |-> ClassifyReferrer(b.r, ParseURL(b.u).host), props |-> props]
     : props \in NormalizeProps(b.m)}
=============================================================================
