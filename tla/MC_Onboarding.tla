---------------------------- MODULE MC_Onboarding ----------------------------
(* Onboarding for TLC: limits of a few characters.                         *)
EXTENDS Onboarding, TLC

SmallLimits == [name |-> 8, url |-> 6, domain |-> 4, key |-> 3, value |-> 2, props |-> 1,
                tag |-> 2, body |-> 15]
SmallWords == {"pageview", "buy", "url", "hn", "domain", "ref", "", "j", "k", "l", "v", "w"}
Text(id, len, width, pad) == [id |-> id, len |-> len, width |-> width, pad |-> pad]
Empty == Text("", 0, 1, FALSE)

Root == [segments |-> <<>>, slash |-> TRUE, escaped |-> FALSE]
Shop == [segments |-> <<"shop">>, slash |-> TRUE, escaped |-> FALSE]
Cafe == [segments |-> <<"cafe">>, slash |-> TRUE, escaped |-> TRUE]
EmptyPath == [segments |-> <<>>, slash |-> FALSE, escaped |-> FALSE]
Admin == [segments |-> <<"admin">>, slash |-> FALSE, escaped |-> FALSE]
FourPaths == {Root, Shop, Cafe, Admin}
AdminOnly == {Admin}
OwnHost == [name |-> "example.com", has |-> {}]
Address(text, absolute, host) ==
    [text |-> text, absolute |-> absolute, refused |-> FALSE, host |-> host, webHost |-> host]
PageAt(p) == [url |-> Address(Text("url", IF p = Root THEN 5 ELSE 6, 1, FALSE), TRUE, OwnHost),
              path |-> p, utm |-> Text("hn", 3, 1, FALSE), utmOdd |-> (p = Cafe)]
OwnDomain == Text("domain", 4, 1, FALSE)

NoHost == [name |-> "", has |-> {}]
Google == [name |-> "google.com", has |-> {"google."}]
Referrer(url) == [url |-> url, cutRefused |-> FALSE]
Property(key, value) == [key |-> key, value |-> value]
Number(digits, exponent) ==
    [written |-> Text("v", digits, 1, FALSE), scientific |-> Text("w", 1, 1, FALSE),
     exponent |-> exponent]
Sizes(event) == [c \in {"pageview", "buy"} |-> IF c = "buy" THEN event ELSE 1]

\* All at the limits; a bot; texts beyond ASCII and too many properties, a small number and
\* a list, an over-long referrer without a scheme, events whose body is too long but at the
\* root.
PlainVisit ==
     [agent |-> "human", referrer |-> Referrer(Address(Text("ref", 6, 1, FALSE), TRUE, Google)),
      event |-> Text("buy", 8, 1, TRUE), bytes |-> Sizes(9),
      props |-> <<Property(Text("k", 3, 1, FALSE), Number(3, 2))>>]
SomeVisits ==
    {PlainVisit,
     [agent |-> "bot", referrer |-> Referrer(Address(Empty, FALSE, NoHost)),
      event |-> Text("buy", 1, 1, FALSE), bytes |-> Sizes(1), props |-> <<>>],
     [agent |-> "human", referrer |-> Referrer(Address(Text("ref", 7, 1, FALSE), FALSE, Google)),
      event |-> Text("buy", 4, 2, FALSE), bytes |-> Sizes(10),
      props |-> <<Property(Text("j", 0, 1, FALSE), [written |-> Text("v", 1, 1, FALSE)]),
                  Property(Text("k", 2, 2, FALSE), Text("v", 2, 2, FALSE)),
                  Property(Text("l", 1, 1, FALSE), Number(2, -7))>>]}
=============================================================================
