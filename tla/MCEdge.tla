------------------------------- MODULE MCEdge -------------------------------
(* Model checking Edge: one scrape, one probe, and URLs of every make.      *)
EXTENDS Edge

LowerCaseTable ==
  [n \in {"IN", "EN-US", "LinkedIn", "COM", "Company"} |->
     CASE n = "IN" -> "in" [] n = "EN-US" -> "en-us" [] n = "LinkedIn" -> "linkedin"
       [] n = "COM" -> "com" [] n = "Company" -> "company"]

\* An encoded slash splits a segment, or starts one; a prefix or a locale may have
\* escapes in it; an escape may be encoded twice, or be none; a slug may be nothing
\* but a blank.
DecodedTable ==
  [n \in {"jos%C3%A9", "jos%25C3%25A9", "priya%2Fdetails", "%2Fpriya", "in%2Fpriya",
          "%69n", "d%65", "50%25", "%20", "%ZZ"} |->
     CASE n = "jos%C3%A9" -> <<"jose-acute">>
       [] n = "jos%25C3%25A9" -> <<"jos%C3%A9">>
       [] n = "priya%2Fdetails" -> <<"priya", "details">>
       [] n = "%2Fpriya" -> <<"", "priya">>
       [] n = "in%2Fpriya" -> <<"in", "priya">>
       [] n = "%69n" -> <<"in">>
       [] n = "d%65" -> <<"de">>
       [] n = "50%25" -> <<"50%">>
       [] n = "%20" -> <<" ">>
       [] n = "%ZZ" -> <<>>]

UnescapedTable ==
  [n \in {"jos%C3%A9", "50%", " "} |->
     CASE n = "jos%C3%A9" -> "jose-acute" [] n = "50%" -> "malformed" [] n = " " -> ""]

LocaleNames == {"de", "en-us", "in"}
LongNames == {"aaaa...a"}

Site == <<"www", "linkedin", "com">>
Hosts ==
  { Site, <<"linkedin", "com">>, <<"de", "LinkedIn", "COM", "">>, <<"example", "com">>,
    <<"notlinkedin", "com">>, <<"linkedin", "com", "evil", "net">>, <<"linkedin">> }

Slugs == {"priya", "priya%2Fdetails", "%2Fpriya", "jose-acute", "jos%C3%A9",
          "jos%25C3%25A9", "in", "de", "50%25", "%20", "%ZZ", "aaaa...a", ""}
FirstSegments == {"in", "%69n", "IN", "pub", "Company"}
Leads == {<<>>, <<"">>, <<"de">>, <<"d%65">>, <<"EN-US">>, <<"de", "en-us">>, <<"in">>,
          <<"company">>}
Paths ==
  { lead \o <<prefix, "priya">> : lead \in Leads, prefix \in FirstSegments }
    \cup { lead \o <<"in", slug>> : lead \in Leads, slug \in {"in", "de", ""} }
    \cup { <<"in", slug>> \o rest : slug \in Slugs, rest \in {<<>>, <<"details">>} }
    \cup { <<>>, <<"priya">>, <<"de">>, <<"in">>, <<"feed", "">>, <<"in%2Fpriya">>,
            <<"de", "in%2Fpriya">> }

Text(host, path) ==
  [blank |-> FALSE, scheme |-> TRUE, nested |-> FALSE, host |-> host, path |-> path]
Blank == [Text(<<>>, <<>>) EXCEPT !.blank = TRUE, !.scheme = FALSE]

\* Every path on the site, every host with a good path, and each of the two
\* with and without a scheme and with a plain query or a URL in it.
Plain == {Text(Site, p) : p \in Paths} \cup {Text(h, <<"in", "priya">>) : h \in Hosts}
Texts ==
  Plain \cup {Blank}
    \cup {[Text(h, <<"in", "priya">>) EXCEPT !.scheme = s, !.nested = n] :
            h \in Hosts, s \in BOOLEAN, n \in BOOLEAN}

Post == [body |-> "ok", url |-> Text(Site, <<"in", "priya">>), sections |-> "known"]

CallerInputs ==
  {[Post EXCEPT !.url = t] : t \in Texts}
    \cup {[Post EXCEPT !.url = t, !.body = b, !.sections = s] :
            t \in {Blank, Post.url}, b \in {"ok", "malformed"}, s \in {"known", "unknown"}}

\* A success, a redirect, a rejection, a missing profile, throttling, a failure,
\* and no answer at all.
LinkedInStatuses == {200, 302, 403, 404, 999, 500, 0}
=============================================================================
