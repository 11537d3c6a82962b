---------------------------- MODULE EdgeProofs ------------------------------
(***************************************************************************)
(* Proofs about Edge: whose profile a URL is taken for, who is blamed for  *)
(* a bad request, and what a lost session does to the answers, for any set *)
(* of scrapes and probes, any inputs, any statuses of LinkedIn, and any    *)
(* tables of what names decode to.                                         *)
(***************************************************************************)
EXTENDS Edge, SequenceLemmas

-----------------------------------------------------------------------------
(* The URL.                                                                *)

\* A list of c elements ends with two labels, and perhaps a final dot.
EndsWith(f, c, a, b, dot) ==
  LET last == IF c > 0 /\ f[c] = dot THEN c - 1 ELSE c
  IN  last >= 2 /\ f[last - 1] = a /\ f[last] = b

\* That is what is left of it after n elements.
Left(f, c, n, a, b, dot) ==
  \/ c - n = 2 /\ f[n + 1] = a /\ f[n + 2] = b
  \/ c - n = 3 /\ f[n + 1] = a /\ f[n + 2] = b /\ f[n + 3] = dot

LEMMA EndIsLeft ==
  ASSUME NEW c \in Nat, NEW f, NEW a, NEW b, NEW dot, dot # b
  PROVE  EndsWith(f, c, a, b, dot) <=> \E n \in 0 .. c : Left(f, c, n, a, b, dot)
<1> DEFINE dotted == c > 0 /\ f[c] = dot
           last == IF dotted THEN c - 1 ELSE c
           pair(n) == c - n = 2 /\ f[n + 1] = a /\ f[n + 2] = b
           triple(n) == c - n = 3 /\ f[n + 1] = a /\ f[n + 2] = b /\ f[n + 3] = dot
<1>1. ASSUME last >= 2, f[last - 1] = a, f[last] = b
      PROVE  \E n \in 0 .. c : pair(n) \/ triple(n)
  <2>1. CASE dotted
    <3>1. c - 3 \in 0 .. c /\ c - (c - 3) = 3
      BY <1>1, <2>1
    <3>2. c - 3 + 1 = last - 1 /\ c - 3 + 2 = last /\ c - 3 + 3 = c
      BY <2>1
    <3>3. triple(c - 3)
      BY <1>1, <2>1, <3>1, <3>2
    <3>4. QED
      BY <3>1, <3>3
  <2>2. CASE ~dotted
    <3>1. c - 2 \in 0 .. c /\ c - (c - 2) = 2
      BY <1>1, <2>2
    <3>2. c - 2 + 1 = last - 1 /\ c - 2 + 2 = last
      BY <2>2
    <3>3. pair(c - 2)
      BY <1>1, <3>1, <3>2
    <3>4. QED
      BY <3>1, <3>3
  <2>3. QED
    BY <2>1, <2>2
<1>2. ASSUME NEW n \in 0 .. c, pair(n) \/ triple(n)
      PROVE  last >= 2 /\ f[last - 1] = a /\ f[last] = b
  <2>1. CASE pair(n)
    <3>1. n + 2 = c /\ n + 1 = c - 1
      BY <2>1
    <3>2. last = c
      BY <2>1, <3>1
    <3>3. QED
      BY <2>1, <3>1, <3>2
  <2>2. CASE triple(n)
    <3>1. n + 3 = c /\ n + 2 = c - 1 /\ n + 1 = c - 2
      BY <2>2
    <3>2. last = c - 1
      BY <2>2, <3>1
    <3>3. QED
      BY <2>2, <3>1, <3>2
  <2>3. QED
    BY <1>2, <2>1, <2>2
<1>3. QED
  BY <1>1, <1>2 DEF EndsWith, Left

\* The parser takes the hosts that are LinkedIn's.
LEMMA HostIsLinkedIn ==
  ASSUME NEW host, Len(host) \in Nat
  PROVE  IsLinkedInHost(host) <=>
           \E n \in 0 .. Len(host) :
             [i \in 1 .. Len(host) - n |-> Lower(host[n + i])]
               \in {<<"linkedin", "com">>, <<"linkedin", "com", "">>}
<1> DEFINE c == Len(host)
           labels == [i \in 1 .. c |-> Lower(host[i])]
           site(n) == [i \in 1 .. c - n |-> Lower(host[n + i])]
<1>1. ASSUME NEW n \in 0 .. c, NEW a, NEW b, NEW dot
      PROVE  Left(labels, c, n, a, b, dot) <=> site(n) = <<a, b>> \/ site(n) = <<a, b, dot>>
  <2> DEFINE s == site(n)
             m == c - n
  <2>1. m \in Nat
    OBVIOUS
  <2>2. s = [i \in 1 .. m |-> s[i]]
    OBVIOUS
  <2>3. \A i \in 1 .. m : s[i] = labels[n + i]
    OBVIOUS
  <2> HIDE DEF s, m, labels
  <2>4. s = <<a, b>> <=> m = 2 /\ s[1] = a /\ s[2] = b
    BY <2>1, <2>2, IsPair
  <2>5. s = <<a, b, dot>> <=> m = 3 /\ s[1] = a /\ s[2] = b /\ s[3] = dot
    BY <2>1, <2>2, IsTriple
  <2>6. m = 2 => s[1] = labels[n + 1] /\ s[2] = labels[n + 2]
    BY <2>3
  <2>7. m = 3 => s[1] = labels[n + 1] /\ s[2] = labels[n + 2] /\ s[3] = labels[n + 3]
    BY <2>3
  <2>8. QED
    BY <2>4, <2>5, <2>6, <2>7 DEF s, m, Left
<1>2. EndsWith(labels, c, "linkedin", "com", "") <=>
        \E n \in 0 .. c : Left(labels, c, n, "linkedin", "com", "")
  <2>1. "" # "com"
    OBVIOUS
  <2> HIDE DEF labels, c
  <2>2. c \in Nat
    BY DEF c
  <2>3. QED
    BY <2>1, <2>2, EndIsLeft, Zenon
<1>3. IsLinkedInHost(host) <=> EndsWith(labels, c, "linkedin", "com", "")
  BY Zenon DEF IsLinkedInHost, EndsWith
<1>4. \A n \in 0 .. c : Left(labels, c, n, "linkedin", "com", "") <=>
        site(n) = <<"linkedin", "com">> \/ site(n) = <<"linkedin", "com", "">>
  <2> HIDE DEF labels, site, c
  <2>1. QED
    BY <1>1, Zenon
<1> HIDE DEF labels, site, c
<1>5. IsLinkedInHost(host) <=>
        \E n \in 0 .. c : site(n) = <<"linkedin", "com">> \/ site(n) = <<"linkedin", "com", "">>
  BY <1>2, <1>3, <1>4, Zenon
<1>6. QED
  BY <1>5, Zenon DEF site, c

-----------------------------------------------------------------------------
\* The path of a text is a sequence, and the parser splits it into the same segments.
LEMMA PathIsDecoded ==
  ASSUME NEW text, IsText(text)
  PROVE  /\ \E S : DecodedPath(text) \in Seq(S)
         /\ PathSegments(ParseURL(text).path) = DecodedPath(text)
<1> DEFINE path == text.path
           parts == [i \in DOMAIN path |-> Decode(path[i])]
           S == UNION {ToSet(Decode(path[i])) : i \in DOMAIN path}
           flat == FlattenSeq(parts)
           kept == {j \in DOMAIN flat : flat[j] # ""}
<1>1. Len(path) \in Nat /\ DOMAIN path = 1 .. Len(path)
  <2>1. path \in Seq(ToSet(path))
    BY Zenon DEF IsText
  <2>2. QED
    BY <2>1
<1>2. ASSUME NEW i \in 1 .. Len(path) PROVE Decode(path[i]) \in Seq(S)
  <2>1. Decode(path[i]) \in Seq(ToSet(Decode(path[i])))
    <3>1. path[i] \in ToSet(path)
      BY <1>1, <1>2, Zenon DEF ToSet
    <3>2. QED
      BY <3>1, Zenon DEF IsText
  <2>2. ToSet(Decode(path[i])) \subseteq S
    BY <1>1, Zenon
  <2> HIDE DEF S
  <2>3. QED
    BY <2>1, <2>2
<1> HIDE DEF S
<1>3. parts \in Seq(Seq(S))
  <2>1. parts = [i \in 1 .. Len(path) |-> Decode(path[i])]
    BY <1>1
  <2>2. QED
    BY <1>1, <1>2, <2>1
<1>4. flat \in Seq(S)
  BY <1>3, FlattenAt
<1> HIDE DEF flat
<1>5. Len(flat) \in Nat /\ DOMAIN flat = 1 .. Len(flat) /\ \A j \in DOMAIN flat : flat[j] \in S
  BY <1>4
<1>6. kept \in SUBSET (1 .. Len(flat))
  BY <1>5
<1>7. kept \in SUBSET Nat /\ IsFiniteSet(kept)
  BY <1>5, <1>6, PlacesAreFinite
<1>8. \A j \in kept : flat[j] \in S
  BY <1>5, <1>6
<1> HIDE DEF kept
<1>9. Keep(flat, kept) \in Seq(S)
  BY <1>7, <1>8, KeepType
<1>10. DecodedPath(text) = Keep(flat, kept)
  BY Zenon DEF DecodedPath, kept, flat
<1>11. ParseURL(text).path = flat
  BY DEF ParseURL, flat
<1>12. PathSegments(flat) = Keep(flat, kept)
  BY Zenon DEF PathSegments, kept
<1>13. QED
  BY <1>9, <1>10, <1>11, <1>12, Zenon

\* k names lead to a slug: a prefix, behind a locale if there are two.
Leads(names, k) ==
  /\ Len(names) > k
  /\ k = 2 => Lower(names[1]) \in LocaleShaped \ {"in"}
  /\ Lower(names[k]) \in {"in", "pub"}

\* Once a locale is gone there is a prefix first, and then a slug, just when one or
\* two segments lead to it.
LEMMA StrippedLead ==
  ASSUME NEW S, NEW segments \in Seq(S)
  PROVE  LET stripped == StripLocalePrefix(segments)
         IN  /\ Len(stripped) >= 2 /\ Lower(stripped[1]) \in ProfilePathPrefixes <=>
                  \E k \in {1, 2} : Leads(segments, k)
             /\ \A k \in {1, 2} : Leads(segments, k) => stripped[2] = segments[k + 1]
<1> DEFINE locale(w) == Lower(w) \in LocaleShaped \ {"in"}
           prefix(w) == Lower(w) \in {"in", "pub"}
           stripped == StripLocalePrefix(segments)
           total == Len(segments)
<1>1. total \in Nat
  OBVIOUS
<1>2. \A w : locale(w) <=> /\ Lower(w) \notin ProfilePathPrefixes \cup NonProfilePathPrefixes
                          /\ Lower(w) \in LocaleShaped
  <2>1. "in" \in ProfilePathPrefixes /\ \A w : w \in ProfilePathPrefixes <=> w = "in" \/ w = "pub"
    BY Zenon DEF ProfilePathPrefixes
  <2>2. \A w : w \in LocaleShaped => w \notin NonProfilePathPrefixes /\ w # "pub"
    BY TablesAssumption, Zenon
  <2>3. QED
    BY <2>1, <2>2, Zenon
<1>3. \A w : prefix(w) => ~locale(w)
  <2>1. \A w : w \in {"in", "pub"} <=> w = "in" \/ w = "pub"
    OBVIOUS
  <2>2. "pub" \notin LocaleShaped
    BY TablesAssumption, Zenon
  <2>3. QED
    BY <2>1, <2>2, Zenon
<1>4. /\ Leads(segments, 1) <=> total > 1 /\ prefix(segments[1])
      /\ Leads(segments, 2) <=> total > 2 /\ locale(segments[1]) /\ prefix(segments[2])
  <2>1. 1 # 2
    OBVIOUS
  <2>2. QED
    BY <2>1, Zenon DEF Leads
<1>5. stripped = IF segments # <<>> /\ locale(segments[1]) THEN Tail(segments) ELSE segments
  <2>1. Head(segments) = segments[1]
    BY DEF Head
  <2>2. QED
    BY <1>2, <2>1, Zenon DEF StripLocalePrefix
<1>6. Lower(stripped[1]) \in ProfilePathPrefixes <=> prefix(stripped[1])
  BY Zenon DEF ProfilePathPrefixes
<1>7. segments # <<>> => Len(Tail(segments)) = total - 1 /\ total >= 1
  OBVIOUS
<1>8. \A i \in 1 .. total - 1 : Tail(segments)[i] = segments[i + 1]
  OBVIOUS
<1>9. total > 1 => segments # <<>>
  OBVIOUS
<1> HIDE DEF stripped, total, locale, prefix
<1>10. CASE segments # <<>> /\ locale(segments[1])
  <2>1. stripped = Tail(segments) /\ Len(stripped) = total - 1
    BY <1>5, <1>7, <1>10
  <2>2. total > 2 => stripped[1] = segments[2] /\ stripped[2] = segments[3]
    <3>1. total > 2 => 1 \in 1 .. total - 1 /\ 2 \in 1 .. total - 1
      BY <1>1
    <3>2. QED
      BY <1>8, <2>1, <3>1
  <2>3. Len(stripped) >= 2 <=> total > 2
    BY <1>1, <2>1
  <2>4. ~Leads(segments, 1)
    BY <1>3, <1>4, <1>10, Zenon
  <2>5. 2 + 1 = 3
    OBVIOUS
  <2>6. Len(stripped) >= 2 /\ prefix(stripped[1]) <=> Leads(segments, 2)
    BY <1>4, <1>10, <2>2, <2>3, Zenon
  <2>7. Leads(segments, 2) => stripped[2] = segments[2 + 1]
    BY <1>4, <2>2, <2>5, Zenon
  <2>8. QED
    BY <1>6, <2>4, <2>6, <2>7, Zenon DEF stripped
<1>11. CASE ~(segments # <<>> /\ locale(segments[1]))
  <2>1. stripped = segments
    BY <1>5, <1>11
  <2>2. Len(stripped) >= 2 <=> total > 1
    BY <1>1, <2>1 DEF total
  <2>3. total > 2 => total > 1
    BY <1>1
  <2>4. ~Leads(segments, 2)
    BY <1>4, <1>9, <1>11, <2>3, Zenon
  <2>5. 1 + 1 = 2
    OBVIOUS
  <2>6. Len(stripped) >= 2 /\ prefix(stripped[1]) <=> Leads(segments, 1)
    BY <1>4, <2>1, <2>2, Zenon
  <2>7. Leads(segments, 1) => stripped[2] = segments[1 + 1]
    BY <2>1, <2>5, Zenon
  <2>8. QED
    BY <1>6, <2>4, <2>6, <2>7, Zenon DEF stripped
<1>12. QED
  BY <1>10, <1>11

\* The parser finds a member's slug in the URLs of the member, but for those it
\* mistakes, and none elsewhere.
LEMMA SlugIsRead ==
  ASSUME NEW text, IsText(text)
  PROVE  /\ ParseProfileURL(text) \in SlugsIn(text) \cup {NoSlug}
         /\ \A m \in SlugsIn(text) :
              ParseProfileURL(text) = m <=> Denotes(text, m) /\ ~Mistaken(text)
<1> DEFINE path == DecodedPath(text)
           url == ParseURL(text)
           stripped == StripLocalePrefix(path)
           slug == Unescape(stripped[2])
           readable == \A i \in DOMAIN text.path : Decode(text.path[i]) # <<>>
           located(h) == \E n \in 0 .. Len(h) :
             [i \in 1 .. Len(h) - n |-> Lower(h[n + i])]
               \in {<<"linkedin", "com">>, <<"linkedin", "com", "">>}
           site == ~text.blank /\ located(text.host) /\ readable
           found == Len(stripped) >= 2 /\ Lower(stripped[1]) \in ProfilePathPrefixes
<1>1. IsLinkedInHost(url.host) <=> ~Mistaken(text) /\ located(text.host)
  <2>1. Len(text.host) \in Nat
    <3>1. text.host \in Seq(ToSet(text.host))
      BY Zenon DEF IsText
    <3>2. QED
      BY <3>1
  <2>2. IsLinkedInHost(text.host) <=> located(text.host)
    BY <2>1, HostIsLinkedIn, Zenon
  <2>3. url.host = IF Mistaken(text) THEN <<>> ELSE text.host
    BY DEF ParseURL, Mistaken
  <2>4. ~IsLinkedInHost(<<>>)
    BY DEF IsLinkedInHost
  <2>5. QED
    BY <2>2, <2>3, <2>4, Zenon
<1>2. url.ok = readable
  BY DEF ParseURL
<1>3. (\E S : path \in Seq(S)) /\ PathSegments(url.path) = path
  BY PathIsDecoded
<1>4. ParseProfileURL(text) =
        IF site /\ ~Mistaken(text) /\ found /\ slug \notin NoMembers THEN slug ELSE NoSlug
  BY <1>1, <1>2, <1>3, Zenon DEF ParseProfileURL, NoMembers
<1>5. ASSUME NEW m
      PROVE  Denotes(text, m) <=>
               /\ site /\ m \notin NoMembers
               /\ \E k \in {1, 2} : Leads(path, k) /\ Unescape(path[k + 1]) = m
  BY Zenon DEF Denotes, Leads
<1>6. /\ found <=> \E k \in {1, 2} : Leads(path, k)
      /\ \A k \in {1, 2} : Leads(path, k) => stripped[2] = path[k + 1]
  <2>1. PICK S : path \in Seq(S)
    BY <1>3
  <2> HIDE DEF path
  <2>2. QED
    BY <2>1, StrippedLead
<1>7. ASSUME NEW k \in {1, 2}, Leads(path, k) PROVE slug \in NoMembers \/ slug \in SlugsIn(text)
  <2>1. slug = Unescape(path[k + 1])
    BY <1>6, <1>7, Zenon
  <2>2. k + 1 \in DOMAIN path
    <3>1. PICK S : path \in Seq(S)
      BY <1>3
    <3>2. Len(path) > k
      BY <1>7, Zenon DEF Leads
    <3> HIDE DEF path
    <3>3. QED
      BY <3>1, <3>2
  <2>3. path[k + 1] \in ToSet(path)
    BY <2>2, Zenon DEF ToSet
  <2>4. QED
    BY <2>1, <2>3, Zenon DEF SlugsIn
<1>8. NoSlug \in NoMembers /\ \A m \in SlugsIn(text) : m \notin NoMembers
  BY Zenon DEF NoMembers, SlugsIn
<1> HIDE DEF path, site, found, slug
<1>9. ParseProfileURL(text) \in SlugsIn(text) \cup {NoSlug}
  BY <1>4, <1>6, <1>7, Zenon
<1>10. ASSUME NEW m \in SlugsIn(text), ParseProfileURL(text) = m
       PROVE  Denotes(text, m) /\ ~Mistaken(text)
  <2>1. site /\ ~Mistaken(text) /\ found /\ slug = m /\ m \notin NoMembers
    BY <1>4, <1>8, <1>10, Zenon
  <2>2. PICK k \in {1, 2} : Leads(path, k)
    BY <1>6, <2>1, Zenon
  <2>3. Unescape(path[k + 1]) = m
    BY <1>6, <2>1, <2>2, Zenon DEF slug
  <2>4. QED
    BY <1>5, <2>1, <2>2, <2>3, Zenon
<1>11. ASSUME NEW m \in SlugsIn(text), Denotes(text, m), ~Mistaken(text)
       PROVE  ParseProfileURL(text) = m
  <2>1. site /\ m \notin NoMembers
    BY <1>5, <1>11, Zenon
  <2>2. PICK k \in {1, 2} : Leads(path, k) /\ Unescape(path[k + 1]) = m
    BY <1>5, <1>11, Zenon
  <2>3. found /\ slug = m
    BY <1>6, <2>2, Zenon DEF slug
  <2>4. QED
    BY <1>4, <1>11, <2>1, <2>3, Zenon
<1>12. QED
  BY <1>9, <1>10, <1>11

-----------------------------------------------------------------------------
(* The session.                                                            *)

\* The part of the invariant that is about the session.
SessionInv ==
  /\ TypeOK
  /\ FlightOK
  /\ LiveMeansSignedIn
  /\ LossIsShown
  /\ ReadyMeansProbed

Flight == {"service", "session", "recommendations"}

\* The codes that are answered.
Codes == {"IR01", "HLT01", "PRF01", "PRF02", "PRF03", "PRF04", "PRF05", "PRF06", "PRF07"}

\* An error has a code and a status of the catalogue, and no result.
LEMMA ErrorAnswer ==
  ASSUME NEW code \in Codes
  PROVE  LET response == [status |-> Catalogue[code], code |-> code]
         IN /\ response \in Responses /\ response # NoAnswer
            /\ "result" \notin DOMAIN response
            /\ response.status # 200
<1> DEFINE response == [status |-> Catalogue[code], code |-> code]
<1>1. Catalogue[code] \in 400 .. 503 /\ code \in DOMAIN Catalogue
  BY DEF Catalogue, Codes
<1>2. response \in [status : Nat, code : DOMAIN Catalogue]
  BY <1>1
<1>3. response.status \in 400 .. 503
  BY <1>1
<1>4. response # NoAnswer
  BY <1>3 DEF NoAnswer, None
<1>5. "result" \notin DOMAIN response
  OBVIOUS
<1> QED
  BY <1>2, <1>3, <1>4, <1>5 DEF Responses

\* A result is either a profile or the findings of a probe.
LEMMA ResultAnswer ==
  ASSUME NEW result \in [profile : {"cached", "live"}]
           \cup [ database : {"disabled"}, cache : {"up", "down"},
                  linkedin : {"up", "down", "disabled"} ]
  PROVE  LET response == [status |-> 200, code |-> "00000", result |-> result]
         IN response \in Responses /\ response # NoAnswer
  BY DEF Responses, NoAnswer, None

\* The invariant for one request.
Fine(r) ==
  /\ at[r] = "done" <=> answer[r] # NoAnswer
  /\ at[r] \in {"idle", "service", "session"} => heard[r] = None
  /\ at[r] \in Flight /\ ~signedIn[r] => ~SessionGood
  /\ at[r] = "recommendations" => signedIn[r] /\ IsSuccess(heard[r])
  /\ r \in Probes /\ at[r] = "session" => configured /\ cacheState[r] \in {"up", "down"}
  /\ answer[r] # NoAnswer /\ "result" \in DOMAIN answer[r] =>
       /\ r \in Scrapes /\ answer[r].result.profile = "live" => signedIn[r]
       /\ r \in Probes /\ answer[r].result.linkedin = "up" => signedIn[r]
  /\ r \in Scrapes /\ answer[r] # NoAnswer =>
       /\ heard[r] \in {302, 401, 403} => answer[r].code = "PRF04" /\ answer[r].status = 503
       /\ ~signedIn[r] => answer[r].code # "PRF02"
  /\ r \in Probes /\ answer[r] # NoAnswer =>
       (answer[r].status = 200 <=>
          cacheState[r] = "up" /\ (configured => heard[r] \in 200 .. 299))

AllFine == \A r \in Requests : Fine(r)

LEMMA FineForAll == SessionInv <=> TypeOK /\ AllFine
<1> USE DEF AllFine
<1>1. SessionInv => \A r \in Requests : Fine(r)
  BY DEF SessionInv, Fine, Flight, FlightOK, LiveMeansSignedIn, LossIsShown, ReadyMeansProbed, Answered
<1>2. TypeOK /\ (\A r \in Requests : Fine(r)) => SessionInv
  <2> SUFFICES ASSUME TypeOK, \A r \in Requests : Fine(r) PROVE SessionInv
    OBVIOUS
  <2>1. FlightOK
    BY DEF Fine, Flight, FlightOK
  <2>2. LiveMeansSignedIn
    BY DEF Fine, LiveMeansSignedIn, Answered
  <2>3. LossIsShown
    BY DEF Fine, LossIsShown, Answered
  <2>4. ReadyMeansProbed
    BY DEF Fine, ReadyMeansProbed, Answered, Requests
  <2> QED
    BY <2>1, <2>2, <2>3, <2>4 DEF SessionInv
<1> QED
  BY <1>1, <1>2 DEF SessionInv

LEMMA FineForAllNext ==
  ASSUME TypeOK', \A r \in Requests : Fine(r)'
  PROVE  SessionInv'
<1>1. AllFine'
  BY DEF AllFine
<1>2. TypeOK' /\ AllFine' => SessionInv'
  BY FineForAll, PTL
<1> QED
  BY <1>1, <1>2

\* A request that nothing happens to stays as it is, unless a session comes back.
LEMMA OthersStayFine ==
  ASSUME NEW q \in Requests, Fine(q), configured' = configured,
         SessionGood' => SessionGood,
         at'[q] = at[q], heard'[q] = heard[q], answer'[q] = answer[q],
         signedIn'[q] = signedIn[q], q \in Probes => cacheState'[q] = cacheState[q]
  PROVE  Fine(q)'
  BY DEF Fine

LEMMA InitSessionInv == Init => SessionInv
<1> SUFFICES ASSUME Init PROVE SessionInv
  OBVIOUS
<1> USE DEF Init
<1>1. TypeOK
  BY DEF TypeOK, Responses, NoAnswer, None
<1>2. FlightOK
  BY DEF FlightOK
<1>3. LiveMeansSignedIn /\ LossIsShown /\ ReadyMeansProbed
  BY DEF LiveMeansSignedIn, LossIsShown, ReadyMeansProbed, Answered
<1> QED
  BY <1>1, <1>2, <1>3 DEF SessionInv

-----------------------------------------------------------------------------
(* The actions.                                                            *)

LEMMA ScrapeStep ==
  ASSUME SessionInv, NEW r \in Scrapes, Scrape(r)
  PROVE  SessionInv'
<1> USE DEF Scrape, sessionVars
<1>1. r \in Requests /\ TypeOK /\ \A q \in Requests : Fine(q)
  BY FineForAll DEF Requests, SessionInv, AllFine
<1>2. PICK in \in Inputs :
        /\ input' = [input EXCEPT ![r] = in]
        /\ IF Rejection(in) = "none" THEN Goto(r, "service")
           ELSE SendApiResponseV2(r, "none", Rejection(in))
  OBVIOUS
<1>3. Rejection(in) \in {"none", "IR01", "PRF01", "PRF06"}
  BY DEF Rejection
<1>4. \/ at' = [at EXCEPT ![r] = "service"] /\ answer' = answer
      \/ \E code \in Codes :
           /\ code # "PRF02"
           /\ at' = [at EXCEPT ![r] = "done"]
           /\ answer' = [answer EXCEPT ![r] = [status |-> Catalogue[code], code |-> code]]
  BY <1>2, <1>3 DEF Goto, SendApiResponseV2, SendError, Reply, Codes
<1>5. TypeOK'
  BY <1>1, <1>2, <1>4, ErrorAnswer DEF TypeOK, SessionGood
<1>6. SessionGood' = SessionGood
  BY DEF SessionGood
<1>7. Fine(r)'
  BY <1>1, <1>4, <1>6, ErrorAnswer, RequestsAssumption DEF Fine, Flight, TypeOK, None
<1>8. \A q \in Requests \ {r} : Fine(q)'
  BY <1>1, <1>4, <1>6, OthersStayFine DEF TypeOK
<1> QED
  BY <1>5, <1>7, <1>8, FineForAllNext

LEMMA FromCacheStep ==
  ASSUME SessionInv, NEW r \in Scrapes, FromCache(r) \/ Refuse(r)
  PROVE  SessionInv'
<1> USE DEF FromCache, Refuse, sessionVars
<1>1. r \in Requests /\ TypeOK /\ \A q \in Requests : Fine(q)
  BY FineForAll DEF Requests, SessionInv, AllFine
<1>2. /\ at' = [at EXCEPT ![r] = "done"]
      /\ \/ answer' = [answer EXCEPT ![r] =
              [status |-> 200, code |-> "00000", result |-> [profile |-> "cached"]]]
         \/ \E code \in Codes :
              /\ code # "PRF02"
              /\ answer' = [answer EXCEPT ![r] = [status |-> Catalogue[code], code |-> code]]
  BY DEF SendResult, SendError, Reply, Codes
<1>3. TypeOK'
  BY <1>1, <1>2, ErrorAnswer, ResultAnswer DEF TypeOK
<1>4. SessionGood' = SessionGood
  BY DEF SessionGood
<1>5. Fine(r)'
  BY <1>1, <1>2, <1>4, ErrorAnswer, ResultAnswer, RequestsAssumption DEF Fine, Flight, TypeOK, None
<1>6. \A q \in Requests \ {r} : Fine(q)'
  BY <1>1, <1>2, <1>4, OthersStayFine DEF TypeOK
<1> QED
  BY <1>3, <1>5, <1>6, FineForAllNext

\* A call to LinkedIn never brings a session back.
LEMMA GetFacts ==
  ASSUME TypeOK, NEW status \in Statuses, Get(status)
  PROVE  /\ jar' \in {"boot", "replaced"} /\ login' \in BOOLEAN
         /\ SessionGood' => SessionGood
         /\ SessionExpired(status) => ~SessionGood
         /\ IsSuccess(status) \/ NotFound(status) => SessionGood
  BY DEF TypeOK, Get, LinkedInAnswers, SessionGood, IsSuccess, NotFound

LEMMA FetchProfileStep ==
  ASSUME SessionInv, NEW r \in Scrapes, FetchProfile(r)
  PROVE  SessionInv'
<1> USE DEF FetchProfile
<1>1. r \in Requests /\ TypeOK /\ \A q \in Requests : Fine(q)
  BY FineForAll DEF Requests, SessionInv, AllFine
<1>2. PICK status \in Statuses :
        /\ Get(status) /\ heard' = [heard EXCEPT ![r] = status]
        /\ IF IsSuccess(status) THEN Goto(r, "recommendations")
           ELSE SendError(r, MapFailure(status))
  BY DEF Hear
<1>3. /\ jar' \in {"boot", "replaced"} /\ login' \in BOOLEAN
      /\ SessionGood' => SessionGood
      /\ IsSuccess(status) \/ NotFound(status) => SessionGood
  BY <1>1, <1>2, GetFacts
<1>4. \/ IsSuccess(status) /\ at' = [at EXCEPT ![r] = "recommendations"] /\ answer' = answer
      \/ \E code \in Codes :
           /\ ~IsSuccess(status)
           /\ SessionExpired(status) => code = "PRF04"
           /\ code = "PRF02" => NotFound(status)
           /\ at' = [at EXCEPT ![r] = "done"]
           /\ answer' = [answer EXCEPT ![r] = [status |-> Catalogue[code], code |-> code]]
  <2>1. MapFailure(status) \in Codes
    BY DEF MapFailure, Codes
  <2>2. /\ SessionExpired(status) => MapFailure(status) = "PRF04"
        /\ MapFailure(status) = "PRF02" => NotFound(status)
    BY StatusesAssumption DEF MapFailure, SessionExpired, NotFound, RateLimited
  <2> QED
    BY <1>2, <2>1, <2>2 DEF Goto, SendError, Reply
<1>5. TypeOK'
  BY <1>1, <1>2, <1>3, <1>4, ErrorAnswer DEF TypeOK
<1>6. signedIn[r] \/ ~SessionGood
  BY <1>1 DEF Fine, Flight
<1>7. Fine(r)'
  <2>1. Catalogue["PRF04"] = 503
    BY DEF Catalogue
  <2>2. status \in {302, 401, 403} => SessionExpired(status)
    BY DEF SessionExpired
  <2> QED
    BY <1>1, <1>2, <1>3, <1>4, <1>6, <2>1, <2>2, ErrorAnswer, RequestsAssumption
       DEF Fine, Flight, TypeOK
<1>8. \A q \in Requests \ {r} : Fine(q)'
  BY <1>1, <1>2, <1>3, <1>4, OthersStayFine DEF TypeOK
<1> QED
  BY <1>5, <1>7, <1>8, FineForAllNext

LEMMA RecommendationsStep ==
  ASSUME SessionInv, NEW r \in Scrapes, Recommendations(r)
  PROVE  SessionInv'
<1> USE DEF Recommendations
<1>1. r \in Requests /\ TypeOK /\ \A q \in Requests : Fine(q)
  BY FineForAll DEF Requests, SessionInv, AllFine
<1>2. /\ jar' \in {"boot", "replaced"} /\ login' \in BOOLEAN
      /\ SessionGood' => SessionGood
  BY <1>1, GetFacts
<1>3. /\ at' = [at EXCEPT ![r] = "done"]
      /\ \/ answer' = [answer EXCEPT ![r] =
              [status |-> 200, code |-> "00000", result |-> [profile |-> "live"]]]
         \/ \E code \in Codes :
              answer' = [answer EXCEPT ![r] = [status |-> Catalogue[code], code |-> code]]
  BY DEF SendResult, SendError, Reply, Codes
<1>4. TypeOK'
  BY <1>1, <1>2, <1>3, ErrorAnswer, ResultAnswer DEF TypeOK
<1>5. signedIn[r] /\ heard[r] \in 200 .. 299
  BY <1>1 DEF Fine, IsSuccess
<1>6. Fine(r)'
  BY <1>1, <1>3, <1>5, ErrorAnswer, ResultAnswer, RequestsAssumption DEF Fine, Flight, TypeOK
<1>7. \A q \in Requests \ {r} : Fine(q)'
  BY <1>1, <1>2, <1>3, OthersStayFine DEF TypeOK
<1> QED
  BY <1>4, <1>6, <1>7, FineForAllNext

\* What Conclude answers, by its two findings.
LEMMA Conclusion ==
  ASSUME TypeOK, NEW r \in Requests, NEW cache \in {"up", "down"},
         NEW linkedin \in {"up", "down", "disabled"}, Conclude(r, cache, linkedin)
  PROVE  /\ at' = [at EXCEPT ![r] = "done"]
         /\ answer' \in [Requests -> Responses]
         /\ \A q \in Requests \ {r} : answer'[q] = answer[q]
         /\ answer'[r] # NoAnswer
         /\ answer'[r].status = 200 <=> "down" \notin {cache, linkedin}
         /\ "result" \in DOMAIN answer'[r] => answer'[r].result.linkedin = linkedin
<1> DEFINE findings == [database |-> "disabled", cache |-> cache, linkedin |-> linkedin]
           good == [status |-> 200, code |-> "00000", result |-> findings]
           bad == [status |-> Catalogue["HLT01"], code |-> "HLT01"]
<1>1. good \in Responses /\ good # NoAnswer /\ good.status = 200 /\ good.result.linkedin = linkedin
  BY ResultAnswer
<1>2. bad \in Responses /\ bad # NoAnswer /\ "result" \notin DOMAIN bad /\ bad.status # 200
  BY ErrorAnswer DEF Codes
<1>3. /\ at' = [at EXCEPT ![r] = "done"]
      /\ answer' = [answer EXCEPT ![r] = IF "down" \in {cache, linkedin} THEN bad ELSE good]
  BY DEF Conclude, SendApiResponseV2, SendError, SendResult, Reply
<1> HIDE DEF good, bad
<1> QED
  BY <1>1, <1>2, <1>3 DEF TypeOK

LEMMA PingCacheStep ==
  ASSUME SessionInv, NEW r \in Probes, PingCache(r)
  PROVE  SessionInv'
<1> DEFINE found == IF redisUp THEN "up" ELSE "down"
<1>1. r \in Requests /\ r \notin Scrapes /\ TypeOK /\ \A q \in Requests : Fine(q)
  BY FineForAll, RequestsAssumption DEF Requests, SessionInv, AllFine
<1>2. /\ cacheState' = [cacheState EXCEPT ![r] = found] /\ found \in {"up", "down"}
      /\ signedIn' = [signedIn EXCEPT ![r] = SessionGood]
      /\ UNCHANGED <<configured, login, jar, redisUp, input, publicID, heard>>
      /\ heard[r] = None /\ answer[r] = NoAnswer
  BY <1>1 DEF PingCache, sessionVars, Fine
<1>3. SessionGood' = SessionGood /\ SessionGood \in BOOLEAN
  BY <1>2 DEF SessionGood
<1>4. CASE configured
  <2>1. at' = [at EXCEPT ![r] = "session"] /\ answer' = answer
    BY <1>4 DEF PingCache, Goto
  <2>2. TypeOK'
    BY <1>1, <1>2, <1>3, <2>1 DEF TypeOK
  <2>3. Fine(r)'
    BY <1>1, <1>2, <1>3, <1>4, <2>1 DEF Fine, Flight, TypeOK
  <2>4. \A q \in Requests \ {r} : Fine(q)'
    BY <1>1, <1>2, <1>3, <2>1, OthersStayFine DEF TypeOK
  <2> QED
    BY <2>2, <2>3, <2>4, FineForAllNext
<1>5. CASE ~configured
  <2>1. Conclude(r, found, "disabled")
    BY <1>5 DEF PingCache
  <2>2. /\ at' = [at EXCEPT ![r] = "done"]
        /\ answer' \in [Requests -> Responses]
        /\ \A q \in Requests \ {r} : answer'[q] = answer[q]
        /\ answer'[r] # NoAnswer
        /\ answer'[r].status = 200 <=> found # "down"
        /\ "result" \in DOMAIN answer'[r] => answer'[r].result.linkedin = "disabled"
    <3> HIDE DEF found
    <3> QED
      BY <1>1, <1>2, <2>1, Conclusion
  <2>3. TypeOK'
    BY <1>1, <1>2, <1>3, <2>2 DEF TypeOK
  <2>4. Fine(r)'
    BY <1>1, <1>2, <1>5, <2>2 DEF Fine, Flight, TypeOK
  <2>5. \A q \in Requests \ {r} : Fine(q)'
    BY <1>1, <1>2, <1>3, <2>2, OthersStayFine DEF TypeOK
  <2> QED
    BY <2>3, <2>4, <2>5, FineForAllNext
<1> QED
  BY <1>4, <1>5

LEMMA SessionValidStep ==
  ASSUME SessionInv, NEW r \in Probes, SessionValid(r)
  PROVE  SessionInv'
<1>1. r \in Requests /\ r \notin Scrapes /\ TypeOK /\ \A q \in Requests : Fine(q)
  BY FineForAll, RequestsAssumption DEF Requests, SessionInv, AllFine
<1>2. PICK status \in Statuses :
        /\ Get(status) /\ heard' = [heard EXCEPT ![r] = status]
        /\ Conclude(r, cacheState[r], IF IsSuccess(status) THEN "up" ELSE "down")
  BY DEF SessionValid, Hear
<1>3. /\ UNCHANGED <<configured, redisUp, input, publicID, cacheState, signedIn>>
      /\ configured /\ cacheState[r] \in {"up", "down"}
      /\ signedIn[r] \/ ~SessionGood
  BY <1>1 DEF SessionValid, Fine, Flight
<1>4. /\ jar' \in {"boot", "replaced"} /\ login' \in BOOLEAN
      /\ SessionGood' => SessionGood
      /\ IsSuccess(status) => SessionGood
  BY <1>1, <1>2, GetFacts
<1>5. /\ at' = [at EXCEPT ![r] = "done"]
      /\ answer' \in [Requests -> Responses]
      /\ \A q \in Requests \ {r} : answer'[q] = answer[q]
      /\ answer'[r] # NoAnswer
      /\ answer'[r].status = 200 <=> cacheState[r] = "up" /\ IsSuccess(status)
      /\ "result" \in DOMAIN answer'[r] =>
           (answer'[r].result.linkedin = "up" => IsSuccess(status))
  <2>1. CASE IsSuccess(status)
    BY <1>1, <1>2, <1>3, <2>1, Conclusion
  <2>2. CASE ~IsSuccess(status)
    BY <1>1, <1>2, <1>3, <2>2, Conclusion
  <2> QED
    BY <2>1, <2>2
<1>6. TypeOK'
  BY <1>1, <1>2, <1>3, <1>4, <1>5 DEF TypeOK
<1>7. Fine(r)'
  BY <1>1, <1>2, <1>3, <1>4, <1>5 DEF Fine, Flight, TypeOK, IsSuccess
<1>8. \A q \in Requests \ {r} : Fine(q)'
  BY <1>1, <1>2, <1>3, <1>4, <1>5, OthersStayFine DEF TypeOK
<1> QED
  BY <1>6, <1>7, <1>8, FineForAllNext

\* The session comes back only with a new process, and without its requests.
LEMMA EnvironmentStep ==
  ASSUME SessionInv, LoginExpires \/ RedisChanges \/ RefreshCookies
  PROVE  SessionInv'
<1>1. TypeOK /\ \A q \in Requests : Fine(q)
  BY FineForAll DEF SessionInv, AllFine
<1>2. CASE LoginExpires \/ RedisChanges
  <2>1. TypeOK'
    BY <1>1, <1>2 DEF LoginExpires, RedisChanges, TypeOK, sessionVars
  <2>2. SessionGood' => SessionGood
    BY <1>2 DEF LoginExpires, RedisChanges, SessionGood, sessionVars
  <2>3. \A q \in Requests : Fine(q)'
    BY <1>1, <1>2, <2>2, OthersStayFine DEF LoginExpires, RedisChanges
  <2> QED
    BY <2>1, <2>3, FineForAllNext
<1>3. CASE RefreshCookies
  <2>1. TypeOK'
    BY <1>1, <1>3 DEF RefreshCookies, TypeOK
  <2>2. \A q \in Requests : Fine(q)'
    BY <1>1, <1>3 DEF RefreshCookies, Fine, Flight, TypeOK
  <2> QED
    BY <2>1, <2>2, FineForAllNext
<1> QED
  BY <1>2, <1>3

LEMMA NextSessionInv == SessionInv /\ [Next]_vars => SessionInv'
<1> SUFFICES ASSUME SessionInv, [Next]_vars PROVE SessionInv'
  OBVIOUS
<1>1. ASSUME NEW r \in Scrapes, Scrape(r) PROVE SessionInv'
  BY <1>1, ScrapeStep
<1>2. ASSUME NEW r \in Scrapes, FromCache(r) \/ Refuse(r) PROVE SessionInv'
  BY <1>2, FromCacheStep
<1>3. ASSUME NEW r \in Scrapes, FetchProfile(r) PROVE SessionInv'
  BY <1>3, FetchProfileStep
<1>4. ASSUME NEW r \in Scrapes, Recommendations(r) PROVE SessionInv'
  BY <1>4, RecommendationsStep
<1>5. ASSUME NEW r \in Probes, PingCache(r) PROVE SessionInv'
  BY <1>5, PingCacheStep
<1>6. ASSUME NEW r \in Probes, SessionValid(r) PROVE SessionInv'
  BY <1>6, SessionValidStep
<1>7. CASE UNCHANGED vars
  BY <1>7 DEF vars, sessionVars, SessionInv, TypeOK, FlightOK, LiveMeansSignedIn, LossIsShown,
              ReadyMeansProbed, Answered, SessionGood
<1> QED
  BY <1>1, <1>2, <1>3, <1>4, <1>5, <1>6, <1>7, EnvironmentStep DEF Next

-----------------------------------------------------------------------------
(* The input.                                                              *)

\* What ReadOK says of one scrape.
Read(r) ==
  LET code == Rejection(input[r])
  IN  /\ at[r] = "idle" => input[r] = NoInput
      /\ at[r] # "idle" => input[r] \in Inputs
      /\ at[r] \in {"service", "recommendations"} => code = "none"
      /\ at[r] = "done" =>
           IF code = "none"
           THEN answer[r].status # 400 /\ answer[r].code \notin {"IR01", "PRF06"}
           ELSE /\ answer[r] = [status |-> Catalogue[code], code |-> code]
                /\ heard[r] = None

LEMMA ReadStays ==
  ASSUME NEW q \in Scrapes, Read(q), at'[q] = at[q], input'[q] = input[q],
         answer'[q] = answer[q], heard'[q] = heard[q]
  PROVE  Read(q)'
  BY DEF Read

\* An answer after the checks does not blame the caller.
LEMMA ReadAnswered ==
  ASSUME NEW q \in Scrapes, Read(q), at[q] \in {"service", "recommendations"},
         at'[q] = "done", input'[q] = input[q],
         answer'[q].status # 400, answer'[q].code \notin {"IR01", "PRF06"}
  PROVE  Read(q)'
  BY Zenon DEF Read

LEMMA ReadGoesOn ==
  ASSUME NEW q \in Scrapes, Read(q), at[q] \in {"service", "recommendations"},
         at'[q] \in {"recommendations", "lost"}, input'[q] = input[q]
  PROVE  Read(q)'
  BY DEF Read

\* The errors that the code behind the handler answers with.
LEMMA LaterErrors ==
  ASSUME NEW code \in {"PRF02", "PRF03", "PRF04", "PRF05", "PRF07"}
  PROVE  Catalogue[code] # 400 /\ code \notin {"IR01", "PRF06"}
  BY DEF Catalogue

LEMMA ScrapeIsRead ==
  ASSUME TypeOK, FlightOK, ReadOK, NEW r \in Scrapes, Scrape(r)
  PROVE  ReadOK'
<1>1. PICK in \in Inputs :
        /\ input' = [input EXCEPT ![r] = in]
        /\ publicID' = [publicID EXCEPT ![r] =
             IF in.body = "malformed" THEN NoSlug ELSE ParseProfileURL(in.url)]
        /\ IF Rejection(in) = "none" THEN Goto(r, "service")
           ELSE SendApiResponseV2(r, "none", Rejection(in))
  BY DEF Scrape
<1>2. in.body # "ok" <=> in.body = "malformed"
  BY InputsAssumption
<1>3. /\ input \in [Scrapes -> Inputs \cup {NoInput}] /\ r \in Requests
      /\ \A q \in Scrapes : q \in Requests
      /\ at \in [Requests -> {"idle", "service", "recommendations", "session", "done", "lost"}]
      /\ answer \in [Requests -> Responses]
  BY DEF TypeOK, Requests
<1>4. input'[r] = in /\ \A q \in Scrapes \ {r} : input'[q] = input[q]
  BY <1>1, <1>3
<1>5. publicID' = [q \in Scrapes |->
        IF input'[q].body = "ok" THEN ParseProfileURL(input'[q].url) ELSE NoSlug]
  BY <1>1, <1>2, <1>4 DEF ReadOK
<1>6. heard' = heard /\ heard[r] = None
  BY <1>3 DEF Scrape, FlightOK
<1>7. CASE Rejection(in) = "none"
  <2>1. at' = [at EXCEPT ![r] = "service"] /\ answer' = answer
    BY <1>1, <1>7 DEF Goto
  <2>2. ASSUME NEW q \in Scrapes PROVE Read(q)'
    <3>1. CASE q = r
      BY <1>3, <1>4, <1>7, <2>1, <3>1 DEF Read
    <3>2. CASE q # r
      BY <1>3, <1>4, <1>6, <2>1, <3>2, ReadStays DEF ReadOK, Read
    <3>3. QED
      BY <3>1, <3>2
  <2>3. QED
    BY <1>5, <2>2 DEF ReadOK, Read
<1>8. CASE Rejection(in) # "none"
  <2>1. /\ at' = [at EXCEPT ![r] = "done"]
        /\ answer' = [answer EXCEPT ![r] =
             [status |-> Catalogue[Rejection(in)], code |-> Rejection(in)]]
    BY <1>1, <1>8 DEF SendApiResponseV2, SendError, Reply
  <2>2. ASSUME NEW q \in Scrapes PROVE Read(q)'
    <3>1. CASE q = r
      BY <1>3, <1>4, <1>6, <1>8, <2>1, <3>1 DEF Read
    <3>2. CASE q # r
      BY <1>3, <1>4, <1>6, <2>1, <3>2, ReadStays DEF ReadOK, Read
    <3>3. QED
      BY <3>1, <3>2
  <2>3. QED
    BY <1>5, <2>2 DEF ReadOK, Read
<1>9. QED
  BY <1>7, <1>8

LEMMA LaterIsRead ==
  ASSUME TypeOK, ReadOK, NEW r \in Scrapes,
         FromCache(r) \/ Refuse(r) \/ FetchProfile(r) \/ Recommendations(r)
  PROVE  ReadOK'
<1>1. /\ r \in Requests /\ \A q \in Scrapes : q \in Requests
      /\ at \in [Requests -> {"idle", "service", "recommendations", "session", "done", "lost"}]
      /\ answer \in [Requests -> Responses]
      /\ heard \in [Requests -> Statuses \cup {None}]
  BY DEF TypeOK, Requests
<1>2. input' = input /\ publicID' = publicID /\ at[r] \in {"service", "recommendations"}
  BY DEF FromCache, Refuse, FetchProfile, Recommendations
<1>3. heard' = heard \/ \E status \in Statuses : heard' = [heard EXCEPT ![r] = status]
  BY DEF FromCache, Refuse, FetchProfile, Recommendations, Hear
<1>4. \/ at' = [at EXCEPT ![r] = "recommendations"] /\ answer' = answer
      \/ at' = [at EXCEPT ![r] = "done"] /\ \E response :
           /\ answer' = [answer EXCEPT ![r] = response]
           /\ response.status # 400 /\ response.code \notin {"IR01", "PRF06"}
  <2>1. ASSUME NEW code \in {"PRF02", "PRF03", "PRF04", "PRF05", "PRF07"}, SendError(r, code)
        PROVE  at' = [at EXCEPT ![r] = "done"] /\ \E response :
                 /\ answer' = [answer EXCEPT ![r] = response]
                 /\ response.status # 400 /\ response.code \notin {"IR01", "PRF06"}
    <3>1. /\ at' = [at EXCEPT ![r] = "done"]
          /\ answer' = [answer EXCEPT ![r] = [status |-> Catalogue[code], code |-> code]]
      BY <2>1 DEF SendError, Reply
    <3>2. /\ [status |-> Catalogue[code], code |-> code].status # 400
          /\ [status |-> Catalogue[code], code |-> code].code \notin {"IR01", "PRF06"}
      BY LaterErrors
    <3>3. QED
      BY <3>1, <3>2, Zenon
  <2>2. ASSUME NEW result, SendResult(r, result)
        PROVE  at' = [at EXCEPT ![r] = "done"] /\ \E response :
                 /\ answer' = [answer EXCEPT ![r] = response]
                 /\ response.status # 400 /\ response.code \notin {"IR01", "PRF06"}
    <3> DEFINE good == [status |-> 200, code |-> "00000", result |-> result]
    <3>1. at' = [at EXCEPT ![r] = "done"] /\ answer' = [answer EXCEPT ![r] = good]
      BY <2>2 DEF SendResult, Reply
    <3>2. good.status # 400 /\ good.code \notin {"IR01", "PRF06"}
      OBVIOUS
    <3> HIDE DEF good
    <3>3. QED
      BY <3>1, <3>2, Zenon
  <2>3. CASE FromCache(r)
    BY <2>2, <2>3, Zenon DEF FromCache
  <2>4. CASE Refuse(r)
    BY <2>1, <2>4 DEF Refuse
  <2>5. CASE FetchProfile(r)
    <3>1. \A status : MapFailure(status) \in {"PRF02", "PRF03", "PRF04", "PRF05", "PRF07"}
      BY DEF MapFailure
    <3>2. PICK status \in Statuses :
            IF IsSuccess(status) THEN Goto(r, "recommendations")
            ELSE SendError(r, MapFailure(status))
      BY <2>5, Zenon DEF FetchProfile
    <3>3. QED
      BY <2>1, <3>1, <3>2, Zenon DEF Goto
  <2>6. CASE Recommendations(r)
    BY <2>1, <2>2, <2>6 DEF Recommendations
  <2>7. QED
    BY <2>3, <2>4, <2>5, <2>6
<1>5. ASSUME NEW q \in Scrapes PROVE Read(q)'
  <2>1. Read(q)
    BY DEF ReadOK, Read
  <2>2. CASE q # r
    BY <1>1, <1>2, <1>3, <1>4, <2>1, <2>2, ReadStays
  <2>3. CASE q = r
    <3>1. CASE at' = [at EXCEPT ![r] = "recommendations"]
      BY <1>1, <1>2, <2>1, <2>3, <3>1, ReadGoesOn
    <3>2. CASE at' # [at EXCEPT ![r] = "recommendations"]
      BY <1>1, <1>2, <1>4, <2>1, <2>3, <3>2, ReadAnswered
    <3>3. QED
      BY <3>1, <3>2
  <2>4. QED
    BY <2>2, <2>3
<1>6. QED
  BY <1>2, <1>5 DEF ReadOK, Read

LEMMA NextReadOK == TypeOK /\ FlightOK /\ ReadOK /\ [Next]_vars => ReadOK'
<1> SUFFICES ASSUME TypeOK, FlightOK, ReadOK, [Next]_vars PROVE ReadOK'
  OBVIOUS
<1>1. ASSUME NEW r \in Scrapes, Scrape(r) PROVE ReadOK'
  BY <1>1, ScrapeIsRead
<1>2. ASSUME NEW r \in Scrapes,
             FromCache(r) \/ Refuse(r) \/ FetchProfile(r) \/ Recommendations(r)
      PROVE  ReadOK'
  BY <1>2, LaterIsRead
<1>3. ASSUME NEW r \in Probes, PingCache(r) \/ SessionValid(r) PROVE ReadOK'
  <2>1. /\ r \in Requests /\ r \notin Scrapes /\ \A q \in Scrapes : q \in Requests
        /\ DOMAIN at = Requests /\ DOMAIN heard = Requests /\ DOMAIN answer = Requests
    BY RequestsAssumption DEF TypeOK, Requests
  <2>2. input' = input /\ publicID' = publicID
    BY <1>3 DEF PingCache, SessionValid
  <2>3. \A q \in Requests \ {r} : at'[q] = at[q] /\ answer'[q] = answer[q] /\ heard'[q] = heard[q]
    <3>1. heard' = heard \/ \E status : heard' = [heard EXCEPT ![r] = status]
      BY <1>3 DEF PingCache, SessionValid, Hear
    <3>2. /\ \E place : at' = [at EXCEPT ![r] = place]
          /\ answer' = answer \/ \E response : answer' = [answer EXCEPT ![r] = response]
      <4>1. ASSUME NEW place, Goto(r, place)
            PROVE  at' = [at EXCEPT ![r] = place] /\ answer' = answer
        BY <4>1 DEF Goto
      <4>2. ASSUME NEW cache, NEW linkedin, Conclude(r, cache, linkedin)
            PROVE  /\ at' = [at EXCEPT ![r] = "done"]
                   /\ \E response : answer' = [answer EXCEPT ![r] = response]
        BY <4>2, Zenon DEF Conclude, SendApiResponseV2, SendError, SendResult, Reply
      <4>3. CASE PingCache(r)
        BY <4>1, <4>2, <4>3, Zenon DEF PingCache
      <4>4. CASE SessionValid(r)
        BY <4>2, <4>4, Zenon DEF SessionValid
      <4>5. QED
        BY <1>3, <4>3, <4>4
    <3>3. QED
      BY <2>1, <3>1, <3>2
  <2>4. ASSUME NEW q \in Scrapes PROVE Read(q)'
    <3>1. Read(q)
      BY DEF ReadOK, Read
    <3>2. QED
      BY <2>1, <2>2, <2>3, <3>1, ReadStays
  <2>5. QED
    BY <2>2, <2>4 DEF ReadOK, Read
<1>4. CASE LoginExpires \/ RedisChanges \/ UNCHANGED vars
  BY <1>4 DEF LoginExpires, RedisChanges, vars, ReadOK
<1>5. CASE RefreshCookies
  <2>1. /\ input' = input /\ publicID' = publicID /\ answer' = answer /\ heard' = heard
        /\ at' = [r \in Requests |-> IF at[r] \in {"idle", "done"} THEN at[r] ELSE "lost"]
    BY <1>5 DEF RefreshCookies
  <2>2. ASSUME NEW q \in Scrapes PROVE Read(q)'
    <3>1. Read(q) /\ q \in Requests
      BY DEF ReadOK, Read, Requests
    <3>2. at'[q] = IF at[q] \in {"idle", "done"} THEN at[q] ELSE "lost"
      BY <2>1, <3>1
    <3>3. QED
      BY <2>1, <3>1, <3>2 DEF Read
  <2>3. QED
    BY <2>1, <2>2 DEF ReadOK, Read
<1>6. QED
  BY <1>1, <1>2, <1>3, <1>4, <1>5 DEF Next

LEMMA InitReadOK == Init => ReadOK
<1> SUFFICES ASSUME Init PROVE ReadOK
  OBVIOUS
<1>1. \A r \in Scrapes : at[r] = "idle" /\ input[r] = NoInput /\ r \in Requests
  BY DEF Init, Requests
<1>2. NoInput.body # "ok"
  BY DEF NoInput
<1>3. publicID = [r \in Scrapes |-> NoSlug]
  BY DEF Init
<1>4. QED
  BY <1>1, <1>2, <1>3 DEF ReadOK

LEMMA InitIInv == Init => IInv
  BY InitSessionInv, InitReadOK DEF IInv, SessionInv

LEMMA NextIInv == IInv /\ [Next]_vars => IInv'
<1>1. IInv => SessionInv /\ TypeOK /\ FlightOK /\ ReadOK
  BY DEF IInv, SessionInv
<1>2. SessionInv /\ ReadOK => IInv
  BY DEF IInv, SessionInv
<1>3. QED
  BY <1>1, <1>2, NextSessionInv, NextReadOK, PTL

\* Who is blamed follows from what was read, and from what the parser makes of it.
LEMMA ReadIsTheMember == ReadOK => SlugIsTheMember
<1> SUFFICES ASSUME ReadOK, NEW r \in Scrapes, input[r].body = "ok"
             PROVE  LET url == input[r].url
                    IN /\ publicID[r] \in SlugsIn(url) \cup {NoSlug}
                       /\ \A m \in SlugsIn(url) :
                            publicID[r] = m <=> Denotes(url, m) /\ ~Mistaken(url)
  BY DEF SlugIsTheMember
<1>1. publicID[r] = ParseProfileURL(input[r].url)
  BY DEF ReadOK
<1>2. IsText(input[r].url)
  <2>1. at[r] = "idle" => input[r] = NoInput
    BY DEF ReadOK
  <2>2. at[r] # "idle" => input[r] \in Inputs
    BY DEF ReadOK
  <2>3. NoInput.body # "ok"
    BY DEF NoInput
  <2>4. input[r] \in Inputs
    BY <2>1, <2>2, <2>3
  <2>5. QED
    BY <2>4, InputsAssumption
<1>3. QED
  BY <1>1, <1>2, SlugIsRead

LEMMA BlameIsRight == TypeOK /\ FlightOK /\ ReadOK => BlamesTheRightSide
<1> SUFFICES ASSUME TypeOK, FlightOK, ReadOK, NEW r \in Scrapes \cap Answered
             PROVE  LET in == input[r]
                        foreign == \A m \in SlugsIn(in.url) : ~Denotes(in.url, m)
                        refused == foreign \/ Mistaken(in.url)
                        wrong == in.body # "ok" \/ refused \/ in.sections = "unknown"
                    IN /\ answer[r].status = 400 <=> wrong
                       /\ wrong => heard[r] = None
                       /\ answer[r].code = "IR01" <=> in.body # "ok"
                       /\ answer[r].code = "PRF06" => in.body = "ok" /\ ~refused
  BY Zenon DEF BlamesTheRightSide
<1> DEFINE in == input[r]
           foreign == \A m \in SlugsIn(in.url) : ~Denotes(in.url, m)
           refused == foreign \/ Mistaken(in.url)
           wrong == in.body # "ok" \/ refused \/ in.sections = "unknown"
           code == Rejection(in)
<1>1. r \in Scrapes /\ at[r] = "done"
  BY DEF Answered, FlightOK
<1>2. Read(r)
  BY <1>1 DEF ReadOK, Read
<1>3. in \in Inputs
  BY <1>1, <1>2 DEF Read
<1>4. in.body \in {"ok", "malformed"} /\ (in.body = "ok" => IsText(in.url))
  BY <1>3, InputsAssumption
<1>5. in.body = "ok" => (refused <=> ParseProfileURL(in.url) = NoSlug)
  <2>1. ASSUME in.body = "ok" PROVE refused <=> ParseProfileURL(in.url) = NoSlug
    <3>1. /\ ParseProfileURL(in.url) \in SlugsIn(in.url) \cup {NoSlug}
          /\ \A m \in SlugsIn(in.url) :
               ParseProfileURL(in.url) = m <=> Denotes(in.url, m) /\ ~Mistaken(in.url)
      BY <1>4, <2>1, SlugIsRead
    <3>2. NoSlug \notin SlugsIn(in.url)
      BY Zenon DEF NoMembers, SlugsIn
    <3>3. QED
      BY <3>1, <3>2, Zenon
  <2>2. QED
    BY <2>1
<1> HIDE DEF refused
<1>6. /\ code = "none" <=> ~wrong
      /\ code = "IR01" <=> in.body # "ok"
      /\ code = "PRF06" => in.body = "ok" /\ ~refused
      /\ code \in {"none", "IR01", "PRF01", "PRF06"}
  BY <1>4, <1>5 DEF Rejection
<1>7. code # "none" => /\ answer[r].code = code /\ answer[r].status = Catalogue[code]
                       /\ heard[r] = None
  <2>1. code # "none" => answer[r] = [status |-> Catalogue[code], code |-> code] /\ heard[r] = None
    BY <1>1, <1>2, Zenon DEF Read
  <2> HIDE DEF code
  <2>2. QED
    BY <2>1
<1>8. code = "none" => answer[r].status # 400 /\ answer[r].code \notin {"IR01", "PRF06"}
  BY <1>1, <1>2, Zenon DEF Read
<1>9. Catalogue["IR01"] = 400 /\ Catalogue["PRF01"] = 400 /\ Catalogue["PRF06"] = 400
  BY DEF Catalogue
<1> HIDE DEF code, wrong
<1>10. /\ answer[r].status = 400 <=> wrong
       /\ wrong => heard[r] = None
  BY <1>6, <1>7, <1>8, <1>9
<1>11. /\ answer[r].code = "IR01" <=> in.body # "ok"
       /\ answer[r].code = "PRF06" => in.body = "ok" /\ ~refused
  BY <1>6, <1>7, <1>8
<1>12. QED
  BY <1>10, <1>11, Zenon DEF wrong, refused

-----------------------------------------------------------------------------
\* The invariant: whoever is on the way without a session knows no good one.
THEOREM Inductive == Spec => []IInv
  BY InitIInv, NextIInv, PTL DEF Spec

\* After a session was lost no request is answered with a live profile and no
\* probe with "up", until the cookies are refreshed (client.go:118-119).
THEOREM LiveIsSignedIn == Spec => []LiveMeansSignedIn
<1>1. IInv => LiveMeansSignedIn
  BY DEF IInv
<1> QED
  BY <1>1, Inductive, PTL

\* A scrape that LinkedIn rejected says PRF04, and none that came in after the
\* loss takes the profile for missing (README.md:192).
THEOREM LossShows == Spec => []LossIsShown
<1>1. IInv => LossIsShown
  BY DEF IInv
<1> QED
  BY <1>1, Inductive, PTL

\* Readiness is 200 exactly when both dependencies passed in this very probe
\* (README.md:200).
THEOREM ReadinessIsProbed == Spec => []ReadyMeansProbed
<1>1. IInv => ReadyMeansProbed
  BY DEF IInv
<1> QED
  BY <1>1, Inductive, PTL

\* The slug is the member's whose URL was sent, however it is written, and a text
\* that is no member's URL has none (profile_validation.go:24-25, 103).
THEOREM SlugIsRight == Spec => []SlugIsTheMember
<1>1. IInv => SlugIsTheMember
  BY ReadIsTheMember DEF IInv
<1> QED
  BY <1>1, Inductive, PTL

\* The caller is told 400 exactly for what the caller got wrong, with the code of
\* the first thing wrong, and before anything is asked of LinkedIn (README.md:179-190).
THEOREM BlameIsFair == Spec => []BlamesTheRightSide
<1>1. IInv => BlamesTheRightSide
  BY BlameIsRight DEF IInv
<1> QED
  BY <1>1, Inductive, PTL
=============================================================================
