----------------------------- MODULE ProfileURL -----------------------------
(***************************************************************************)
(* What pkg/validation makes of the text a caller sends as "profileUrl".   *)
(*                                                                         *)
(* A text is abstracted to what decides: whether it is blank, whether it   *)
(* has a scheme, the labels of its host, the segments of its path as they  *)
(* are written, and whether its query has a URL in it.  Names stand for    *)
(* texts; the tables say what the standard library makes of the names that *)
(* it changes.                                                             *)
(***************************************************************************)
EXTENDS Selections, SequencesExt

CONSTANTS
  LowerCase,     \* strings.ToLower: name -> name
  Decoded,       \* what url.Parse makes of a segment: name -> names, as an
                 \* encoded slash splits it; <<>> for a malformed escape
  Unescaped,     \* url.PathUnescape and TrimSpace: name -> name, or Malformed
  Malformed,
  LocaleShaped,  \* the names isLocaleSegment accepts: "en", "en-us"
  TooLong        \* the names longer than maxPublicIDLength

\* Names a table does not list stay as they are.
Lower(name) == IF name \in DOMAIN LowerCase THEN LowerCase[name] ELSE name
Unescape(name) == IF name \in DOMAIN Unescaped THEN Unescaped[name] ELSE name
Decode(name) == IF name \in DOMAIN Decoded THEN Decoded[name] ELSE <<name>>

NoSlug == ""

ProfilePathPrefixes == {"in", "pub"}
NonProfilePathPrefixes ==
  { "company", "school", "jobs", "posts", "feed", "groups", "events",
    "learning", "showcase", "newsletters", "pulse", "services" }

-----------------------------------------------------------------------------
\* url.Parse, on a text that is given a scheme unless "://" is anywhere in it:
\* without a scheme there is no host, and the first label starts the path.
ParseURL(text) ==
  LET ok == \A i \in DOMAIN text.path : Decode(text.path[i]) # <<>>
      hostless == ~text.scheme /\ text.nested
  IN [ ok   |-> ok,
       host |-> IF hostless THEN <<>> ELSE text.host,
       path |-> FlattenSeq([i \in DOMAIN text.path |-> Decode(text.path[i])]) ]

\* Faulty variant of IsLinkedInHost: any host the name occurs in.
IsLinkedInHostContains(host) ==
  \E i \in DOMAIN host : Lower(host[i]) = "linkedin"

\* linkedin.com and every subdomain of it; one final dot does not count.
IsLinkedInHost(host) ==
  LET labels == [i \in 1 .. Len(host) |-> Lower(host[i])]
      dotted == Len(host) > 0 /\ labels[Len(host)] = ""
      last == IF dotted THEN Len(host) - 1 ELSE Len(host)
  IN last >= 2 /\ labels[last - 1] = "linkedin" /\ labels[last] = "com"

PathSegments(path) == Keep(path, {i \in DOMAIN path : path[i] # ""})

\* Faulty variant of StripLocalePrefix: two letters are always a locale.
StripLocaleFirst(segments) ==
  IF segments # <<>> /\ Lower(Head(segments)) \in LocaleShaped
  THEN Tail(segments) ELSE segments

\* A leading locale goes, but "in" and "pub" are not taken for one.
StripLocalePrefix(segments) ==
  IF /\ segments # <<>>
     /\ Lower(Head(segments)) \notin ProfilePathPrefixes \cup NonProfilePathPrefixes
     /\ Lower(Head(segments)) \in LocaleShaped
  THEN Tail(segments)
  ELSE segments

\* Faulty variant of ParseProfileURL: any slug will do.
ParseProfileURLUnbounded(text) ==
  LET url == ParseURL(text)
      segments == StripLocalePrefix(PathSegments(url.path))
  IN IF /\ ~text.blank /\ url.ok
        /\ IsLinkedInHost(url.host)
        /\ Len(segments) >= 2
        /\ Lower(segments[1]) \in ProfilePathPrefixes
     THEN Unescape(segments[2]) ELSE NoSlug

\* The slug of a member profile URL, or NoSlug, which stands for PRF01.  The
\* path is decoded once by url.Parse and its slug once more.
ParseProfileURL(text) ==
  LET url == ParseURL(text)
      segments == StripLocalePrefix(PathSegments(url.path))
      slug == Unescape(segments[2])
      valid == /\ ~text.blank
               /\ url.ok
               /\ IsLinkedInHost(url.host)
               /\ Len(segments) >= 2
               /\ Lower(segments[1]) \in ProfilePathPrefixes
               /\ slug \notin {Malformed, NoSlug} \cup TooLong
  IN IF valid THEN slug ELSE NoSlug

-----------------------------------------------------------------------------
(* What the texts mean, said without the parser.                           *)

NoMembers == {Malformed, NoSlug} \cup TooLong

\* The path of a text without its escapes, and the slugs that may be in it.
DecodedPath(text) ==
  LET path == FlattenSeq([i \in DOMAIN text.path |-> Decode(text.path[i])])
  IN Keep(path, {i \in DOMAIN path : path[i] # ""})
SlugsIn(text) == {Unescape(name) : name \in ToSet(DecodedPath(text))} \ NoMembers

\* text is a URL of member: on LinkedIn, perhaps under a locale, with anything
\* after the slug, and with whatever scheme and query.
Denotes(text, member) ==
  LET path == DecodedPath(text)
      site(n) == [i \in 1 .. Len(text.host) - n |-> Lower(text.host[n + i])]
  IN /\ ~text.blank
     /\ \E n \in 0 .. Len(text.host) :
          site(n) \in {<<"linkedin", "com">>, <<"linkedin", "com", "">>}
     /\ \A i \in DOMAIN text.path : Decode(text.path[i]) # <<>>
     /\ member \notin NoMembers
     /\ \E k \in {1, 2} :
          /\ Len(path) > k
          /\ k = 2 => Lower(path[1]) \in LocaleShaped \ {"in"}
          /\ Lower(path[k]) \in {"in", "pub"}
          /\ Unescape(path[k + 1]) = member

\* The texts the code mistakes: "://" in the query passes for a scheme
\* (profile_validation.go:33), so a URL that has none is left without a host and
\* refused, although the parser is to be "forgiving about scheme, subdomain and
\* query" (profile_validation.go:25) and no scheme is needed (README.md:175).
Mistaken(text) == ~text.scheme /\ text.nested

IsText(text) ==
  /\ text.host \in Seq(ToSet(text.host)) /\ text.path \in Seq(ToSet(text.path))
  /\ \A name \in ToSet(text.path) : Decode(name) \in Seq(ToSet(Decode(name)))

\* No word that introduces another page, and not "pub", has the shape of a locale.
ASSUME TablesAssumption == LocaleShaped \cap (NonProfilePathPrefixes \cup {"pub"}) = {}
=============================================================================
