--------------------------- MODULE ScrapePromise ----------------------------
(***************************************************************************)
(* What a caller of POST /public/v1/profile is promised, with no cache, no *)
(* budget, no LinkedIn session and no failures in sight.  A profile may    *)
(* change at any time.  A request that is answered with a profile gets a   *)
(* snapshot of the person it asked for: one taken for itself, after it     *)
(* arrived, or (unless it asked for a refresh, and only marked as cached)  *)
(* one taken for an earlier request for the same person.  A request may    *)
(* also get an error, or no answer if the process dies.                    *)
(*                                                                         *)
(* ScrapeService implements this specification.                            *)
(***************************************************************************)
EXTENDS Integers

CONSTANTS
  Requests, Slugs,
  Canonical,    \* slug -> the slug LinkedIn gives that person
  ErrorCodes,
  Nobody        \* the slug of a request that has not arrived

VARIABLES
  live,         \* person -> the version of the profile on LinkedIn
  asked,        \* request -> what it asked for, [slug, refresh]
  snapshot,     \* request -> the version read for it, 0 if none was
  reply         \* request -> what it was told

promiseVars == <<live, asked, snapshot, reply>>

Pending == [kind |-> "pending"]
Lost == [kind |-> "lost"]
Error(code) == [kind |-> "error", code |-> code]
Profile(person, version, cached) ==
  [kind |-> "profile", person |-> person, version |-> version, cached |-> cached]

Open(r) == asked[r].slug # Nobody /\ reply[r] = Pending
Subject(r) == Canonical[asked[r].slug]

Init ==
  /\ live = [p \in Slugs |-> 1]
  /\ asked = [r \in Requests |-> [slug |-> Nobody, refresh |-> FALSE]]
  /\ snapshot = [r \in Requests |-> 0]
  /\ reply = [r \in Requests |-> Pending]

Edit(p) ==
  /\ live' = [live EXCEPT ![p] = @ + 1]
  /\ UNCHANGED <<asked, snapshot, reply>>

Ask(r) ==
  /\ asked[r].slug = Nobody
  /\ \E s \in Slugs, f \in BOOLEAN :
       asked' = [asked EXCEPT ![r] = [slug |-> s, refresh |-> f]]
  /\ UNCHANGED <<live, snapshot, reply>>

TakeSnapshot(r) ==
  /\ Open(r)
  /\ snapshot[r] = 0
  /\ snapshot' = [snapshot EXCEPT ![r] = live[Subject(r)]]
  /\ UNCHANGED <<live, asked, reply>>

AnswerLive(r) ==
  /\ Open(r)
  /\ snapshot[r] > 0
  /\ reply' = [reply EXCEPT ![r] = Profile(Subject(r), snapshot[r], FALSE)]
  /\ UNCHANGED <<live, asked, snapshot>>

AnswerCached(r) ==
  /\ Open(r)
  /\ ~asked[r].refresh
  /\ \E q \in Requests :
       /\ asked[q].slug # Nobody
       /\ Subject(q) = Subject(r)
       /\ snapshot[q] > 0
       /\ reply' = [reply EXCEPT ![r] = Profile(Subject(r), snapshot[q], TRUE)]
  /\ UNCHANGED <<live, asked, snapshot>>

AnswerError(r) ==
  /\ Open(r)
  /\ \E c \in ErrorCodes : reply' = [reply EXCEPT ![r] = Error(c)]
  /\ UNCHANGED <<live, asked, snapshot>>

\* The process dies with every request it was working on.
LoseAll ==
  /\ reply' = [r \in Requests |-> IF Open(r) THEN Lost ELSE reply[r]]
  /\ UNCHANGED <<live, asked, snapshot>>

Next ==
  \/ \E p \in Slugs : Edit(p)
  \/ \E r \in Requests :
       \/ Ask(r) \/ TakeSnapshot(r)
       \/ AnswerLive(r) \/ AnswerCached(r) \/ AnswerError(r)
  \/ LoseAll

Spec == Init /\ [][Next]_promiseVars
=============================================================================
