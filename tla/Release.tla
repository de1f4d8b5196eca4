------------------------------ MODULE Release ------------------------------
(***************************************************************************)
(* A candidate release from scripts/release/entrypoint.sh to the server it *)
(* execs, beside the release that serves, and the operator's smoke of      *)
(* scripts/release-smoke.mjs, whose requests are requests of Sessions.     *)
(***************************************************************************)
EXTENDS Sessions

CONSTANTS
  SmokeSignIn, SmokeDeck, SmokeSignOut,    \* the smoke's three requests
  MaxReleases,                             \* bound: releases started
  MaxLost                                  \* bound: responses that get lost

ASSUME ReleaseAssumption ==
  /\ {SmokeSignIn, SmokeDeck, SmokeSignOut} \subseteq Request
  /\ MaxReleases \in Nat \ {0} /\ MaxLost \in Nat

SmokeRequests == {SmokeSignIn, SmokeDeck, SmokeSignOut}

VARIABLES
  release,      \* the serving release, by its number
  candidate,    \* "none", or how far the entrypoint has come
  next,         \* the ring of the candidate
  smoke,        \* the awaited step of release-smoke.mjs, and its locals
  lost

releases == <<release, candidate, next>>
delivery == <<releases, smoke, lost>>

NoSmoke == [pc |-> "idle", expected |-> 0, cookie |-> None,
            failed |-> FALSE, cleanupFailed |-> FALSE]

-----------------------------------------------------------------------------
(* entrypoint.sh and migrate.mjs                                           *)

\* What DIRECT_URL can be beside the runtime's DATABASE_URL.
Direct == {"owner", "malformed", "runtime role", "other database", "pooled"}
DirectOK(direct) == direct = "owner"

\* A rotation adds a key in front of the ring, or retires the last ones.
Rotates(to) ==
  \/ Tail(to) = ring
  \/ \E n \in 1..Len(ring) : to = SubSeq(ring, 1, n)

Deploy ==
  /\ candidate \in {"none", "blocked"} /\ release < MaxReleases
  /\ \E to \in Rings : Rotates(to) /\ next' = to
  /\ candidate' = "configuration"
  /\ UNCHANGED <<release, schema>>

\* The candidate blocked leaves the serving release alone.
CheckDirect ==
  /\ candidate = "configuration"
  /\ \E direct \in Direct :
       candidate' = IF DirectOK(direct) THEN "migrate" ELSE "blocked"
  /\ UNCHANGED <<release, next, schema>>

\* Faulty variant: the entrypoint goes on without set -e.
MigrateAnyway ==
  /\ candidate = "migrate"
  /\ DeployOK \/ DeployFails
  /\ candidate' = "exec"
  /\ UNCHANGED <<release, next>>

\* set -e: a deploy that fails ends the entrypoint before exec.
MigrateDeploy ==
  /\ candidate = "migrate"
  /\ \/ DeployOK /\ candidate' = "exec"
     \/ DeployFails /\ candidate' = "blocked"
  /\ UNCHANGED <<release, next>>

\* exec, without DIRECT_URL: requests that arrive from here on are its own.
ExecServer ==
  /\ candidate = "exec"
  /\ candidate' = "none" /\ release' = release + 1
  /\ UNCHANGED <<next, schema>>

CandidateStep ==
  /\ Deploy \/ CheckDirect \/ MigrateDeploy \/ ExecServer
  /\ ring' = IF release' = release THEN ring ELSE next
  /\ UNCHANGED <<accounts, fixtures, tx, cookies, req, smoke, lost>>

-----------------------------------------------------------------------------
(* release-smoke.mjs                                                       *)

SmokeGo(pc) == smoke' = [smoke EXCEPT !.pc = pc]

\* catch and finally: whoever has a cookie signs out.
SmokeFails ==
  smoke' = [smoke EXCEPT !.failed = TRUE,
              !.pc = IF smoke.cookie = None THEN "over" ELSE "sign out"]

SmokeStart ==
  /\ smoke.pc = "idle"
  /\ smoke' = [smoke EXCEPT !.pc = "root", !.expected = release]
  /\ UNCHANGED <<req, lost>>

\* The root and /health name the commit; /ready, the documents and both
\* schemas are only read.
SmokeReads ==
  /\ \/ smoke.pc = "root" /\ release = smoke.expected /\ SmokeGo("health")
     \/ smoke.pc = "health" /\ release = smoke.expected /\ SmokeGo("documents")
     \/ smoke.pc = "documents" /\ SmokeGo("sign in")
     \/ smoke.pc \in {"root", "health", "documents"} /\ SmokeFails
  /\ UNCHANGED <<req, lost>>

SmokeSends ==
  /\ \/ /\ smoke.pc = "sign in"
        /\ SignIn(SmokeSignIn, First) /\ SmokeGo("signing in")
     \/ /\ smoke.pc = "deck"
        /\ Carry(SmokeDeck, "call", smoke.cookie) /\ SmokeGo("reading")
     \/ /\ smoke.pc = "sign out"
        /\ Carry(SmokeSignOut, "sign-out", smoke.cookie) /\ SmokeGo("signing out")
  /\ UNCHANGED lost

\* What the smoke sent last.
Sent ==
  [pc \in {"signing in", "reading", "signing out"} |->
    CASE pc = "signing in" -> SmokeSignIn
      [] pc = "reading" -> SmokeDeck
      [] pc = "signing out" -> SmokeSignOut]

Waiting == smoke.pc \in DOMAIN Sent
Answered(status) == req[Sent[smoke.pc]].pc = "done"
                    /\ req[Sent[smoke.pc]].answer = status

SignOutFails ==
  smoke' = [smoke EXCEPT !.failed = TRUE, !.cleanupFailed = TRUE, !.pc = "over"]

\* Faulty variant: a failed read ends the smoke.
SmokeReceivesHasty ==
  /\ Waiting /\ req[Sent[smoke.pc]].pc = "done"
  /\ IF ~Answered(200) \/ (smoke.pc = "reading" /\ deck = None)
     THEN smoke' = [smoke EXCEPT !.failed = TRUE, !.pc = "over"]
     ELSE \E c \in {c \in cookies : c.token = SmokeSignIn} :
            smoke' = [smoke EXCEPT !.cookie = c,
              !.pc = IF @ = "signing in" THEN "deck"
                     ELSE IF @ = "reading" THEN "sign out" ELSE "over"]
  /\ UNCHANGED <<req, lost>>

SmokeReceives ==
  /\ Waiting /\ req[Sent[smoke.pc]].pc = "done"
  /\ \/ /\ smoke.pc = "signing in" /\ Answered(200)
        /\ \E c \in {c \in cookies : c.token = SmokeSignIn} :
             smoke' = [smoke EXCEPT !.cookie = c, !.pc = "deck"]
     \/ smoke.pc = "signing in" /\ ~Answered(200) /\ SmokeFails
     \/ smoke.pc = "reading" /\ Answered(200) /\ deck # None /\ SmokeGo("sign out")
     \/ smoke.pc = "reading" /\ (~Answered(200) \/ deck = None) /\ SmokeFails
     \/ smoke.pc = "signing out" /\ Answered(200) /\ SmokeGo("over")
     \/ smoke.pc = "signing out" /\ ~Answered(200) /\ SignOutFails
  /\ UNCHANGED <<req, lost>>

\* The response is lost or late: AbortSignal.timeout.  The server goes on.
SmokeTimesOut ==
  /\ Waiting /\ lost < MaxLost
  /\ lost' = lost + 1
  /\ IF smoke.pc = "signing out" THEN SignOutFails ELSE SmokeFails
  /\ UNCHANGED req

SmokeStep ==
  /\ \/ SmokeStart \/ SmokeReads \/ SmokeSends \/ SmokeReceives
     \/ SmokeTimesOut
  /\ UNCHANGED <<database, ring, cookies, releases>>

ReleaseTypeOK ==
  /\ release \in 1..MaxReleases
  /\ candidate \in {"none", "configuration", "migrate", "exec", "blocked"}
  /\ next \in Rings
  /\ smoke.cookie \in Cookie \cup {None}
  /\ lost \in 0..MaxLost
=============================================================================
