----------------------------- MODULE MCSandbox -----------------------------
(* Sandbox on small instances. *)
EXTENDS Sandbox

CONSTANTS c1, c2, s1, d1, o1, r1, r2

\* Two releases of one key, of both, and of the new one.
TwoKeys == {<<1>>, <<2, 1>>, <<2>>}

\* Not everybody at once: two operators and the tester, one operator beside the
\* browsers, a release or the smoke, and a release beside the browsers or the
\* smoke.
Groups ==
  { {c1, c2, "edits"}, {c1, r1, r2}, {c1, "release"}, {c1, "smoke"},
    {r1, r2, "release"}, {"smoke", "release"} }

RevocationRace == { {c1, r1, r2} }
=============================================================================
