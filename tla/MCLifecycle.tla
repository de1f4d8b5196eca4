---------------------------- MODULE MCLifecycle ----------------------------
(* Lifecycle on small instances. *)
EXTENDS Lifecycle

CONSTANTS q1, q2, a1, a2

K(version, value) == [version |-> version, value |-> value, wellFormed |-> TRUE]

\* A complete production environment with a ring of two keys ...
ProductionEnv ==
  [NODE_ENV |-> "production", TRUST_PROXY |-> "render-1",
   RENDER_GIT_COMMIT |-> "commit1", RELEASE_COMMIT |-> "absent",
   BETTER_AUTH_TRUSTED_ORIGINS |-> "absent", BETTER_AUTH_SECRET |-> "absent",
   AUTH_SECRET |-> "absent", BETTER_AUTH_SECRETS |-> "ring",
   BETTER_AUTH_URL |-> "https", FRONTEND_URL |-> "https",
   DATABASE_URL |-> "postgres", PORT |-> "port", LOG_LEVEL |-> "absent",
   GOOGLE_CLIENT_ID |-> "absent", GOOGLE_CLIENT_SECRET |-> "absent",
   ring |-> <<K(2, "v2"), K(1, "v1")>>]

\* ... and one of a workstation.
WorkstationEnv ==
  [ProductionEnv EXCEPT !.NODE_ENV = "absent", !.TRUST_PROXY = "absent",
     !.RENDER_GIT_COMMIT = "absent", !.BETTER_AUTH_SECRETS = "absent",
     !.BETTER_AUTH_SECRET = "secret", !.BETTER_AUTH_URL = "http",
     !.FRONTEND_URL = "absent", !.PORT = "absent"]

\* What is tried for one variable at a time, beside its value there.
Tried ==
  [Classes EXCEPT
     !.NODE_ENV = {"other", "production"}, !.TRUST_PROXY = {"absent", "other"},
     !.RENDER_GIT_COMMIT = {"other"},
     !.RELEASE_COMMIT = {"commit2", "other"},
     !.BETTER_AUTH_SECRETS = {"absent", "empty"},
     !.BETTER_AUTH_SECRET = {"absent", "secret"}, !.PORT = @ \ {"port"},
     !.AUTH_SECRET = {"secret"}, !.LOG_LEVEL = {"other"},
     !.BETTER_AUTH_URL = @ \ {"https"}, !.FRONTEND_URL = @ \ {"https"},
     !.GOOGLE_CLIENT_ID = {"id"}, !.GOOGLE_CLIENT_SECRET = {"secret"}]

\* Another ring, out of order, with a key twice or with one that is too short.
Rings ==
  { <<K(1, "v1"), K(2, "v2")>>, <<K(2, "v1"), K(1, "v1")>>,
    <<K(2, "v2"), K(2, "v1")>>, <<K(3, "v3"), K(1, "v1"), K(2, "v2")>>,
    <<K(2, "v2"), [K(1, "v1") EXCEPT !.wellFormed = FALSE]>> }

Change(e, names) == UNION { {[e EXCEPT ![n] = v] : v \in Tried[n]} : n \in names }

OneChange ==
  {ProductionEnv, WorkstationEnv}
    \cup { [ProductionEnv EXCEPT !.ring = ring] : ring \in Rings }
    \cup Change(ProductionEnv, Names)
    \cup Change(WorkstationEnv,
                {"BETTER_AUTH_URL", "FRONTEND_URL", "BETTER_AUTH_SECRETS",
                 "BETTER_AUTH_SECRET", "DATABASE_URL", "PORT", "LOG_LEVEL"})

OneEnvironment == {ProductionEnv}

ServerLimit == [documentation |-> 1, auth |-> 1, general |-> 1]
=============================================================================
