---------------------------- MODULE Environment ----------------------------
(***************************************************************************)
(* The environment variables of the server: what validateEnv               *)
(* (src/utils/env.ts) accepts before anything else is loaded, and what the *)
(* modules loaded afterwards demand of the same variables when they read   *)
(* them again.  A variable is one of a few classes of values; the signing  *)
(* ring is a sequence, because the order of its entries matters.           *)
(***************************************************************************)
EXTENDS Integers, Sequences

\* The classes of values told apart, by variable.  "other" is any value, the
\* empty one included, that no reader accepts.  A url is an "origin" written
\* plainly, one with a trailing "slash", one with a path or credentials
\* ("more"), or no url at all ("noUrl").
Classes ==
  [NODE_ENV |-> {"absent", "test", "staging", "development", "production", "other"},
   TRUST_PROXY |-> {"absent", "false", "render-1", "other"},
   RENDER_GIT_COMMIT |-> {"absent", "commit1", "commit2", "other"},
   RELEASE_COMMIT |-> {"absent", "commit1", "commit2", "other"},
   BETTER_AUTH_TRUSTED_ORIGINS |-> {"absent", "other"},
   BETTER_AUTH_SECRET |-> {"absent", "empty", "secret"},
   AUTH_SECRET |-> {"absent", "empty", "secret"},
   BETTER_AUTH_SECRETS |-> {"absent", "empty", "ring"},
   BETTER_AUTH_URL |-> {"absent", "empty", "noUrl", "more", "http", "https", "slash"},
   FRONTEND_URL |-> {"absent", "empty", "noUrl", "more", "http", "https", "slash"},
   DATABASE_URL |-> {"absent", "empty", "noUrl", "noDatabase", "badOption", "postgres"},
   PORT |-> {"absent", "empty", "tooLarge", "word", "port"},
   LOG_LEVEL |-> {"absent", "info", "other"},
   GOOGLE_CLIENT_ID |-> {"absent", "empty", "id"},
   GOOGLE_CLIENT_SECRET |-> {"absent", "empty", "secret"}]

Names == DOMAIN Classes

\* An entry of BETTER_AUTH_SECRETS; it is wellFormed if it has the form
\* <version>:<value> and a value of 32 characters.
Entry == [version : Nat, value : {"v1", "v2", "v3"}, wellFormed : BOOLEAN]

\* The environment is the class of every variable, and the entries of the ring.
Truthy(value) == value \notin {"absent", "empty"}

Production(env) == env.NODE_ENV = "production"

-----------------------------------------------------------------------------
(* The readers that throw, each used by validateEnv and by a module.       *)

ProxyTrustOK(env) == env.TRUST_PROXY # "other"

CommitOK(env) ==
  LET render == env.RENDER_GIT_COMMIT  portable == env.RELEASE_COMMIT IN
  /\ "other" \notin {render, portable}
  /\ Truthy(render) /\ Truthy(portable) => render = portable

\* Faulty variant: the order of the versions is not looked at.
RingOKAnyOrder(ring) ==
  \A i \in 1..Len(ring) :
    /\ ring[i].wellFormed
    /\ \A j \in 1..(i - 1) : ring[j].value # ring[i].value

\* authSecretOptions reads the entries from left to right.
RingOK(ring) ==
  \A i \in 1..Len(ring) :
    /\ ring[i].wellFormed
    /\ \A j \in 1..(i - 1) : ring[j].version > ring[i].version
                             /\ ring[j].value # ring[i].value

SecretsOK(env) ==
  IF Production(env)
  THEN /\ Truthy(env.BETTER_AUTH_SECRETS)
       /\ ~Truthy(env.BETTER_AUTH_SECRET) /\ ~Truthy(env.AUTH_SECRET)
       /\ RingOK(env.ring)
  ELSE CASE env.BETTER_AUTH_SECRETS = "absent" -> TRUE
         [] env.BETTER_AUTH_SECRETS = "empty" -> FALSE
         [] OTHER -> RingOK(env.ring)

LogLevelOK(env) == env.LOG_LEVEL # "other"

IsUrl(value) == value \notin {"absent", "empty", "noUrl"}

-----------------------------------------------------------------------------
(* validateEnv                                                             *)

SecretVariable(env) ==
  IF Production(env) \/ env.BETTER_AUTH_SECRETS # "absent"
  THEN "BETTER_AUTH_SECRETS" ELSE "BETTER_AUTH_SECRET"

RequiredVars(env) ==
  {"DATABASE_URL", "BETTER_AUTH_URL", SecretVariable(env)}
    \cup IF Production(env) THEN {"FRONTEND_URL", "PORT"} ELSE {}

\* PORT defaults to 8000 when it is absent, and an empty PORT is no number.
PortOK(env) == env.PORT \in {"absent", "port"}

\* With a scheme, a host and a database, and no option Prisma's parser refuses.
DatabaseOK(env) == env.DATABASE_URL = "postgres"

\* Faulty variant: the scheme and the rest are only looked at in production.
HttpUrlOKInProduction(env, name) ==
  Production(env) => \/ env[name] = "https"
                     \/ env[name] = "slash" /\ name # "FRONTEND_URL"

\* Faulty variant: plain http is accepted in production too.
HttpUrlOKPlain(env, name) ==
  \/ env[name] \in {"http", "https"}
  \/ env[name] = "slash" /\ name # "FRONTEND_URL"

\* validateHttpUrl: an origin; FRONTEND_URL is compared with its origin as text.
HttpUrlOK(env, name) ==
  \/ env[name] = "https"
  \/ env[name] = "http" /\ ~Production(env)
  \/ env[name] = "slash" /\ name # "FRONTEND_URL"

ValidEnv(env) ==
  /\ env.NODE_ENV # "other"
  /\ ProxyTrustOK(env)
  /\ CommitOK(env)
  /\ Production(env) => env.BETTER_AUTH_TRUSTED_ORIGINS = "absent"
  /\ \A name \in RequiredVars(env) : Truthy(env[name])
  /\ PortOK(env)
  /\ DatabaseOK(env)
  /\ SecretsOK(env)
  /\ HttpUrlOK(env, "BETTER_AUTH_URL")
  /\ env.FRONTEND_URL # "absent" => HttpUrlOK(env, "FRONTEND_URL")
  /\ LogLevelOK(env)
  /\ Truthy(env.GOOGLE_CLIENT_ID) <=> Truthy(env.GOOGLE_CLIENT_SECRET)

-----------------------------------------------------------------------------
(* What the modules loaded after it do with the same variables.            *)

\* reviewedBrowserOrigins: a slash is dropped from BETTER_AUTH_URL, an empty
\* origin from the result; the default frontend is http://localhost:3000.
Origins(env) ==
  LET api == IF ~Truthy(env.BETTER_AUTH_URL) THEN {}
             ELSE IF env.BETTER_AUTH_URL = "slash" THEN {"https"}
             ELSE {env.BETTER_AUTH_URL}
      frontend == IF env.FRONTEND_URL # "absent" THEN {env.FRONTEND_URL} \ {"empty"}
                  ELSE IF Production(env) THEN {} ELSE {"http"}
  IN  api \cup frontend

\* src/lib/logger.ts makes the configured logger, src/lib/prisma.ts takes the
\* url apart, src/app.ts first loads src/lib/auth.ts.
LoggerLoads(env) == LogLevelOK(env)
PrismaLoads(env) == IsUrl(env.DATABASE_URL)
AppLoads(env) ==
  /\ SecretsOK(env)
  /\ Truthy(env.BETTER_AUTH_URL) => IsUrl(env.BETTER_AUTH_URL)
  /\ CommitOK(env)
  /\ ProxyTrustOK(env)
=============================================================================
