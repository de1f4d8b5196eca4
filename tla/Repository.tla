----------------------------- MODULE Repository -----------------------------
(***************************************************************************)
(* The GitHub repository as scripts/repository-policy.mjs reads and writes *)
(* it: one representative pull request, the check runs of its commits, the *)
(* settings of the policy and the rulesets.  GitHub is external; pushes,   *)
(* CI and administrators change it between any two calls of the script.    *)
(***************************************************************************)
EXTENDS Integers, Sequences, FiniteSetsExt, Functions

CONSTANTS
  Heads, Merges, \* commits of the PR's branch; merge commits GitHub makes
  None,
  Written,       \* the settings looked at, of those the script writes
  MaxEvents,     \* bound: pushes, check runs, changes by administrators
  MaxRulesets    \* bound: rulesets ever created

\* The settings in the order apply writes them.
AllWritten == <<"actions", "selected actions", "workflow", "auto-merge", "alerts", "updates">>

ASSUME RepositoryAssumption ==
  /\ None \notin Heads \cup Merges /\ Heads \cap Merges = {}
  /\ Written \subseteq Range(AllWritten)
  /\ {MaxEvents, MaxRulesets} \subseteq Nat

VARIABLES
  pull,         \* the PR: open against main, auto-merge, head, merge commit
  ci,           \* check runs of each commit and context, oldest first
  settings,     \* of each setting: "reviewed" or "other"
  rules,        \* rulesets that apply to the repository, by id
  ids,          \* rulesets created so far
  events

repository == <<pull, ci, settings, rules, ids, events>>

Commit == Heads \cup Merges
Context == {"CI / quality", "CI / container"}
Outcome == {"pending", "success", "failure", "foreign"}
Setting == {"default branch"} \cup Written

\* A ruleset, by its name and source, and by what it does: protects branches
\* as the reviewed policy bound to GitHub Actions, otherwise, or not at all.
Ruleset == [kind : {"sandbox-main", "other", "inherited"},
            effect : {"reviewed", "altered", "inactive"}]
Policy == [kind |-> "sandbox-main", effect |-> "reviewed"]

Pull == [open : BOOLEAN, auto : BOOLEAN, head : Heads, merge : Merges \cup {None}]
\* A function with one entry added, or replaced.
With(f, x, v) == [y \in DOMAIN f \cup {x} |-> IF y = x THEN v ELSE f[y]]

Commits(p) == {p.head, p.merge} \ {None}

\* Each job has run on a commit of the PR, or on none.
RepositoryInit ==
  /\ pull \in Pull /\ pull.open /\ ~pull.auto
  /\ \E tested \in [Context -> Commits(pull) \cup {None}], last \in {"pending", "success"} :
       ci = [c \in Commit |-> [n \in Context |->
               IF c # tested[n] THEN << >> ELSE IF n = "CI / quality" THEN <<"success">> ELSE <<last>>]]
  /\ \E all \in {"reviewed", "other"} :
       settings = [s \in Setting |-> IF s = "default branch" THEN "reviewed" ELSE all]
  /\ \E n \in 0..1 : ids = n /\ rules \in [1..n -> {k \in Ruleset : k.kind = "sandbox-main"}]
  /\ events = 0

RepositoryTypeOK ==
  /\ pull \in Pull
  /\ ci \in [Commit -> [Context -> Seq(Outcome)]]
  /\ settings \in [Setting -> {"reviewed", "other"}]
  /\ DOMAIN rules \subseteq 1..ids /\ Range(rules) \subseteq Ruleset
  /\ events \in 0..MaxEvents

-----------------------------------------------------------------------------
(* CI and the other people                                                 *)

Event == events < MaxEvents /\ events' = events + 1

\* A check run starts, again perhaps, or the pending one concludes; another
\* app can report under the same name.
Ci ==
  /\ Event
  /\ \E c \in Commits(pull), n \in Context :
       LET runs == ci[c][n]
           pending == runs # << >> /\ runs[Len(runs)] = "pending"
       IN \/ /\ ~pending
             /\ \E o \in {"pending", "foreign"} : ci' = [ci EXCEPT ![c][n] = Append(@, o)]
          \/ /\ pending
             /\ \E o \in {"success", "failure"} :
                  ci' = [ci EXCEPT ![c][n][Len(runs)] = o]
  /\ UNCHANGED <<pull, settings, rules, ids>>

\* A push, back to an earlier commit too; GitHub makes a merge commit later;
\* the PR is closed, or set to merge on its own.
ChangePull ==
  /\ Event
  /\ \/ \E h \in Heads \ {pull.head} : pull' = [pull EXCEPT !.head = h, !.merge = None]
     \/ \E m \in Merges : pull.merge = None /\ pull' = [pull EXCEPT !.merge = m]
     \/ pull.open /\ pull' = [pull EXCEPT !.open = FALSE]
     \/ ~pull.auto /\ pull' = [pull EXCEPT !.auto = TRUE]
  /\ UNCHANGED <<ci, settings, rules, ids>>

ChangeSetting ==
  /\ Event
  /\ \E s \in Setting :
       settings[s] = "reviewed" /\ settings' = [settings EXCEPT ![s] = "other"]
  /\ UNCHANGED <<pull, ci, rules, ids>>

\* A ruleset is created, or one of the repository edited or deleted.
ChangeRuleset ==
  /\ Event
  /\ \/ \E k \in Ruleset : /\ ids < MaxRulesets /\ ids' = ids + 1
                           /\ rules' = With(rules, ids', k)
     \/ /\ UNCHANGED ids
        /\ \E i \in DOMAIN rules :
             \/ \E e \in {"altered", "inactive"} :
                  rules[i].effect # e /\ rules' = [rules EXCEPT ![i].effect = e]
             \/ rules' = Restrict(rules, DOMAIN rules \ {i})
  /\ UNCHANGED <<pull, ci, settings>>

World == Ci \/ ChangePull \/ ChangeSetting \/ ChangeRuleset
=============================================================================
