-------------------------- MODULE RepositoryPolicy --------------------------
(***************************************************************************)
(* scripts/repository-policy.mjs, one GitHub call per step: apply collects *)
(* the evidence of a pull request, looks for conflicts, writes the policy  *)
(* and reads it back; capture only reads back.  Runs may overlap, and any  *)
(* call may fail, a write after GitHub has performed it.                   *)
(***************************************************************************)
EXTENDS Repository

CONSTANTS
  Run,                  \* who runs apply and capture
  MaxStarts, MaxFaults  \* bounds: runs of the script, calls that fail

ASSUME PolicyAssumption == {MaxStarts, MaxFaults} \subseteq Nat

VARIABLES
  run,          \* of each run: its next call and what it has read
  starts, faults,
  green,        \* history: commits whose two contexts ever had succeeded
  since,        \* history: what changed after a run had read it back
  raced         \* history: runs of apply overlapped, or an administrator
                \* made or edited a ruleset

vars == <<repository, run, starts, faults, green, since, raced>>

Idle == [pc |-> "idle", stage |-> "none", pull |-> None, checks |-> << >>, sha |-> None,
         proven |-> FALSE, previous |-> 0, left |-> {}, seen |-> << >>, seenRules |-> << >>]

Ended == {"0", "1"}
Running(r) == run[r].pc \notin Ended \cup {"idle"}

\* The newest check run counts: it is GitHub Actions' and a success.
Succeeded(runs) == runs # << >> /\ runs[Len(runs)] = "success"

Green(c) == \A n \in Context : Succeeded(ci[c][n])

Init ==
  /\ RepositoryInit
  /\ run = [r \in Run |-> Idle] /\ starts = 0 /\ faults = 0
  /\ green = {c \in Commit : Green(c)}
  /\ since = [r \in Run |-> {}] /\ raced = FALSE

At(r, pc) == run[r].pc = pc
Go(r, pc) == run' = [run EXCEPT ![r].pc = pc]
Throw(r) == run' = [run EXCEPT ![r] = [Idle EXCEPT !.pc = "1"]]

\* The operator may run the command again.
Start(r) ==
  /\ ~Running(r) /\ starts < MaxStarts /\ starts' = starts + 1
  /\ \E stage \in {"evidence", "readback"} :
       run' = [run EXCEPT ![r] = [Idle EXCEPT !.pc = "pull", !.stage = stage]]
  /\ UNCHANGED <<repository, faults>>

-----------------------------------------------------------------------------
(* results(), in apply and again in capture                                *)

ReadPull(r) ==
  /\ At(r, "pull")
  /\ IF pull.open
     THEN run' = [run EXCEPT ![r].pull = pull, ![r].left = Commits(pull), ![r].pc = "checks"]
     ELSE Throw(r)
  /\ UNCHANGED <<repository, faults>>

\* One call per commit, the merge commit first.
ReadChecks(r) ==
  /\ At(r, "checks")
  /\ LET p == run[r].pull
         c == IF p.merge \in run[r].left THEN p.merge ELSE p.head
     IN run' = [run EXCEPT ![r].checks = With(@, c, ci[c]), ![r].left = @ \ {c},
                           ![r].pc = IF run[r].left = {c} THEN "again" ELSE "checks"]
  /\ UNCHANGED <<repository, faults>>

\* The commit both contexts have reported on, the merge commit if it has.
Tested(p, checks) ==
  LET reported(c) == c # None /\ \A n \in Context : checks[c][n] # << >>
  IN IF reported(p.merge) THEN p.merge ELSE p.head

\* Faulty variant: a success on either commit of the PR is accepted.
CheckResultsAnywhere(checks, sha) ==
  \A n \in Context : \E c \in DOMAIN checks : Succeeded(checks[c][n])

CheckResults(checks, sha) == \A n \in Context : Succeeded(checks[sha][n])

\* Of a capture, verify judges what was collected here only at its end.
ReadAgain(r) ==
  /\ At(r, "again")
  /\ LET p == run[r].pull
         sha == Tested(p, run[r].checks)
         proven == CheckResults(run[r].checks, sha)
     IN IF \/ pull.head # p.head \/ pull.merge # p.merge
           \/ run[r].stage = "evidence" /\ ~proven
        THEN Throw(r)
        ELSE run' = [run EXCEPT ![r].sha = sha, ![r].proven = proven /\ ~p.auto,
                       ![r].pull = None, ![r].checks = << >>,
                       ![r].pc = IF run[r].stage = "evidence" THEN "repository" ELSE "rulesets"]
  /\ UNCHANGED <<repository, faults>>

-----------------------------------------------------------------------------
(* apply: conflicts, then the writes in their order                        *)

ReadRepository(r) ==
  /\ At(r, "repository")
  /\ IF settings["default branch"] = "reviewed" THEN Go(r, "conflicts") ELSE Throw(r)
  /\ UNCHANGED <<repository, faults>>

Named(k) == {i \in DOMAIN k : k[i].kind = "sandbox-main"}

Conflict(k) ==
  \/ Cardinality(Named(k)) > 1
  \/ \E i \in DOMAIN k :
       \/ k[i].kind = "inherited"
       \/ k[i].kind = "other" /\ k[i].effect # "inactive"

\* Faulty variant: only a ruleset in force is found again.
PreviousActive(k) ==
  LET named == {i \in Named(k) : k[i].effect # "inactive"}
  IN IF named = {} THEN 0 ELSE CHOOSE i \in named : TRUE

\* The id to update, or 0 to create the ruleset.
Previous(k) == IF Named(k) = {} THEN 0 ELSE CHOOSE i \in Named(k) : TRUE

\* The call after the first n of AllWritten.
Following(n) ==
  LET later == {i \in DOMAIN AllWritten : i > n /\ AllWritten[i] \in Written}
  IN IF later = {} THEN "ruleset" ELSE AllWritten[Min(later)]

CheckConflicts(r) ==
  /\ At(r, "conflicts")
  /\ IF Conflict(rules) THEN Throw(r)
     ELSE run' = [run EXCEPT ![r].previous = Previous(rules), ![r].pc = Following(0)]
  /\ UNCHANGED <<repository, faults>>

\* The call after a write.
After(pc) == Following(CHOOSE i \in DOMAIN AllWritten : AllWritten[i] = pc)

\* A call that fails after GitHub has performed it ends the run as well.
Done(r, pc) ==
  \/ Go(r, pc) /\ UNCHANGED faults
  \/ faults < MaxFaults /\ faults' = faults + 1 /\ Throw(r)

WriteSetting(r) ==
  /\ run[r].pc \in Written
  /\ settings' = [settings EXCEPT ![run[r].pc] = "reviewed"]
  /\ Done(r, After(run[r].pc))
  /\ UNCHANGED <<pull, ci, rules, ids, events>>

\* Faulty variant: the ruleset is put under the id that was found, or none.
PutRuleset(r) ==
  /\ At(r, "ruleset")
  /\ rules' = With(rules, run[r].previous, Policy)
  /\ Done(r, "read back")
  /\ UNCHANGED <<pull, ci, settings, ids, events>>

\* PUT of the ruleset that was found, 404 when it is gone, or POST.
WriteRuleset(r) ==
  /\ At(r, "ruleset")
  /\ LET id == run[r].previous IN
     \/ /\ id \in DOMAIN rules
        /\ rules' = [rules EXCEPT ![id] = Policy] /\ UNCHANGED ids
        /\ Done(r, "read back")
     \/ /\ id = 0 /\ ids < MaxRulesets
        /\ ids' = ids + 1
        /\ rules' = With(rules, ids', Policy)
        /\ Done(r, "read back")
     \/ /\ id \notin DOMAIN rules \cup {0}
        /\ Throw(r) /\ UNCHANGED <<rules, ids, faults>>
  /\ UNCHANGED <<pull, ci, settings, events>>

ReadBack(r) ==
  /\ At(r, "read back")
  /\ run' = [run EXCEPT ![r] = [Idle EXCEPT !.pc = "pull", !.stage = "readback"]]
  /\ UNCHANGED <<repository, faults>>

-----------------------------------------------------------------------------
(* capture, and verify of what it has collected                            *)

ListRulesets(r) ==
  /\ At(r, "rulesets")
  /\ run' = [run EXCEPT ![r].left = DOMAIN rules,
                        ![r].pc = IF DOMAIN rules = {} THEN "settings" ELSE "details"]
  /\ UNCHANGED <<repository, faults>>

\* 404 when it has been deleted since the list.
ReadRuleset(r) ==
  /\ At(r, "details")
  /\ \E i \in run[r].left :
       IF i \in DOMAIN rules
       THEN run' = [run EXCEPT ![r].seenRules = With(@, i, rules[i]), ![r].left = @ \ {i},
                               ![r].pc = IF run[r].left = {i} THEN "settings" ELSE "details"]
       ELSE Throw(r)
  /\ UNCHANGED <<repository, faults>>

\* What a run has read back so far.
Seen(r) ==
  IF At(r, "0") THEN Setting \cup {"rulesets"}
  ELSE DOMAIN run[r].seen
       \cup {x \in {"rulesets"} : run[r].pc \in {"details", "settings", "verify"}}

\* The calls in their order, by the settings they answer for.
Reads == <<{"default branch", "auto-merge"}, {"actions"}, {"selected actions"},
           {"workflow"}, {"alerts"}, {"updates"}>>

Unread(r) == {i \in DOMAIN Reads : ~(Reads[i] \cap Setting \subseteq Seen(r))}

ReadSettings(r) ==
  /\ At(r, "settings")
  /\ LET n == Min(Unread(r))
         now == Reads[n] \cap Setting
     IN run' = [run EXCEPT
          ![r].seen = [s \in now \cup DOMAIN @ |-> IF s \in now THEN settings[s] ELSE @[s]],
          ![r].pc = IF Unread(r) = {n} THEN "verify" ELSE "settings"]
  /\ UNCHANGED <<repository, faults>>

\* Faulty variant: the toggles of Dependabot are not looked at.
VerifySomeSettings(seen) == \A s \in Setting \ {"alerts", "updates"} : seen[s] = "reviewed"

VerifySettings(seen) == \A s \in Setting : seen[s] = "reviewed"

VerifyRulesets(seen) ==
  LET active == {i \in DOMAIN seen : seen[i].effect # "inactive"}
  IN Cardinality(active) = 1 /\ \A i \in active : seen[i].effect = "reviewed"

\* verify, at once in apply and later of the file that capture has written.
Verify(r) ==
  /\ At(r, "verify")
  /\ LET e == run[r] IN
     IF /\ e.proven /\ VerifyRulesets(e.seenRules) /\ VerifySettings(e.seen)
     THEN run' = [run EXCEPT ![r] = [Idle EXCEPT !.pc = "0", !.sha = e.sha]]
     ELSE Throw(r)
  /\ UNCHANGED <<repository, faults>>

\* gh fails or times out before GitHub has done anything.
Fail(r) ==
  /\ Running(r) /\ faults < MaxFaults /\ faults' = faults + 1
  /\ Throw(r)
  /\ UNCHANGED repository

Step(r) ==
  \/ ReadPull(r) \/ ReadChecks(r) \/ ReadAgain(r)
  \/ ReadRepository(r) \/ CheckConflicts(r) \/ WriteSetting(r) \/ WriteRuleset(r)
  \/ ReadBack(r) \/ ListRulesets(r) \/ ReadRuleset(r) \/ ReadSettings(r)
  \/ Verify(r) \/ Fail(r)

Changed(x) == IF x = "rulesets" THEN rules' # rules ELSE settings'[x] # settings[x]

History ==
  /\ green' = green \cup {c \in Commit : Green(c)'}
  /\ since' = [r \in Run |-> IF Seen(r) = {} THEN {} ELSE since[r] \cup {x \in Seen(r) : Changed(x)}]
  /\ raced' = \/ raced \/ (run' = run /\ rules' # rules)
              \/ \E r, o \in Run : r # o /\ Running(r)' /\ Running(o)'

Next ==
  /\ \/ \E r \in Run : Start(r)
     \/ \E r \in Run : Step(r) /\ UNCHANGED starts
     \/ World /\ UNCHANGED <<run, starts, faults>>
  /\ History

Spec == Init /\ [][Next]_vars

-----------------------------------------------------------------------------

TypeOK ==
  /\ RepositoryTypeOK
  /\ \A r \in Run : run[r].sha \in Commit \cup {None}
  /\ starts \in 0..MaxStarts /\ faults \in 0..MaxFaults
  /\ {c \in Commit : Green(c)} \subseteq green
  /\ since \in [Run -> SUBSET (Setting \cup {"rulesets"})]

\* Nothing is written, and nothing is accepted, but on a commit whose two jobs
\* had succeeded, both at one time, whatever CI and pushes did meanwhile.
EvidenceFirst ==
  \A r \in Run : run[r].pc \in Written \cup {"ruleset", "0"} => run[r].sha \in green

\* Repeating an apply that was cut short, after the ruleset was created too,
\* never makes a second sandbox-main.
RerunUpdates == ~raced => Cardinality(Named(rules)) <= 1

\* A run that exits with 0 vouches for the live policy: what is not as reviewed
\* was changed after the run had read it back.
Vouched ==
  \A r \in Run : At(r, "0") =>
    /\ \A s \in Setting \ since[r] : settings[s] = "reviewed"
    /\ "rulesets" \in since[r] \/ VerifyRulesets(rules)
=============================================================================
