----------------------- MODULE RepositoryPolicyProofs -----------------------
(***************************************************************************)
(* scripts/repository-policy.mjs for any number of runs, commits, rulesets *)
(* and changes from outside: what a run writes rests on the evidence, and  *)
(* apply can be repeated.                                                  *)
(***************************************************************************)
EXTENDS RepositoryPolicy, FiniteSetTheorems, SequenceTheorems, TLAPS

Fields(e) ==
  [pc |-> e.pc, stage |-> e.stage, pull |-> e.pull, checks |-> e.checks, sha |-> e.sha,
   proven |-> e.proven, previous |-> e.previous, left |-> e.left, seen |-> e.seen,
   seenRules |-> e.seenRules]

Shape == run = [r \in Run |-> Fields(run[r])]

\* Where a run has not decided yet, or has nothing left to decide.
Reading == {"idle", "pull", "checks", "again", "read back", "rulesets", "details",
            "settings", "verify", "1"}

-----------------------------------------------------------------------------
(* The evidence                                                            *)

\* Both commits of the PR have been asked for when the results are judged.
Asked(r) ==
  /\ run[r].pc \in {"checks", "again"} =>
       run[r].pull \in Pull /\ run[r].left \subseteq Commits(run[r].pull)
  /\ run[r].pc = "checks" =>
       Commits(run[r].pull) \subseteq run[r].left \cup DOMAIN run[r].checks
  /\ run[r].pc = "again" => Commits(run[r].pull) \subseteq DOMAIN run[r].checks

\* What was read of a commit was its state at one time.
Read(r) == \A c \in DOMAIN run[r].checks : CheckResults(run[r].checks, c) => c \in green

Trusted(r) ==
  /\ run[r].proven => run[r].sha \in green
  /\ run[r].pc \notin Reading => run[r].sha \in green

Sound(r) == Asked(r) /\ Read(r) /\ Trusted(r)

EvidenceInv ==
  /\ Shape /\ pull \in Pull
  /\ {c \in Commit : Green(c)} \subseteq green
  /\ \A r \in Run : Sound(r)

-----------------------------------------------------------------------------
(* The ruleset                                                             *)

Alone == ~raced => \A r, o \in Run : r # o => ~(Running(r) /\ Running(o))

Quiet == Reading \cup {"repository", "conflicts", "0"}

\* What the run will write to is the one ruleset there is, if there is one.
Found(r) ==
  run[r].pc \notin Quiet =>
    Named(rules) = IF run[r].previous = 0 THEN {} ELSE {run[r].previous}

RulesetInv ==
  /\ Alone
  /\ ids \in Nat /\ DOMAIN rules \subseteq 1..ids
  /\ ~raced => /\ \A i, j \in Named(rules) : i = j
               /\ \A r \in Run : Found(r)

-----------------------------------------------------------------------------
(* The shape of the records                                                *)

LEMMA RunShape ==
  ASSUME Shape, NEW r \in Run
  PROVE  run[r] = Fields(run[r]) /\ DOMAIN run = Run
BY DEF Shape

\* A step of a run changes its own record only.
OwnStep(r) == Shape' /\ \A o \in Run \ {r} : run'[o] = run[o]

Locals(e) == <<e.pull, e.checks, e.sha, e.proven, e.previous, e.left, e.seen, e.seenRules>>

LEMMA Updated ==
  ASSUME Shape, NEW r \in Run,
         run' = [run EXCEPT ![r] = run'[r]], run'[r] = Fields(run'[r])
  PROVE  OwnStep(r)
BY RunShape DEF Shape, OwnStep

LEMMA GoEffect ==
  ASSUME Shape, NEW r \in Run, NEW pc, Go(r, pc)
  PROVE  OwnStep(r) /\ run'[r].pc = pc /\ Locals(run'[r]) = Locals(run[r])
<1>1. r \in DOMAIN run /\ run[r] = Fields(run[r])
  BY RunShape
<1>2. run' = [run EXCEPT ![r] = run'[r]]
  BY <1>1 DEF Go
<1>3. run'[r] = Fields(run'[r])
  BY <1>1 DEF Go, Fields
<1>4. run'[r].pc = pc /\ Locals(run'[r]) = Locals(run[r])
  BY <1>1 DEF Go, Fields, Locals
<1> QED
  BY <1>2, <1>3, <1>4, Updated

\* The record of a run that has forgotten what it had read.
Fresh(e, pc) ==
  /\ e = Fields(e) /\ e.pc = pc /\ e.checks = << >> /\ ~e.proven /\ e.left = {}
  /\ e.seen = << >> /\ e.seenRules = << >> /\ (pc # "0" => e.sha = None)

LEMMA ThrowEffect ==
  ASSUME Shape, NEW r \in Run, Throw(r)
  PROVE  OwnStep(r) /\ Fresh(run'[r], "1")
<1>1. r \in DOMAIN run
  BY RunShape
<1>2. run'[r] = [Idle EXCEPT !.pc = "1"]
  BY <1>1 DEF Throw
<1>3. Fresh(run'[r], "1")
  BY <1>2 DEF Idle, Fresh, Fields
<1>4. run' = [run EXCEPT ![r] = run'[r]]
  BY <1>1, <1>2 DEF Throw
<1> QED
  BY <1>3, <1>4, Updated DEF Fresh

\* What was read back before is kept.
SameSeen(e, f) == e.seen = f.seen /\ e.seenRules = f.seenRules

LEMMA NoneRead == DOMAIN << >> = {}
OBVIOUS

SetPull(r, p, left, pc) ==
  run' = [run EXCEPT ![r].pull = p, ![r].left = left, ![r].pc = pc]

LEMMA PullEffect ==
  ASSUME Shape, NEW r \in Run, NEW p, NEW left, NEW pc,
         SetPull(r, p, left, pc)
  PROVE  /\ OwnStep(r) /\ run'[r].pull = p /\ run'[r].left = left /\ run'[r].pc = pc
         /\ <<run'[r].checks, run'[r].sha, run'[r].proven>> = <<run[r].checks, run[r].sha, run[r].proven>>
         /\ SameSeen(run'[r], run[r])
<1>1. r \in DOMAIN run /\ run[r] = Fields(run[r])
  BY RunShape
<1>2. run' = [run EXCEPT ![r] = run'[r]]
  BY <1>1 DEF SetPull
<1>3. run'[r] = Fields(run'[r])
  BY <1>1 DEF Fields, SetPull
<1>4. /\ run'[r].pull = p /\ run'[r].left = left /\ run'[r].pc = pc
      /\ <<run'[r].checks, run'[r].sha, run'[r].proven>> = <<run[r].checks, run[r].sha, run[r].proven>>
      /\ SameSeen(run'[r], run[r])
  BY <1>1 DEF Fields, SetPull, SameSeen
<1> QED
  BY <1>2, <1>3, <1>4, Updated

SetChecks(r, checks, left, pc) ==
  run' = [run EXCEPT ![r].checks = checks, ![r].left = left, ![r].pc = pc]

LEMMA ChecksEffect ==
  ASSUME Shape, NEW r \in Run, NEW checks, NEW left, NEW pc,
         SetChecks(r, checks, left, pc)
  PROVE  /\ OwnStep(r) /\ run'[r].checks = checks /\ run'[r].left = left /\ run'[r].pc = pc
         /\ <<run'[r].pull, run'[r].sha, run'[r].proven>> = <<run[r].pull, run[r].sha, run[r].proven>>
         /\ SameSeen(run'[r], run[r])
<1>1. r \in DOMAIN run /\ run[r] = Fields(run[r])
  BY RunShape
<1>2. run' = [run EXCEPT ![r] = run'[r]]
  BY <1>1 DEF SetChecks
<1>3. run'[r] = Fields(run'[r])
  BY <1>1 DEF Fields, SetChecks
<1>4. /\ run'[r].checks = checks /\ run'[r].left = left /\ run'[r].pc = pc
      /\ <<run'[r].pull, run'[r].sha, run'[r].proven>> = <<run[r].pull, run[r].sha, run[r].proven>>
      /\ SameSeen(run'[r], run[r])
  BY <1>1 DEF Fields, SetChecks, SameSeen
<1> QED
  BY <1>2, <1>3, <1>4, Updated

SetResults(r, sha, proven, p, pc) ==
  run' = [run EXCEPT ![r].sha = sha, ![r].proven = proven, ![r].pull = p, ![r].checks = << >>, ![r].pc = pc]

LEMMA ResultsEffect ==
  ASSUME Shape, NEW r \in Run, NEW sha, NEW proven, NEW p, NEW pc,
         SetResults(r, sha, proven, p, pc)
  PROVE  /\ OwnStep(r) /\ run'[r].sha = sha /\ run'[r].proven = proven /\ run'[r].checks = << >>
         /\ run'[r].pc = pc
         /\ run'[r].left = run[r].left
         /\ SameSeen(run'[r], run[r])
<1>1. r \in DOMAIN run /\ run[r] = Fields(run[r])
  BY RunShape
<1>2. run' = [run EXCEPT ![r] = run'[r]]
  BY <1>1 DEF SetResults
<1>3. run'[r] = Fields(run'[r])
  BY <1>1 DEF Fields, SetResults
<1>4. /\ run'[r].sha = sha /\ run'[r].proven = proven /\ run'[r].checks = << >>
         /\ run'[r].pc = pc
      /\ run'[r].left = run[r].left
      /\ SameSeen(run'[r], run[r])
  BY <1>1 DEF Fields, SetResults, SameSeen
<1> QED
  BY <1>2, <1>3, <1>4, Updated

SetPrevious(r, id, pc) ==
  run' = [run EXCEPT ![r].previous = id, ![r].pc = pc]

LEMMA ConflictsEffect ==
  ASSUME Shape, NEW r \in Run, NEW id, NEW pc,
         SetPrevious(r, id, pc)
  PROVE  /\ OwnStep(r) /\ run'[r].previous = id /\ run'[r].pc = pc
         /\ <<run'[r].checks, run'[r].sha, run'[r].proven>> = <<run[r].checks, run[r].sha, run[r].proven>>
         /\ SameSeen(run'[r], run[r])
<1>1. r \in DOMAIN run /\ run[r] = Fields(run[r])
  BY RunShape
<1>2. run' = [run EXCEPT ![r] = run'[r]]
  BY <1>1 DEF SetPrevious
<1>3. run'[r] = Fields(run'[r])
  BY <1>1 DEF Fields, SetPrevious
<1>4. /\ run'[r].previous = id /\ run'[r].pc = pc
      /\ <<run'[r].checks, run'[r].sha, run'[r].proven>> = <<run[r].checks, run[r].sha, run[r].proven>>
      /\ SameSeen(run'[r], run[r])
  BY <1>1 DEF Fields, SetPrevious, SameSeen
<1> QED
  BY <1>2, <1>3, <1>4, Updated

SetLeft(r, left, pc) ==
  run' = [run EXCEPT ![r].left = left, ![r].pc = pc]

LEMMA ListEffect ==
  ASSUME Shape, NEW r \in Run, NEW left, NEW pc,
         SetLeft(r, left, pc)
  PROVE  /\ OwnStep(r) /\ run'[r].pc = pc
         /\ <<run'[r].checks, run'[r].sha, run'[r].proven>> = <<run[r].checks, run[r].sha, run[r].proven>>
         /\ run'[r].left = left /\ SameSeen(run'[r], run[r])
<1>1. r \in DOMAIN run /\ run[r] = Fields(run[r])
  BY RunShape
<1>2. run' = [run EXCEPT ![r] = run'[r]]
  BY <1>1 DEF SetLeft
<1>3. run'[r] = Fields(run'[r])
  BY <1>1 DEF Fields, SetLeft
<1>4. /\ run'[r].pc = pc
      /\ <<run'[r].checks, run'[r].sha, run'[r].proven>> = <<run[r].checks, run[r].sha, run[r].proven>>
      /\ run'[r].left = left /\ SameSeen(run'[r], run[r])
  BY <1>1 DEF Fields, SetLeft, SameSeen
<1> QED
  BY <1>2, <1>3, <1>4, Updated

SetDetails(r, seen, left, pc) ==
  run' = [run EXCEPT ![r].seenRules = seen, ![r].left = left, ![r].pc = pc]

LEMMA DetailsEffect ==
  ASSUME Shape, NEW r \in Run, NEW seen, NEW left, NEW pc,
         SetDetails(r, seen, left, pc)
  PROVE  /\ OwnStep(r) /\ run'[r].pc = pc
         /\ <<run'[r].checks, run'[r].sha, run'[r].proven>> = <<run[r].checks, run[r].sha, run[r].proven>>
         /\ <<run'[r].seenRules, run'[r].left, run'[r].seen>> = <<seen, left, run[r].seen>>
<1>1. r \in DOMAIN run /\ run[r] = Fields(run[r])
  BY RunShape
<1>2. run' = [run EXCEPT ![r] = run'[r]]
  BY <1>1 DEF SetDetails
<1>3. run'[r] = Fields(run'[r])
  BY <1>1 DEF Fields, SetDetails
<1>4. /\ run'[r].pc = pc
      /\ <<run'[r].checks, run'[r].sha, run'[r].proven>> = <<run[r].checks, run[r].sha, run[r].proven>>
      /\ <<run'[r].seenRules, run'[r].left, run'[r].seen>> = <<seen, left, run[r].seen>>
  BY <1>1 DEF Fields, SetDetails
<1> QED
  BY <1>2, <1>3, <1>4, Updated

SetSeen(r, seen, pc) ==
  run' = [run EXCEPT ![r].seen = seen, ![r].pc = pc]

LEMMA SettingsEffect ==
  ASSUME Shape, NEW r \in Run, NEW seen, NEW pc,
         SetSeen(r, seen, pc)
  PROVE  /\ OwnStep(r) /\ run'[r].pc = pc
         /\ <<run'[r].checks, run'[r].sha, run'[r].proven>> = <<run[r].checks, run[r].sha, run[r].proven>>
         /\ <<run'[r].seen, run'[r].seenRules>> = <<seen, run[r].seenRules>>
<1>1. r \in DOMAIN run /\ run[r] = Fields(run[r])
  BY RunShape
<1>2. run' = [run EXCEPT ![r] = run'[r]]
  BY <1>1 DEF SetSeen
<1>3. run'[r] = Fields(run'[r])
  BY <1>1 DEF Fields, SetSeen
<1>4. /\ run'[r].pc = pc
      /\ <<run'[r].checks, run'[r].sha, run'[r].proven>> = <<run[r].checks, run[r].sha, run[r].proven>>
      /\ <<run'[r].seen, run'[r].seenRules>> = <<seen, run[r].seenRules>>
  BY <1>1 DEF Fields, SetSeen
<1> QED
  BY <1>2, <1>3, <1>4, Updated

Begin(r, stage) == run' = [run EXCEPT ![r] = [Idle EXCEPT !.pc = "pull", !.stage = stage]]

LEMMA BeginEffect ==
  ASSUME Shape, NEW r \in Run, NEW stage, Begin(r, stage)
  PROVE  OwnStep(r) /\ Fresh(run'[r], "pull")
<1>1. r \in DOMAIN run
  BY RunShape
<1>2. run'[r] = [Idle EXCEPT !.pc = "pull", !.stage = stage]
  BY <1>1 DEF Begin
<1>3. Fresh(run'[r], "pull")
  BY <1>2 DEF Idle, Fresh, Fields
<1>4. run' = [run EXCEPT ![r] = run'[r]]
  BY <1>1, <1>2 DEF Begin
<1> QED
  BY <1>3, <1>4, Updated DEF Fresh

Accept(r) ==
  run' = [run EXCEPT ![r] = [Idle EXCEPT !.pc = "0", !.sha = run[r].sha]]

LEMMA AcceptEffect ==
  ASSUME Shape, NEW r \in Run, Accept(r)
  PROVE  OwnStep(r) /\ Fresh(run'[r], "0") /\ run'[r].sha = run[r].sha
<1>1. r \in DOMAIN run
  BY RunShape
<1>2. run'[r] = [Idle EXCEPT !.pc = "0", !.sha = run[r].sha]
  BY <1>1 DEF Accept
<1>3. Fresh(run'[r], "0") /\ run'[r].sha = run[r].sha
  BY <1>2 DEF Idle, Fresh, Fields
<1>4. run' = [run EXCEPT ![r] = run'[r]]
  BY <1>1, <1>2 DEF Accept
<1> QED
  BY <1>3, <1>4, Updated DEF Fresh

-----------------------------------------------------------------------------
(* The steps of a run, before and after the writes                         *)

Collected(r) == OwnStep(r) /\ Sound(r)' /\ run'[r].pc \in Quiet

LEMMA FreshCollects ==
  ASSUME NEW r \in Run, NEW pc \in {"pull", "1"}, OwnStep(r), Fresh(run'[r], pc)
  PROVE  Collected(r)
BY NoneRead DEF Collected, Fresh, Sound, Asked, Read, Trusted, Reading, Quiet

LEMMA ThrowCollects ==
  ASSUME EvidenceInv, NEW r \in Run, Throw(r)
  PROVE  Collected(r)
BY ThrowEffect, FreshCollects DEF EvidenceInv

LEMMA BeginCollects ==
  ASSUME EvidenceInv, NEW r \in Run, NEW stage, Begin(r, stage)
  PROVE  Collected(r)
BY BeginEffect, FreshCollects DEF EvidenceInv

\* A step that only moves on, once the results are judged.
LEMMA MovesOn ==
  ASSUME EvidenceInv, green \subseteq green', NEW r \in Run, OwnStep(r),
         run'[r].pc \notin {"checks", "again"},
         run[r].pc \notin Reading \/ run'[r].pc \in Reading,
         run'[r].checks = run[r].checks, run'[r].sha = run[r].sha,
         run'[r].proven = run[r].proven
  PROVE  Sound(r)'
<1>1. Read(r) /\ Trusted(r)
  BY DEF EvidenceInv, Sound
<1>2. Asked(r)'
  BY DEF Asked
<1>3. Read(r)'
  BY <1>1 DEF Read, CheckResults
<1>4. Trusted(r)'
  BY <1>1 DEF Trusted
<1> QED
  BY <1>2, <1>3, <1>4 DEF Sound

LEMMA ReadPullCollects ==
  ASSUME EvidenceInv, green \subseteq green', NEW r \in Run, ReadPull(r)
  PROVE  Collected(r)
<1>1. CASE ~pull.open
  BY <1>1, ThrowCollects DEF ReadPull
<1>2. CASE pull.open
  <2>1. /\ OwnStep(r) /\ run'[r].pull = pull /\ run'[r].left = Commits(pull)
        /\ run'[r].pc = "checks" /\ run'[r].checks = run[r].checks
        /\ run'[r].sha = run[r].sha /\ run'[r].proven = run[r].proven
    <3>1. SetPull(r, pull, Commits(pull), "checks")
      BY <1>2 DEF ReadPull, SetPull
    <3> QED
      BY <3>1, PullEffect DEF EvidenceInv
  <2>2. Read(r) /\ Trusted(r) /\ pull \in Pull
    BY DEF EvidenceInv, Sound
  <2>3. Asked(r)'
    BY <2>1, <2>2 DEF Asked, Commits
  <2>4. Read(r)'
    BY <2>1, <2>2 DEF Read, CheckResults
  <2>5. Trusted(r)'
    BY <2>1, <2>2 DEF Trusted, Reading
  <2> QED
    BY <2>1, <2>3, <2>4, <2>5 DEF Collected, Sound, Quiet, Reading
<1> QED
  BY <1>1, <1>2

LEMMA ReadChecksCollects ==
  ASSUME EvidenceInv, green \subseteq green', NEW r \in Run, ReadChecks(r)
  PROVE  Collected(r)
<1> DEFINE p == run[r].pull
           c == IF p.merge \in run[r].left THEN p.merge ELSE p.head
           pc == IF run[r].left = {c} THEN "again" ELSE "checks"
           checks == With(run[r].checks, c, ci[c])
<1>1. /\ run[r].pc = "checks"
      /\ SetChecks(r, checks, run[r].left \ {c}, pc)
  <2>1. r \in DOMAIN run
    BY RunShape DEF EvidenceInv
  <2> QED
    BY <2>1 DEF ReadChecks, At, SetChecks
<1>2. /\ Read(r) /\ Trusted(r) /\ p \in Pull /\ run[r].left \subseteq Commits(p)
      /\ Commits(p) \subseteq run[r].left \cup DOMAIN run[r].checks
  BY <1>1 DEF EvidenceInv, Sound, Asked
<1>3. c \in Commit
  BY <1>2 DEF Pull, Commits, Commit
<1> HIDE DEF c, pc, checks
<1>4. /\ OwnStep(r) /\ run'[r].pc = pc /\ run'[r].checks = checks
      /\ run'[r].left = run[r].left \ {c} /\ run'[r].pull = run[r].pull
      /\ run'[r].sha = run[r].sha /\ run'[r].proven = run[r].proven
  BY <1>1, ChecksEffect DEF EvidenceInv
<1>5. /\ DOMAIN checks = DOMAIN run[r].checks \cup {c}
      /\ \A d \in DOMAIN checks : checks[d] = IF d = c THEN ci[c] ELSE run[r].checks[d]
  BY DEF checks, With
<1>6. Read(r)'
  <2> SUFFICES ASSUME NEW d \in DOMAIN checks, CheckResults(checks, d)
               PROVE  d \in green'
    BY <1>4 DEF Read
  <2>1. CASE d = c
    <3>1. Green(c)
      BY <1>5, <2>1 DEF CheckResults, Green
    <3> QED
      BY <1>3, <2>1, <3>1 DEF EvidenceInv
  <2>2. CASE d # c
    <3>1. CheckResults(run[r].checks, d)
      BY <1>5, <2>2 DEF CheckResults
    <3> QED
      BY <1>2, <1>5, <2>2, <3>1 DEF Read
  <2> QED
    BY <2>1, <2>2
<1>7. Trusted(r)'
  BY <1>1, <1>2, <1>4 DEF Trusted, Reading, pc
<1>8. Asked(r)'
  BY <1>2, <1>4, <1>5 DEF Asked, pc
<1> QED
  BY <1>4, <1>6, <1>7, <1>8 DEF Collected, Sound, Quiet, Reading, pc

LEMMA ReadAgainCollects ==
  ASSUME EvidenceInv, green \subseteq green', NEW r \in Run, ReadAgain(r)
  PROVE  Collected(r)
<1> DEFINE p == run[r].pull
           sha == Tested(p, run[r].checks)
           proven == CheckResults(run[r].checks, sha)
           pc == IF run[r].stage = "evidence" THEN "repository" ELSE "rulesets"
           lost == \/ pull.head # p.head \/ pull.merge # p.merge
                   \/ run[r].stage = "evidence" /\ ~proven
<1>1. CASE lost
  BY <1>1, ThrowCollects DEF ReadAgain
<1>2. CASE ~lost
  <2>1. /\ run[r].pc = "again"
        /\ SetResults(r, sha, proven /\ ~p.auto, None, pc)
    BY <1>2 DEF ReadAgain, At, SetResults
  <2>2. run[r].stage = "evidence" => proven
    BY <1>2
  <2>3. /\ Read(r) /\ Trusted(r) /\ p \in Pull /\ Commits(p) \subseteq DOMAIN run[r].checks
    BY <2>1 DEF EvidenceInv, Sound, Asked
  <2>4. sha \in Commits(p)
    <3>1. p.head # None
      BY <2>3, RepositoryAssumption DEF Pull
    <3>2. sha \in {p.head, p.merge} /\ sha # None
      BY <3>1 DEF Tested
    <3> QED
      BY <3>2 DEF Commits
  <2>5. proven => sha \in green'
    BY <2>3, <2>4 DEF Read
  <2> HIDE DEF sha, proven, pc, lost
  <2>6. /\ OwnStep(r) /\ run'[r].pc = pc /\ run'[r].checks = << >>
        /\ run'[r].sha = sha /\ run'[r].proven = (proven /\ ~p.auto)
    BY <2>1, ResultsEffect DEF EvidenceInv
  <2>7. Asked(r)' /\ Read(r)'
    BY <2>6, NoneRead DEF Asked, Read, pc
  <2>8. Trusted(r)'
    BY <2>2, <2>5, <2>6 DEF Trusted, Reading, pc
  <2> QED
    BY <2>6, <2>7, <2>8 DEF Collected, Sound, Quiet, Reading, pc
<1> QED
  BY <1>1, <1>2

LEMMA ReadRepositoryCollects ==
  ASSUME EvidenceInv, green \subseteq green', NEW r \in Run, ReadRepository(r)
  PROVE  Collected(r)
<1>1. run[r].pc = "repository" /\ (Throw(r) \/ Go(r, "conflicts"))
  BY DEF ReadRepository, At
<1>2. CASE Go(r, "conflicts")
  <2>1. /\ OwnStep(r) /\ run'[r].pc = "conflicts" /\ run'[r].checks = run[r].checks
        /\ run'[r].sha = run[r].sha /\ run'[r].proven = run[r].proven
    BY <1>2, GoEffect DEF EvidenceInv, Locals
  <2> QED
    BY <1>1, <2>1, MovesOn DEF Collected, Reading, Quiet
<1> QED
  BY <1>1, <1>2, ThrowCollects

LEMMA ReadBackCollects ==
  ASSUME EvidenceInv, NEW r \in Run, ReadBack(r)
  PROVE  Collected(r)
<1>1. Begin(r, "readback")
  BY DEF ReadBack, Begin
<1> QED
  BY <1>1, BeginCollects

LEMMA StartCollects ==
  ASSUME EvidenceInv, NEW r \in Run, Start(r)
  PROVE  Collected(r)
<1>1. PICK stage : Begin(r, stage)
  BY DEF Start, Begin
<1> QED
  BY <1>1, BeginCollects

LEMMA ListRulesetsCollects ==
  ASSUME EvidenceInv, green \subseteq green', NEW r \in Run, ListRulesets(r)
  PROVE  Collected(r)
<1> DEFINE pc == IF DOMAIN rules = {} THEN "settings" ELSE "details"
<1>1. SetLeft(r, DOMAIN rules, pc)
  BY DEF ListRulesets, SetLeft
<1> HIDE DEF pc
<1>2. /\ OwnStep(r) /\ run'[r].pc = pc /\ run'[r].checks = run[r].checks
      /\ run'[r].sha = run[r].sha /\ run'[r].proven = run[r].proven
  BY <1>1, ListEffect DEF EvidenceInv
<1>3. run'[r].pc \in {"settings", "details"}
  BY <1>2 DEF pc
<1> QED
  BY <1>2, <1>3, MovesOn DEF Collected, Reading, Quiet

LEMMA ReadRulesetCollects ==
  ASSUME EvidenceInv, green \subseteq green', NEW r \in Run, ReadRuleset(r)
  PROVE  Collected(r)
<1> DEFINE pc(i) == IF run[r].left = {i} THEN "settings" ELSE "details"
<1>1. PICK i \in run[r].left :
        \/ Throw(r)
        \/ SetDetails(r, With(run[r].seenRules, i, rules[i]), run[r].left \ {i}, pc(i))
  <2>1. r \in DOMAIN run
    BY RunShape DEF EvidenceInv
  <2> QED
    BY <2>1 DEF ReadRuleset, SetDetails
<1>2. CASE ~Throw(r)
  <2> HIDE DEF pc
  <2>1. /\ OwnStep(r) /\ run'[r].pc = pc(i) /\ run'[r].checks = run[r].checks
        /\ run'[r].sha = run[r].sha /\ run'[r].proven = run[r].proven
    BY <1>1, <1>2, DetailsEffect DEF EvidenceInv
  <2>2. run'[r].pc \in {"settings", "details"}
    BY <2>1 DEF pc
  <2> QED
    BY <2>1, <2>2, MovesOn DEF Collected, Reading, Quiet
<1> QED
  BY <1>2, ThrowCollects

LEMMA ReadSettingsCollects ==
  ASSUME EvidenceInv, green \subseteq green', NEW r \in Run, ReadSettings(r)
  PROVE  Collected(r)
<1>1. PICK seen, pc : SetSeen(r, seen, pc) /\ pc \in {"verify", "settings"}
  <2>1. r \in DOMAIN run
    BY RunShape DEF EvidenceInv
  <2> DEFINE n == Min(Unread(r))
             now == Reads[n] \cap Setting
             seen == [s \in now \cup DOMAIN run[r].seen |->
                        IF s \in now THEN settings[s] ELSE run[r].seen[s]]
             pc == IF Unread(r) = {n} THEN "verify" ELSE "settings"
  <2>2. SetSeen(r, seen, pc)
    BY <2>1 DEF ReadSettings, SetSeen
  <2>3. pc \in {"verify", "settings"}
    OBVIOUS
  <2> QED
    BY <2>2, <2>3
<1>2. /\ OwnStep(r) /\ run'[r].pc = pc /\ run'[r].checks = run[r].checks
      /\ run'[r].sha = run[r].sha /\ run'[r].proven = run[r].proven
  BY <1>1, SettingsEffect DEF EvidenceInv
<1> QED
  BY <1>1, <1>2, MovesOn DEF Collected, Reading, Quiet

LEMMA VerifyCollects ==
  ASSUME EvidenceInv, green \subseteq green', NEW r \in Run, Verify(r)
  PROVE  Collected(r)
<1>1. Throw(r) \/ (run[r].proven /\ Accept(r))
  BY DEF Verify, Accept
<1>2. CASE run[r].proven /\ Accept(r)
  <2>1. OwnStep(r) /\ Fresh(run'[r], "0") /\ run'[r].sha = run[r].sha
    BY <1>2, AcceptEffect DEF EvidenceInv
  <2>2. run[r].sha \in green'
    BY <1>2 DEF EvidenceInv, Sound, Trusted
  <2>3. Sound(r)'
    BY <2>1, <2>2, NoneRead DEF Fresh, Sound, Asked, Read, Trusted
  <2> QED
    BY <2>1, <2>3 DEF Collected, Fresh, Quiet
<1> QED
  BY <1>1, <1>2, ThrowCollects

-----------------------------------------------------------------------------
(* The writes                                                              *)

LEMMA WrittenNames ==
  Written \subseteq {"actions", "selected actions", "workflow", "auto-merge", "alerts", "updates"}
<1>1. DOMAIN AllWritten = 1..6
  BY DEF AllWritten
<1>2. \A i \in 1..6 : AllWritten[i] \in
        {"actions", "selected actions", "workflow", "auto-merge", "alerts", "updates"}
  <2>1. /\ AllWritten[1] = "actions" /\ AllWritten[2] = "selected actions"
        /\ AllWritten[3] = "workflow" /\ AllWritten[4] = "auto-merge"
        /\ AllWritten[5] = "alerts" /\ AllWritten[6] = "updates"
    BY DEF AllWritten
  <2>2. \A i \in 1..6 : i = 1 \/ i = 2 \/ i = 3 \/ i = 4 \/ i = 5 \/ i = 6
    OBVIOUS
  <2> QED
    BY <2>1, <2>2
<1> QED
  BY <1>1, <1>2, RepositoryAssumption DEF Range

LEMMA LeastOfSix ==
  ASSUME NEW S, S \subseteq 1..6, S # {}
  PROVE  \E i \in S : \A j \in S : i <= j
<1>1. CASE 1 \in S
  BY <1>1
<1>2. CASE 1 \notin S /\ 2 \in S
  BY <1>2
<1>3. CASE 1 \notin S /\ 2 \notin S /\ 3 \in S
  BY <1>3
<1>4. CASE 1 \notin S /\ 2 \notin S /\ 3 \notin S /\ 4 \in S
  BY <1>4
<1>5. CASE S \cap {1, 2, 3, 4} = {}
  <2>1. \A i \in S : i = 5 \/ i = 6
    BY <1>5
  <2>2. CASE 5 \in S
    BY <2>1, <2>2
  <2>3. CASE 5 \notin S
    <3>1. PICK i \in S : TRUE
      OBVIOUS
    <3>2. \A j \in S : i <= j
      BY <2>1, <2>3, <3>1
    <3> QED
      BY <3>1, <3>2
  <2> QED
    BY <2>2, <2>3
<1> QED
  BY <1>1, <1>2, <1>3, <1>4, <1>5

LEMMA FollowingIs ==
  ASSUME NEW n
  PROVE  Following(n) \in Written \cup {"ruleset"}
<1> DEFINE later == {i \in DOMAIN AllWritten : i > n /\ AllWritten[i] \in Written}
<1>1. CASE later # {}
  <2>1. later \subseteq 1..6
    <3>1. DOMAIN AllWritten = 1..6
      BY DEF AllWritten
    <3> QED
      BY <3>1
  <2>2. \E i \in later : \A j \in later : i <= j
    BY <1>1, <2>1, LeastOfSix
  <2>3. Min(later) \in later
    BY <2>2 DEF Min
  <2> QED
    BY <1>1, <2>3 DEF Following
<1> QED
  BY <1>1 DEF Following

LEMMA WritingIsDecided == (Written \cup {"ruleset", "0"}) \cap Reading = {}
BY WrittenNames DEF Reading

\* A step among the writes leaves to the next one, or ends the run.
LEMMA DoneKeepsEvidence ==
  ASSUME EvidenceInv, green \subseteq green', NEW r \in Run, NEW pc, Done(r, pc),
         run[r].pc \notin Reading, pc \notin {"checks", "again"}
  PROVE  OwnStep(r) /\ Sound(r)'
<1>1. CASE Throw(r)
  BY <1>1, ThrowCollects DEF Collected
<1>2. CASE Go(r, pc)
  <2>1. /\ OwnStep(r) /\ run'[r].pc = pc /\ run'[r].checks = run[r].checks
        /\ run'[r].sha = run[r].sha /\ run'[r].proven = run[r].proven
    BY <1>2, GoEffect DEF EvidenceInv, Locals
  <2> QED
    BY <2>1, MovesOn
<1> QED
  BY <1>1, <1>2 DEF Done

LEMMA CheckConflictsKeeps ==
  ASSUME EvidenceInv, green \subseteq green', NEW r \in Run, CheckConflicts(r)
  PROVE  OwnStep(r) /\ Sound(r)'
<1>1. /\ run[r].pc = "conflicts"
      /\ Throw(r) \/ SetPrevious(r, Previous(rules), Following(0))
  BY DEF CheckConflicts, SetPrevious, At
<1>2. CASE SetPrevious(r, Previous(rules), Following(0))
  <2>1. /\ OwnStep(r) /\ run'[r].pc = Following(0) /\ run'[r].checks = run[r].checks
        /\ run'[r].sha = run[r].sha /\ run'[r].proven = run[r].proven
    BY <1>2, ConflictsEffect DEF EvidenceInv
  <2>2. run[r].pc \notin Reading /\ run'[r].pc \notin {"checks", "again"}
    BY <1>1, <2>1, FollowingIs, WritingIsDecided DEF Reading
  <2> QED
    BY <2>1, <2>2, MovesOn
<1> QED
  BY <1>1, <1>2, ThrowCollects DEF Collected

LEMMA WriteSettingKeeps ==
  ASSUME EvidenceInv, green \subseteq green', NEW r \in Run, WriteSetting(r)
  PROVE  OwnStep(r) /\ Sound(r)'
<1>1. run[r].pc \in Written /\ Done(r, After(run[r].pc))
  BY DEF WriteSetting
<1>2. run[r].pc \notin Reading /\ After(run[r].pc) \notin {"checks", "again"}
  BY <1>1, FollowingIs, WritingIsDecided DEF After, Reading
<1> QED
  BY <1>1, <1>2, DoneKeepsEvidence

LEMMA WriteRulesetKeeps ==
  ASSUME EvidenceInv, green \subseteq green', NEW r \in Run, WriteRuleset(r)
  PROVE  OwnStep(r) /\ Sound(r)'
<1>1. run[r].pc = "ruleset" /\ (Done(r, "read back") \/ Throw(r))
  BY DEF WriteRuleset, At
<1>2. run[r].pc \notin Reading
  BY <1>1 DEF Reading
<1> QED
  BY <1>1, <1>2, DoneKeepsEvidence, ThrowCollects DEF Collected

-----------------------------------------------------------------------------
(* Every step                                                              *)

LEMMA StepKeepsSound ==
  ASSUME EvidenceInv, green \subseteq green', NEW r \in Run, Step(r) \/ Start(r)
  PROVE  OwnStep(r) /\ Sound(r)'
<1>1. CASE Start(r) \/ Fail(r) \/ ReadBack(r)
  BY <1>1, StartCollects, ThrowCollects, ReadBackCollects DEF Collected, Fail
<1>2. CASE ReadPull(r) \/ ReadChecks(r) \/ ReadAgain(r) \/ ReadRepository(r)
  BY <1>2, ReadPullCollects, ReadChecksCollects, ReadAgainCollects,
     ReadRepositoryCollects DEF Collected
<1>3. CASE ListRulesets(r) \/ ReadRuleset(r) \/ ReadSettings(r) \/ Verify(r)
  BY <1>3, ListRulesetsCollects, ReadRulesetCollects, ReadSettingsCollects,
     VerifyCollects DEF Collected
<1> QED
  BY <1>1, <1>2, <1>3, CheckConflictsKeeps, WriteSettingKeeps, WriteRulesetKeeps DEF Step

LEMMA WorldKeepsPull ==
  ASSUME pull \in Pull, World
  PROVE  pull' \in Pull
BY DEF World, Ci, ChangePull, ChangeSetting, ChangeRuleset, Pull

LEMMA InitEvidence == Init => EvidenceInv
<1> SUFFICES ASSUME Init PROVE EvidenceInv
  OBVIOUS
<1>1. \A r \in Run : Fresh(run[r], "idle")
  BY DEF Init, Idle, Fresh, Fields
<1>2. Shape
  BY <1>1 DEF Init, Shape, Fresh
<1>3. \A r \in Run : Sound(r)
  BY <1>1, NoneRead DEF Fresh, Sound, Asked, Read, Trusted, Reading
<1> QED
  BY <1>2, <1>3 DEF Init, RepositoryInit, EvidenceInv

LEMMA NextEvidence == EvidenceInv /\ [Next]_vars => EvidenceInv'
<1> SUFFICES ASSUME EvidenceInv, [Next]_vars PROVE EvidenceInv'
  OBVIOUS
<1>1. CASE UNCHANGED vars
  BY <1>1 DEF vars, repository, EvidenceInv, Shape, Sound, Asked, Read, Trusted, Green,
              Commits, CheckResults
<1>2. CASE Next
  <2>1. green \subseteq green' /\ ({c \in Commit : Green(c)} \subseteq green)'
    BY <1>2 DEF Next, History
  <2>2. ASSUME NEW o \in Run, run'[o] = run[o]
        PROVE  Sound(o)'
    <3>1. Asked(o) /\ Read(o) /\ Trusted(o)
      BY DEF EvidenceInv, Sound
    <3> QED
      BY <2>1, <2>2, <3>1 DEF Sound, Asked, Read, Trusted
  <2>3. CASE World /\ UNCHANGED run
    BY <2>1, <2>2, <2>3, WorldKeepsPull DEF EvidenceInv, Shape
  <2>4. ASSUME NEW r \in Run, Step(r) \/ Start(r)
        PROVE  EvidenceInv'
    <3>1. OwnStep(r) /\ Sound(r)'
      BY <2>1, <2>4, StepKeepsSound
    <3>2. \A o \in Run : Sound(o)'
      BY <2>2, <3>1 DEF OwnStep
    <3>3. pull' = pull
      BY <2>4 DEF Start, Step, ReadPull, ReadChecks, ReadAgain, ReadRepository,
         CheckConflicts, WriteSetting, WriteRuleset, ReadBack, ListRulesets, ReadRuleset,
         ReadSettings, Verify, Fail, repository
    <3> QED
      BY <2>1, <3>1, <3>2, <3>3 DEF EvidenceInv, OwnStep
  <2> QED
    BY <1>2, <2>3, <2>4 DEF Next
<1> QED
  BY <1>1, <1>2

\* The evidence a run has collected stays evidence (repository-policy.mjs,
\* results): it was read of one commit at one time.
THEOREM EvidenceInvariant == Spec => []EvidenceInv
BY InitEvidence, NextEvidence, PTL DEF Spec

\* No setting and no ruleset is written, and no policy accepted, but on a commit
\* whose jobs had succeeded (repository-policy.mjs, apply and verify).
THEOREM AlwaysEvidenceFirst == Spec => []EvidenceFirst
<1>1. EvidenceInv => EvidenceFirst
  BY WritingIsDecided DEF EvidenceInv, Sound, Trusted, EvidenceFirst
<1> QED
  BY <1>1, EvidenceInvariant, PTL

-----------------------------------------------------------------------------
(* The ruleset is found again                                              *)

\* Only the step that writes it touches the rulesets, only the two before it
\* can lead there.
LEMMA QuietSteps ==
  ASSUME EvidenceInv, green \subseteq green', NEW r \in Run, Step(r) \/ Start(r),
         ~CheckConflicts(r), ~WriteSetting(r), ~WriteRuleset(r)
  PROVE  run'[r].pc \in Quiet /\ UNCHANGED <<rules, ids>>
<1>1. CASE Start(r) \/ Fail(r) \/ ReadBack(r)
  BY <1>1, StartCollects, ThrowCollects, ReadBackCollects
     DEF Collected, Start, Fail, ReadBack, repository
<1>2. CASE ReadPull(r) \/ ReadChecks(r) \/ ReadAgain(r) \/ ReadRepository(r)
  BY <1>2, ReadPullCollects, ReadChecksCollects, ReadAgainCollects, ReadRepositoryCollects
     DEF Collected, ReadPull, ReadChecks, ReadAgain, ReadRepository, repository
<1>3. CASE ListRulesets(r) \/ ReadRuleset(r) \/ ReadSettings(r) \/ Verify(r)
  BY <1>3, ListRulesetsCollects, ReadRulesetCollects, ReadSettingsCollects, VerifyCollects
     DEF Collected, ListRulesets, ReadRuleset, ReadSettings, Verify, repository
<1> QED
  BY <1>1, <1>2, <1>3 DEF Step

One == \A i, j \in Named(rules) : i = j

LEMMA CheckConflictsFinds ==
  ASSUME EvidenceInv, RulesetInv, One, NEW r \in Run, CheckConflicts(r)
  PROVE  Found(r)' /\ UNCHANGED <<rules, ids>>
<1>1. /\ UNCHANGED <<rules, ids>>
      /\ Throw(r) \/ SetPrevious(r, Previous(rules), Following(0))
  BY DEF CheckConflicts, SetPrevious, repository
<1>2. CASE Throw(r)
  BY <1>1, <1>2, ThrowCollects DEF Collected, Found
<1>3. CASE SetPrevious(r, Previous(rules), Following(0))
  <2>1. run'[r].previous = Previous(rules)
    BY <1>3, ConflictsEffect DEF EvidenceInv
  <2>2. CASE Named(rules) = {}
    BY <1>1, <2>1, <2>2 DEF Found, Previous, Named
  <2>3. CASE Named(rules) # {}
    <3>1. Previous(rules) \in Named(rules)
      BY <2>3 DEF Previous
    <3>2. Previous(rules) # 0
      BY <3>1 DEF RulesetInv, Named
    <3>3. Named(rules) = {Previous(rules)}
      BY <3>1 DEF One
    <3> QED
      BY <1>1, <2>1, <3>2, <3>3 DEF Found, Named
  <2> QED
    BY <2>2, <2>3
<1> QED
  BY <1>1, <1>2, <1>3

LEMMA WriteSettingFinds ==
  ASSUME EvidenceInv, NEW r \in Run, Found(r), WriteSetting(r)
  PROVE  Found(r)' /\ UNCHANGED <<rules, ids>>
<1>1. /\ UNCHANGED <<rules, ids>> /\ run[r].pc \in Written
      /\ Throw(r) \/ Go(r, After(run[r].pc))
  BY DEF WriteSetting, Done
<1>2. CASE Throw(r)
  BY <1>1, <1>2, ThrowCollects DEF Collected, Found
<1>3. CASE Go(r, After(run[r].pc))
  <2>1. run'[r].previous = run[r].previous
    BY <1>3, GoEffect DEF EvidenceInv, Locals
  <2>2. run[r].pc \notin Quiet
    BY <1>1, WrittenNames DEF Quiet, Reading
  <2> QED
    BY <1>1, <2>1, <2>2 DEF Found, Named
<1> QED
  BY <1>1, <1>2, <1>3

LEMMA WriteRulesetKeepsIds ==
  ASSUME RulesetInv, NEW r \in Run, WriteRuleset(r)
  PROVE  ids' \in Nat /\ DOMAIN rules' \subseteq 1..ids'
<1>1. ids \in Nat /\ DOMAIN rules \subseteq 1..ids
  BY DEF RulesetInv
<1>2. CASE ids' = ids /\ DOMAIN rules' = DOMAIN rules
  BY <1>1, <1>2
<1>3. CASE ids' = ids + 1 /\ rules' = With(rules, ids', Policy)
  <2>1. DOMAIN rules' = DOMAIN rules \cup {ids + 1}
    BY <1>3 DEF With
  <2> QED
    BY <1>1, <1>3, <2>1
<1> QED
  BY <1>2, <1>3 DEF WriteRuleset

LEMMA WriteRulesetFinds ==
  ASSUME EvidenceInv, RulesetInv, One, NEW r \in Run, Found(r), WriteRuleset(r)
  PROVE  One' /\ run'[r].pc \in Quiet
<1> DEFINE id == run[r].previous
<1>1. run[r].pc = "ruleset"
  BY DEF WriteRuleset, At
<1>2. run'[r].pc \in Quiet
  <2>1. CASE Throw(r)
    BY <2>1, ThrowCollects DEF Collected
  <2>2. CASE Go(r, "read back")
    BY <2>2, GoEffect DEF EvidenceInv, Quiet, Reading
  <2> QED
    BY <2>1, <2>2 DEF WriteRuleset, Done
<1>3. Named(rules) = IF id = 0 THEN {} ELSE {id}
  BY <1>1 DEF Found, Quiet, Reading
<1>4. CASE id \in DOMAIN rules /\ rules' = [rules EXCEPT ![id] = Policy]
  <2>1. \A i \in Named(rules') : i \in Named(rules) \cup {id}
    BY <1>4 DEF Named
  <2>2. id # 0
    BY <1>4 DEF RulesetInv
  <2> QED
    BY <1>2, <1>3, <2>1, <2>2 DEF One
<1>5. CASE id = 0 /\ rules' = With(rules, ids', Policy)
  <2>1. \A i \in Named(rules') : i \in Named(rules) \cup {ids'}
    BY <1>5 DEF Named, With
  <2> QED
    BY <1>2, <1>3, <1>5, <2>1 DEF One
<1>6. CASE rules' = rules
  BY <1>2, <1>6 DEF One, Named
<1> QED
  BY <1>4, <1>5, <1>6 DEF WriteRuleset

LEMMA WorldKeepsIds ==
  ASSUME RulesetInv, World
  PROVE  ids' \in Nat /\ DOMAIN rules' \subseteq 1..ids'
<1>1. ids \in Nat /\ DOMAIN rules \subseteq 1..ids
  BY DEF RulesetInv
<1>2. CASE Ci \/ ChangePull \/ ChangeSetting
  BY <1>1, <1>2 DEF Ci, ChangePull, ChangeSetting
<1>3. CASE ChangeRuleset
  <2>1. CASE ids' = ids + 1 /\ \E k \in Ruleset : rules' = With(rules, ids', k)
    <3>1. DOMAIN rules' = DOMAIN rules \cup {ids + 1}
      BY <2>1 DEF With
    <3> QED
      BY <1>1, <2>1, <3>1
  <2>2. CASE ids' = ids /\ DOMAIN rules' \subseteq DOMAIN rules
    BY <1>1, <2>2
  <2> QED
    BY <1>3, <2>1, <2>2 DEF ChangeRuleset, Restrict
<1> QED
  BY <1>2, <1>3 DEF World

LEMMA InitRuleset == Init => RulesetInv
<1> SUFFICES ASSUME Init PROVE RulesetInv
  OBVIOUS
<1>1. ids \in Nat /\ DOMAIN rules = 1..ids /\ ids <= 1
  <2>1. PICK n \in 0..1 :
          ids = n /\ rules \in [1..n -> {k \in Ruleset : k.kind = "sandbox-main"}]
    BY DEF Init, RepositoryInit
  <2> QED
    BY <2>1
<1>2. \A r \in Run : run[r].pc = "idle"
  BY DEF Init, Idle
<1>3. \A i, j \in Named(rules) : i = j
  BY <1>1 DEF Named
<1> QED
  BY <1>1, <1>2, <1>3 DEF RulesetInv, Alone, Running, Found, Quiet, Reading

LEMMA NextRuleset == EvidenceInv /\ RulesetInv /\ [Next]_vars => RulesetInv'
<1> SUFFICES ASSUME EvidenceInv, RulesetInv, [Next]_vars PROVE RulesetInv'
  OBVIOUS
<1>1. CASE UNCHANGED vars
  BY <1>1 DEF vars, repository, RulesetInv, Alone, Running, Found, Named
<1>2. CASE Next
  <2>1. /\ Alone' /\ green \subseteq green'
        /\ ~raced' => ~raced /\ (run' = run => rules' = rules)
    BY <1>2 DEF Next, History, Alone
  <2>2. CASE World /\ UNCHANGED run
    <3>1. ~raced' => (One /\ \A r \in Run : Found(r))'
      BY <2>1, <2>2 DEF RulesetInv, One, Found, Named
    <3> QED
      BY <2>1, <2>2, <3>1, WorldKeepsIds DEF RulesetInv, One
  <2>3. ASSUME NEW r \in Run, Step(r) \/ Start(r)
        PROVE  RulesetInv'
    <3>1. \A o \in Run \ {r} : run'[o] = run[o]
      BY <2>1, <2>3, StepKeepsSound DEF OwnStep
    <3>2. ids' \in Nat /\ DOMAIN rules' \subseteq 1..ids'
      BY <2>1, <2>3, WriteRulesetKeepsIds, QuietSteps DEF RulesetInv,
         CheckConflicts, WriteSetting, repository
    <3>3. ASSUME ~raced'
          PROVE  One' /\ \A o \in Run : Found(o)'
      <4>1. One /\ \A o \in Run : Found(o)
        BY <2>1, <3>3 DEF RulesetInv, One
      <4>2. CASE rules' = rules
        <5>1. One' /\ \A o \in Run \ {r} : Found(o)'
          BY <3>1, <4>1, <4>2 DEF One, Found, Named
        <5>2. Found(r)'
          BY <2>1, <2>3, <4>1, CheckConflictsFinds, WriteSettingFinds, WriteRulesetFinds,
             QuietSteps DEF Found
        <5> QED
          BY <5>1, <5>2
      <4>3. CASE rules' # rules
        <5>1. WriteRuleset(r)
          BY <2>1, <2>3, <4>3, QuietSteps DEF CheckConflicts, WriteSetting, repository
        <5>2. One' /\ run'[r].pc \in Quiet
          BY <4>1, <5>1, WriteRulesetFinds
        <5>3. Running(r)
          BY <5>1 DEF WriteRuleset, At, Running, Ended
        <5>4. ASSUME NEW o \in Run \ {r}
              PROVE  run'[o].pc \in Quiet
          <6>1. ~Running(o)
            BY <2>1, <3>3, <5>3 DEF RulesetInv, Alone
          <6> QED
            BY <3>1, <6>1 DEF Running, Ended, Quiet, Reading
        <5> QED
          BY <5>2, <5>4 DEF Found
      <4> QED
        BY <4>2, <4>3
    <3> QED
      BY <2>1, <3>2, <3>3 DEF RulesetInv, One
  <2> QED
    BY <1>2, <2>2, <2>3 DEF Next
<1> QED
  BY <1>1, <1>2

\* As long as one run works at a time and nobody else edits the rulesets, apply
\* finds the ruleset it or an earlier run has made (repository-policy.mjs, apply).
THEOREM RulesetInvariant == Spec => []RulesetInv
BY InitRuleset, NextRuleset, EvidenceInvariant, PTL DEF Spec

\* Then apply, cut short at any call and repeated, never makes a second one.
THEOREM AlwaysRerunUpdates == Spec => []RerunUpdates
<1>1. RulesetInv => RerunUpdates
  <2> SUFFICES ASSUME RulesetInv, ~raced PROVE Cardinality(Named(rules)) <= 1
    BY DEF RerunUpdates
  <2>1. \A i, j \in Named(rules) : i = j
    BY DEF RulesetInv
  <2>2. CASE Named(rules) = {}
    BY <2>2, FS_EmptySet
  <2>3. CASE Named(rules) # {}
    <3>1. PICK i \in Named(rules) : Named(rules) = {i}
      BY <2>1, <2>3
    <3> QED
      BY <3>1, FS_Singleton
  <2> QED
    BY <2>2, <2>3
<1> QED
  BY <1>1, RulesetInvariant, PTL

-----------------------------------------------------------------------------
(* What is read back                                                       *)

Back == {"details", "settings", "verify"}

\* What a run has read back of the settings and of the rulesets is what there is,
\* apart from what has changed since; at the end it has read every setting.
Watched(r) ==
  /\ run[r].pc \notin {"settings", "verify"} => run[r].seen = << >>
  /\ run[r].pc \notin Back => run[r].seenRules = << >>
  /\ DOMAIN run[r].seen \subseteq Setting
  /\ \A s \in DOMAIN run[r].seen \ since[r] : run[r].seen[s] = settings[s]
  /\ run[r].pc = "settings" => Unread(r) # {}
  /\ run[r].pc = "verify" => Unread(r) = {}
  /\ run[r].pc \in Back /\ "rulesets" \notin since[r] =>
       /\ DOMAIN rules = DOMAIN run[r].seenRules
                           \cup {i \in run[r].left : run[r].pc = "details"}
       /\ \A i \in DOMAIN run[r].seenRules : run[r].seenRules[i] = rules[i]

Vouches(r) ==
  At(r, "0") =>
    /\ \A s \in Setting \ since[r] : settings[s] = "reviewed"
    /\ "rulesets" \in since[r] \/ VerifyRulesets(rules)

WatchInv == \A r \in Run : Watched(r) /\ Vouches(r)

LEMMA RulesetsIsNoSetting == "rulesets" \notin Setting
BY WrittenNames DEF Setting

LEMMA ReadsCover ==
  ASSUME NEW r \in Run, Unread(r) = {}
  PROVE  Setting \subseteq Seen(r)
<1>1. DOMAIN Reads = 1..6
  BY DEF Reads
<1>2. \A i \in 1..6 : Reads[i] \cap Setting \subseteq Seen(r)
  BY <1>1 DEF Unread
<1>3. /\ Reads[1] = {"default branch", "auto-merge"} /\ Reads[2] = {"actions"}
      /\ Reads[3] = {"selected actions"} /\ Reads[4] = {"workflow"}
      /\ Reads[5] = {"alerts"} /\ Reads[6] = {"updates"}
  BY DEF Reads
<1>4. ASSUME NEW s \in Setting
      PROVE  \E i \in 1..6 : s \in Reads[i]
  <2>1. s \in {"default branch", "actions", "selected actions", "workflow", "auto-merge",
               "alerts", "updates"}
    BY WrittenNames DEF Setting
  <2>2. 1 \in 1..6 /\ 2 \in 1..6 /\ 3 \in 1..6 /\ 4 \in 1..6 /\ 5 \in 1..6 /\ 6 \in 1..6
    OBVIOUS
  <2> QED
    BY <1>3, <2>1, <2>2
<1> QED
  BY <1>2, <1>4

\* The same rulesets are judged the same way.
LEMMA SameRulesets ==
  ASSUME NEW seen, DOMAIN seen = DOMAIN rules, \A i \in DOMAIN seen : seen[i] = rules[i],
         VerifyRulesets(seen)
  PROVE  VerifyRulesets(rules)
<1>1. {i \in DOMAIN seen : seen[i].effect # "inactive"}
        = {i \in DOMAIN rules : rules[i].effect # "inactive"}
  OBVIOUS
<1> QED
  BY <1>1 DEF VerifyRulesets

\* A change that another run or the world makes is noted for a run that has read
\* what changes.
LEMMA ChangesAreNoted ==
  ASSUME History, NEW o \in Run, run'[o] = run[o], Watched(o), Vouches(o)
  PROVE  Watched(o)' /\ Vouches(o)'
<1>1. ASSUME NEW x \in Seen(o), x \notin since'[o]
      PROVE  x \notin since[o] /\ ~Changed(x)
  BY <1>1 DEF History
<1>2. Seen(o)' = Seen(o) /\ Unread(o)' = Unread(o)
  BY DEF Seen, Unread, At
<1>3. CASE At(o, "0")
  <2>1. Seen(o) = Setting \cup {"rulesets"}
    BY <1>3 DEF Seen
  <2>2. ASSUME NEW s \in Setting \ since'[o] PROVE settings'[s] = "reviewed"
    <3>1. s \notin since[o] /\ settings'[s] = settings[s]
      BY <1>1, <2>1, <2>2, RulesetsIsNoSetting DEF Changed
    <3> QED
      BY <1>3, <3>1 DEF Vouches
  <2>3. "rulesets" \in since'[o] \/ VerifyRulesets(rules')
    BY <1>1, <1>3, <2>1 DEF Changed, Vouches
  <2>4. Vouches(o)'
    BY <2>2, <2>3 DEF Vouches, VerifyRulesets
  <2>5. Watched(o)'
    <3>1. run[o].pc \notin Back /\ run[o].pc \notin {"settings", "verify"}
      BY <1>3 DEF At, Back
    <3>2. run[o].seen = << >> /\ run[o].seenRules = << >>
      BY <3>1 DEF Watched
    <3> QED
      BY <3>1, <3>2, NoneRead DEF Watched
  <2> QED
    BY <2>4, <2>5
<1>4. CASE ~At(o, "0")
  <2>1. DOMAIN run[o].seen \subseteq Seen(o)
    BY <1>4 DEF Seen
  <2>2. ASSUME NEW s \in DOMAIN run[o].seen \ since'[o] PROVE run[o].seen[s] = settings'[s]
    <3>1. s \in Setting /\ s # "rulesets"
      BY RulesetsIsNoSetting DEF Watched
    <3>2. s \notin since[o] /\ settings'[s] = settings[s]
      BY <1>1, <2>1, <2>2, <3>1 DEF Changed
    <3> QED
      BY <2>2, <3>2 DEF Watched
  <2>3. ASSUME run[o].pc \in Back, "rulesets" \notin since'[o]
        PROVE  "rulesets" \notin since[o] /\ rules' = rules
    <3>1. "rulesets" \in Seen(o)
      BY <1>4, <2>3 DEF Seen, Back
    <3> QED
      BY <1>1, <2>3, <3>1 DEF Changed
  <2>4. Watched(o)'
    BY <1>2, <2>2, <2>3 DEF Watched
  <2> QED
    BY <1>4, <2>4 DEF Vouches, At
<1> QED
  BY <1>3, <1>4

\* A run that reads nothing back has nothing to vouch for.
Blank(r) ==
  /\ run'[r].pc \notin Back \cup {"0"}
  /\ run'[r].seen = << >> /\ run'[r].seenRules = << >>

LEMMA BlankIsWatched ==
  ASSUME NEW r \in Run, Blank(r)
  PROVE  Watched(r)' /\ Vouches(r)'
BY NoneRead DEF Blank, Watched, Vouches, At, Back

LEMMA ThrowBlanks ==
  ASSUME Shape, NEW r \in Run, Throw(r)
  PROVE  Blank(r)
BY ThrowEffect DEF Fresh, Blank, Back

LEMMA StepBlanks ==
  ASSUME EvidenceInv, NEW r \in Run, Step(r) \/ Start(r), Watched(r),
         ~ListRulesets(r), ~ReadRuleset(r), ~ReadSettings(r), ~Verify(r)
  PROVE  Blank(r)
<1>1. Shape
  BY DEF EvidenceInv
<1>2. ASSUME run[r].pc \notin Back
      PROVE  run[r].seen = << >> /\ run[r].seenRules = << >>
  BY <1>2 DEF Watched, Back
<1>3. CASE Start(r) \/ ReadBack(r)
  <2>1. PICK stage : Begin(r, stage)
    BY <1>3 DEF Start, ReadBack, Begin
  <2> QED
    BY <1>1, <2>1, BeginEffect DEF Fresh, Blank, Back
<1>4. CASE Throw(r)
  BY <1>1, <1>4, ThrowBlanks
<1>5. CASE ReadPull(r) /\ ~Throw(r)
  <2>1. SetPull(r, pull, Commits(pull), "checks") /\ run[r].pc = "pull"
    BY <1>5 DEF ReadPull, SetPull, At
  <2> QED
    BY <1>1, <1>2, <2>1, PullEffect DEF SameSeen, Blank, Back
<1>6. CASE ReadChecks(r)
  <2>1. PICK checks, left, pc : SetChecks(r, checks, left, pc) /\ pc \in {"again", "checks"}
    <3>1. r \in DOMAIN run
      BY <1>1, RunShape
    <3> DEFINE c == IF run[r].pull.merge \in run[r].left THEN run[r].pull.merge ELSE run[r].pull.head
    <3> DEFINE pc == IF run[r].left = {c} THEN "again" ELSE "checks"
    <3>2. SetChecks(r, With(run[r].checks, c, ci[c]), run[r].left \ {c}, pc)
      BY <1>6, <3>1 DEF ReadChecks, SetChecks
    <3>3. pc \in {"again", "checks"}
      OBVIOUS
    <3> HIDE DEF pc
    <3> QED
      BY <3>2, <3>3
  <2>2. run[r].pc = "checks"
    BY <1>6 DEF ReadChecks, At
  <2> QED
    BY <1>1, <1>2, <2>1, <2>2, ChecksEffect DEF SameSeen, Blank, Back
<1>7. CASE ReadAgain(r) /\ ~Throw(r)
  <2>1. PICK sha, proven, pc : SetResults(r, sha, proven, None, pc) /\ pc \in {"repository", "rulesets"}
    <3> DEFINE tested == Tested(run[r].pull, run[r].checks)
               judged == CheckResults(run[r].checks, tested) /\ ~run[r].pull.auto
               next == IF run[r].stage = "evidence" THEN "repository" ELSE "rulesets"
    <3>1. SetResults(r, tested, judged, None, next)
      BY <1>7 DEF ReadAgain, SetResults
    <3>2. next \in {"repository", "rulesets"}
      OBVIOUS
    <3> HIDE DEF tested, judged, next
    <3> QED
      BY <3>1, <3>2
  <2>2. run[r].pc = "again"
    BY <1>7 DEF ReadAgain, At
  <2> QED
    BY <1>1, <1>2, <2>1, <2>2, ResultsEffect DEF SameSeen, Blank, Back
<1>8. CASE \E pc \in Written \cup {"conflicts", "ruleset", "read back"} : Go(r, pc) /\ run[r].pc \notin Back
  <2>1. PICK pc \in Written \cup {"conflicts", "ruleset", "read back"} : Go(r, pc)
    BY <1>8
  <2>2. run'[r].pc = pc /\ run'[r].seen = << >> /\ run'[r].seenRules = << >>
    BY <1>1, <1>2, <1>8, <2>1, GoEffect DEF Locals
  <2> QED
    BY <2>2, WrittenNames DEF Blank, Back
<1>9. CASE CheckConflicts(r) /\ ~Throw(r)
  <2>1. SetPrevious(r, Previous(rules), Following(0)) /\ run[r].pc = "conflicts"
    BY <1>9 DEF CheckConflicts, SetPrevious, At
  <2>2. Following(0) \in Written \cup {"ruleset"}
    BY FollowingIs
  <2>3. SameSeen(run'[r], run[r]) /\ run'[r].pc = Following(0)
    BY <1>1, <2>1, ConflictsEffect
  <2> QED
    BY <1>2, <2>1, <2>2, <2>3, WrittenNames DEF SameSeen, Blank, Back
<1>10. CASE ReadRepository(r) /\ ~Throw(r)
  BY <1>8, <1>10 DEF ReadRepository, At, Back
<1>11. CASE WriteSetting(r) /\ ~Throw(r)
  <2>1. Go(r, After(run[r].pc)) /\ run[r].pc \in Written
    BY <1>11 DEF WriteSetting, Done
  <2>2. After(run[r].pc) \in Written \cup {"ruleset"} /\ run[r].pc \notin Back
    BY <2>1, FollowingIs, WrittenNames DEF After, Back
  <2> QED
    BY <1>8, <2>1, <2>2
<1>12. CASE WriteRuleset(r) /\ ~Throw(r)
  BY <1>8, <1>12 DEF WriteRuleset, Done, At, Back
<1>13. CASE Fail(r)
  BY <1>4, <1>13 DEF Fail
<1> QED
  BY <1>3, <1>4, <1>5, <1>6, <1>7, <1>9, <1>10, <1>11, <1>12, <1>13 DEF Step

-----------------------------------------------------------------------------
(* The steps of the read-back                                              *)

\* The list is taken when nothing has been read, so that whatever changes is noted
\* from there.
LEMMA ListIsWatched ==
  ASSUME EvidenceInv, History, NEW r \in Run, ListRulesets(r), Watched(r)
  PROVE  Watched(r)' /\ Vouches(r)'
<1> DEFINE pc == IF DOMAIN rules = {} THEN "settings" ELSE "details"
<1>1. SetLeft(r, DOMAIN rules, pc) /\ UNCHANGED repository /\ run[r].pc = "rulesets"
  BY DEF ListRulesets, SetLeft, At
<1>2. /\ run'[r].pc = pc /\ run'[r].left = DOMAIN rules /\ SameSeen(run'[r], run[r])
  <2> HIDE DEF pc
  <2> QED
    BY <1>1, ListEffect DEF EvidenceInv
<1>3. run'[r].seen = << >> /\ run'[r].seenRules = << >>
  BY <1>1, <1>2 DEF Watched, Back, SameSeen
<1>4. pc = "details" \/ (pc = "settings" /\ DOMAIN rules = {})
  OBVIOUS
<1>5. Unread(r)' # {} /\ UNCHANGED <<rules, settings>>
  <2>1. run'[r].pc # "0"
    BY <1>2, <1>4
  <2>2. "default branch" \in Setting /\ "default branch" # "rulesets"
    BY DEF Setting
  <2>3. "default branch" \notin Seen(r)'
    BY <1>3, <2>1, <2>2, NoneRead DEF Seen, At
  <2>4. 1 \in DOMAIN Reads /\ "default branch" \in Reads[1]
    BY DEF Reads
  <2> QED
    BY <1>1, <2>2, <2>3, <2>4 DEF Unread, repository
<1> HIDE DEF pc
<1> QED
  BY <1>2, <1>3, <1>4, <1>5, NoneRead DEF Watched, Vouches, At, Back

LEMMA ReadRulesetIsWatched ==
  ASSUME EvidenceInv, History, NEW r \in Run, ReadRuleset(r), ~Throw(r), Watched(r)
  PROVE  Watched(r)' /\ Vouches(r)'
<1>1. PICK i \in run[r].left :
        /\ i \in DOMAIN rules
        /\ SetDetails(r, With(run[r].seenRules, i, rules[i]), run[r].left \ {i},
                      IF run[r].left = {i} THEN "settings" ELSE "details")
  <2>1. r \in DOMAIN run
    BY RunShape DEF EvidenceInv
  <2> QED
    BY <2>1 DEF ReadRuleset, SetDetails
<1>2. /\ run'[r].pc = IF run[r].left = {i} THEN "settings" ELSE "details"
      /\ run'[r].seenRules = With(run[r].seenRules, i, rules[i])
      /\ run'[r].left = run[r].left \ {i} /\ run'[r].seen = run[r].seen
  BY <1>1, DetailsEffect DEF EvidenceInv
<1>3. run[r].pc = "details" /\ UNCHANGED <<rules, settings>>
  BY DEF ReadRuleset, At, repository
<1>4. ASSUME NEW x, x \notin since'[r], x \in Seen(r)
      PROVE  x \notin since[r]
  BY <1>4 DEF History
<1>5. /\ DOMAIN run[r].seen \subseteq Seen(r) /\ "rulesets" \in Seen(r)
      /\ Seen(r)' \subseteq DOMAIN run[r].seen \cup {"rulesets"}
  BY <1>2, <1>3 DEF Seen, At
<1>6. Unread(r)' # {}
  <2>1. "default branch" \notin Seen(r)'
    BY <1>3, <1>5, NoneRead DEF Watched
  <2>2. 1 \in DOMAIN Reads /\ "default branch" \in Reads[1] /\ "default branch" \in Setting
    BY DEF Reads, Setting
  <2> QED
    BY <2>1, <2>2 DEF Unread
<1>7. ASSUME NEW s \in DOMAIN run'[r].seen \ since'[r] PROVE run'[r].seen[s] = settings'[s]
  BY <1>2, <1>3, <1>4, <1>5, <1>7 DEF Watched
<1>8. ASSUME "rulesets" \notin since'[r]
      PROVE  /\ DOMAIN rules' = DOMAIN run'[r].seenRules
                                 \cup {j \in run'[r].left : run'[r].pc = "details"}
             /\ \A j \in DOMAIN run'[r].seenRules : run'[r].seenRules[j] = rules'[j]
  <2>1. /\ DOMAIN rules = DOMAIN run[r].seenRules \cup run[r].left
        /\ \A j \in DOMAIN run[r].seenRules : run[r].seenRules[j] = rules[j]
    BY <1>3, <1>4, <1>5, <1>8 DEF Watched, Back
  <2>2. /\ DOMAIN run'[r].seenRules = DOMAIN run[r].seenRules \cup {i}
        /\ \A j \in DOMAIN run'[r].seenRules :
             run'[r].seenRules[j] = IF j = i THEN rules[i] ELSE run[r].seenRules[j]
    BY <1>2 DEF With
  <2> QED
    BY <1>2, <1>3, <2>1, <2>2
<1>9. run'[r].pc \in {"settings", "details"} /\ run'[r].seen = << >>
  BY <1>2, <1>3 DEF Watched
<1> QED
  BY <1>6, <1>7, <1>8, <1>9, NoneRead DEF Watched, Vouches, At, Back

\* Each call takes the first settings that are not read, and leaves the rest.
LEMMA ReadSettingsIsWatched ==
  ASSUME EvidenceInv, History, NEW r \in Run, ReadSettings(r), Watched(r)
  PROVE  Watched(r)' /\ Vouches(r)'
<1>1. PICK n : n = Min(Unread(r))
  OBVIOUS
<1>2. n \in Unread(r)
  <2>1. Unread(r) # {}
    BY DEF ReadSettings, Watched, At
  <2>2. Unread(r) \subseteq 1..6
    <3>1. DOMAIN Reads = 1..6
      BY DEF Reads
    <3> QED
      BY <3>1 DEF Unread
  <2>3. \E i \in Unread(r) : \A j \in Unread(r) : i <= j
    BY <2>1, <2>2, LeastOfSix
  <2> QED
    BY <1>1, <2>3 DEF Min
<1> DEFINE now == Reads[n] \cap Setting
           pc == IF Unread(r) = {n} THEN "verify" ELSE "settings"
           seen == [s \in now \cup DOMAIN run[r].seen |->
                      IF s \in now THEN settings[s] ELSE run[r].seen[s]]
<1>3. SetSeen(r, seen, pc)
  <2>1. r \in DOMAIN run
    BY RunShape DEF EvidenceInv
  <2> QED
    BY <1>1, <2>1 DEF ReadSettings, SetSeen
<1>4. run[r].pc = "settings" /\ UNCHANGED <<rules, settings>>
  BY DEF ReadSettings, At, repository
<1>5. pc \in {"verify", "settings"} /\ now \subseteq Setting
  OBVIOUS
<1>6. /\ run'[r].pc = pc /\ run'[r].seenRules = run[r].seenRules
      /\ run'[r].seen = seen
  <2> HIDE DEF seen, pc
  <2> QED
    BY <1>3, SettingsEffect DEF EvidenceInv
<1>7. /\ DOMAIN run'[r].seen = now \cup DOMAIN run[r].seen
      /\ \A s \in DOMAIN run'[r].seen :
           run'[r].seen[s] = IF s \in now THEN settings[s] ELSE run[r].seen[s]
  BY <1>6
<1>8. /\ Seen(r) = DOMAIN run[r].seen \cup {"rulesets"}
      /\ Seen(r)' = DOMAIN run'[r].seen \cup {"rulesets"}
  <2> HIDE DEF seen, pc
  <2> QED
    BY <1>4, <1>5, <1>6 DEF Seen, At
<1>9. Unread(r)' \subseteq Unread(r) /\ Unread(r) \subseteq Unread(r)' \cup {i \in DOMAIN Reads : Reads[i] \cap now # {}}
  BY <1>7, <1>8, RulesetsIsNoSetting DEF Unread
<1>10. n \notin Unread(r)'
  BY <1>7, <1>8 DEF Unread
<1>11. \A i \in DOMAIN Reads : Reads[i] \cap now # {} => i = n
  <2>1. DOMAIN Reads = 1..6
    BY DEF Reads
  <2>2. /\ Reads[1] = {"default branch", "auto-merge"} /\ Reads[2] = {"actions"}
        /\ Reads[3] = {"selected actions"} /\ Reads[4] = {"workflow"}
        /\ Reads[5] = {"alerts"} /\ Reads[6] = {"updates"}
    BY DEF Reads
  <2>3. \A i \in 1..6 : i = 1 \/ i = 2 \/ i = 3 \/ i = 4 \/ i = 5 \/ i = 6
    OBVIOUS
  <2>4. \A i, j \in 1..6 : i # j => Reads[i] \cap Reads[j] = {}
    <3> SUFFICES ASSUME NEW i \in 1..6, NEW j \in 1..6, i # j, NEW s \in Reads[i], s \in Reads[j]
                 PROVE  FALSE
      OBVIOUS
    <3>1. CASE i = 1
      BY <2>2, <2>3, <3>1
    <3>2. CASE i = 2
      BY <2>2, <2>3, <3>2
    <3>3. CASE i = 3
      BY <2>2, <2>3, <3>3
    <3>4. CASE i = 4
      BY <2>2, <2>3, <3>4
    <3>5. CASE i = 5
      BY <2>2, <2>3, <3>5
    <3>6. CASE i = 6
      BY <2>2, <2>3, <3>6
    <3> QED
      BY <2>3, <3>1, <3>2, <3>3, <3>4, <3>5, <3>6
  <2>5. n \in 1..6
    BY <1>2, <2>1 DEF Unread
  <2>6. ASSUME NEW i \in 1..6, Reads[i] \cap now # {} PROVE i = n
    BY <2>4, <2>5, <2>6
  <2> QED
    BY <2>1, <2>6
<1>12. Unread(r)' = Unread(r) \ {n}
  BY <1>9, <1>10, <1>11
<1>13. ASSUME NEW x, x \notin since'[r], x \in Seen(r)
       PROVE  x \notin since[r]
  BY <1>13 DEF History
<1>14. ASSUME NEW s \in DOMAIN run'[r].seen \ since'[r] PROVE run'[r].seen[s] = settings'[s]
  <2>1. CASE s \in now
    BY <1>4, <1>7, <2>1
  <2>2. CASE s \notin now
    BY <1>4, <1>7, <1>8, <1>13, <1>14, <2>2 DEF Watched
  <2> QED
    BY <2>1, <2>2
<1>15. "rulesets" \notin since'[r] =>
         /\ DOMAIN rules = DOMAIN run[r].seenRules
         /\ \A i \in DOMAIN run[r].seenRules : run[r].seenRules[i] = rules[i]
  BY <1>4, <1>8, <1>13 DEF Watched, Back
<1>16. /\ pc = "settings" => Unread(r)' # {}
       /\ pc = "verify" => Unread(r)' = {}
  BY <1>2, <1>12
<1>17. DOMAIN run'[r].seen \subseteq Setting
  BY <1>5, <1>7 DEF Watched
<1> HIDE DEF pc, now, seen
<1> QED
  BY <1>4, <1>5, <1>6, <1>14, <1>15, <1>16, <1>17 DEF Watched, Vouches, At, Back

\* What a run accepts is what it has read, all of it.
LEMMA VerifyIsWatched ==
  ASSUME EvidenceInv, History, NEW r \in Run, Verify(r), ~Throw(r), Watched(r)
  PROVE  Watched(r)' /\ Vouches(r)'
<1>1. /\ run[r].pc = "verify" /\ UNCHANGED <<rules, settings>>
      /\ VerifyRulesets(run[r].seenRules) /\ VerifySettings(run[r].seen) /\ Accept(r)
  BY DEF Verify, Accept, At, repository
<1>2. Fresh(run'[r], "0")
  BY <1>1, AcceptEffect DEF EvidenceInv
<1>3. Seen(r) = DOMAIN run[r].seen \cup {"rulesets"}
  BY <1>1 DEF Seen, At
<1>4. Setting \subseteq DOMAIN run[r].seen
  BY <1>1, <1>3, ReadsCover, RulesetsIsNoSetting DEF Watched
<1>5. ASSUME NEW x, x \notin since'[r], x \in Seen(r)
      PROVE  x \notin since[r]
  BY <1>5 DEF History
<1>6. ASSUME NEW s \in Setting \ since'[r] PROVE settings'[s] = "reviewed"
  BY <1>1, <1>3, <1>4, <1>5, <1>6 DEF Watched, VerifySettings
<1>7. "rulesets" \in since'[r] \/ VerifyRulesets(rules)
  <2> SUFFICES ASSUME "rulesets" \notin since'[r] PROVE VerifyRulesets(rules)
    OBVIOUS
  <2>1. /\ DOMAIN run[r].seenRules = DOMAIN rules
        /\ \A i \in DOMAIN run[r].seenRules : run[r].seenRules[i] = rules[i]
    BY <1>1, <1>3, <1>5 DEF Watched, Back
  <2> QED
    BY <1>1, <2>1, SameRulesets
<1>8. Vouches(r)'
  BY <1>1, <1>6, <1>7 DEF Vouches, VerifyRulesets
<1> QED
  BY <1>2, <1>8, NoneRead DEF Fresh, Watched, Back

LEMMA NextWatch == EvidenceInv /\ WatchInv /\ [Next]_vars => WatchInv'
<1> SUFFICES ASSUME EvidenceInv, WatchInv, [Next]_vars, NEW o \in Run
             PROVE  Watched(o)' /\ Vouches(o)'
  BY DEF WatchInv
<1>1. Watched(o) /\ Vouches(o)
  BY DEF WatchInv
<1>2. CASE UNCHANGED vars
  BY <1>1, <1>2 DEF vars, repository, Watched, Vouches, At, Unread, Seen, VerifyRulesets
<1>3. CASE Next /\ run'[o] = run[o]
  BY <1>1, <1>3, ChangesAreNoted DEF Next
<1>4. CASE Next /\ run'[o] # run[o]
  <2>1. History /\ green \subseteq green'
    BY <1>4 DEF Next, History
  <2>2. PICK r \in Run : Step(r) \/ Start(r)
    BY <1>4 DEF Next
  <2>3. r = o
    BY <1>4, <2>1, <2>2, StepKeepsSound DEF OwnStep
  <2>4. CASE Throw(o)
    BY <2>4, ThrowBlanks, BlankIsWatched DEF EvidenceInv
  <2> QED
    BY <1>1, <2>1, <2>2, <2>3, <2>4, StepBlanks, BlankIsWatched, ListIsWatched,
       ReadRulesetIsWatched, ReadSettingsIsWatched, VerifyIsWatched
<1> QED
  BY <1>2, <1>3, <1>4

\* What a run has read back and nobody has changed since is what there is.
THEOREM WatchInvariant == Spec => []WatchInv
<1>1. Init => WatchInv
  <2> SUFFICES ASSUME Init, NEW r \in Run PROVE Watched(r) /\ Vouches(r)
    BY DEF WatchInv
  <2>1. run[r].pc = "idle" /\ run[r].seen = << >> /\ run[r].seenRules = << >>
    BY DEF Init, Idle
  <2> QED
    BY <2>1, NoneRead DEF Watched, Vouches, At, Back
<1> QED
  BY <1>1, NextWatch, EvidenceInvariant, PTL DEF Spec

\* A run that exits with 0 vouches for the live policy, however many others apply
\* or edit at the same time: what is not as reviewed was changed after it was read
\* (repository-policy.mjs, capture and verify).
THEOREM AlwaysVouched == Spec => []Vouched
<1>1. WatchInv => Vouched
  BY DEF WatchInv, Vouches, Vouched
<1> QED
  BY <1>1, WatchInvariant, PTL

-----------------------------------------------------------------------------
(* The types of the repository and of the history                          *)

Counted ==
  /\ \A r \in Run : run[r].sha \in Commit \cup {None}
  /\ starts \in 0..MaxStarts /\ faults \in 0..MaxFaults
  /\ since \in [Run -> SUBSET (Setting \cup {"rulesets"})]

TypeInv == RepositoryTypeOK /\ Counted

LEMMA PolicyIsRuleset == Policy \in Ruleset
BY DEF Policy, Ruleset

LEMMA WithTyped ==
  ASSUME NEW S, NEW f, Range(f) \subseteq S, NEW x, NEW v \in S
  PROVE  Range(With(f, x, v)) \subseteq S
BY DEF Range, With

LEMMA EventsBounded == MaxEvents \in Nat
BY RepositoryAssumption

LEMMA InitTypes == Init => TypeInv
<1> SUFFICES ASSUME Init PROVE TypeInv
  OBVIOUS
<1>1. ci \in [Commit -> [Context -> Seq(Outcome)]]
  <2>1. PICK tested \in [Context -> Commits(pull) \cup {None}], last \in {"pending", "success"} :
          ci = [c \in Commit |-> [n \in Context |->
                  IF c # tested[n] THEN << >> ELSE IF n = "CI / quality" THEN <<"success">> ELSE <<last>>]]
    BY DEF Init, RepositoryInit
  <2>2. << >> \in Seq(Outcome) /\ <<"success">> \in Seq(Outcome) /\ <<last>> \in Seq(Outcome)
    BY DEF Outcome
  <2> QED
    BY <2>1, <2>2
<1>2. settings \in [Setting -> {"reviewed", "other"}]
  BY DEF Init, RepositoryInit
<1>3. DOMAIN rules \subseteq 1..ids /\ Range(rules) \subseteq Ruleset
  <2>1. PICK n \in 0..1 :
          ids = n /\ rules \in [1..n -> {k \in Ruleset : k.kind = "sandbox-main"}]
    BY DEF Init, RepositoryInit
  <2> QED
    BY <2>1 DEF Range
<1>4. pull \in Pull /\ events \in 0..MaxEvents
  <2>1. pull \in Pull /\ events = 0
    BY DEF Init, RepositoryInit
  <2> QED
    BY <2>1, EventsBounded
<1>5. Counted
  BY PolicyAssumption DEF Init, Counted, Idle
<1> QED
  BY <1>1, <1>2, <1>3, <1>4, <1>5 DEF TypeInv, RepositoryTypeOK

\* What CI, pushes and administrators do to the repository.
LEMMA CiTyped ==
  ASSUME RepositoryTypeOK, Ci
  PROVE  ci' \in [Commit -> [Context -> Seq(Outcome)]]
<1>1. PICK c \in Commits(pull), n \in Context :
        \/ \E o \in {"pending", "foreign"} : ci' = [ci EXCEPT ![c][n] = Append(@, o)]
        \/ /\ ci[c][n] # << >>
           /\ \E o \in {"success", "failure"} : ci' = [ci EXCEPT ![c][n][Len(ci[c][n])] = o]
  BY DEF Ci
<1>2. c \in Commit /\ ci[c] \in [Context -> Seq(Outcome)] /\ ci[c][n] \in Seq(Outcome)
  BY DEF RepositoryTypeOK, Pull, Commits, Commit
<1>3. ASSUME NEW o \in Outcome
      PROVE  /\ Append(ci[c][n], o) \in Seq(Outcome)
             /\ ci[c][n] # << >> => [ci[c][n] EXCEPT ![Len(ci[c][n])] = o] \in Seq(Outcome)
  <2>1. ci[c][n] # << >> => Len(ci[c][n]) \in 1..Len(ci[c][n])
    BY <1>2
  <2> QED
    BY <1>2, <2>1, ExceptSeq
<1>4. ASSUME NEW runs \in Seq(Outcome), ci' = [ci EXCEPT ![c] = [ci[c] EXCEPT ![n] = runs]]
      PROVE  ci' \in [Commit -> [Context -> Seq(Outcome)]]
  BY <1>2, <1>4 DEF RepositoryTypeOK
<1>5. \E runs \in Seq(Outcome) : ci' = [ci EXCEPT ![c] = [ci[c] EXCEPT ![n] = runs]]
  <2>1. ASSUME NEW o \in {"pending", "foreign"}, ci' = [ci EXCEPT ![c][n] = Append(@, o)]
        PROVE  \E runs \in Seq(Outcome) : ci' = [ci EXCEPT ![c] = [ci[c] EXCEPT ![n] = runs]]
    <3>1. Append(ci[c][n], o) \in Seq(Outcome)
      BY <1>3 DEF Outcome
    <3>2. ci' = [ci EXCEPT ![c] = [ci[c] EXCEPT ![n] = Append(ci[c][n], o)]]
      BY <1>2, <2>1
    <3> QED
      BY <3>1, <3>2
  <2>2. ASSUME NEW o \in {"success", "failure"}, ci[c][n] # << >>,
               ci' = [ci EXCEPT ![c][n][Len(ci[c][n])] = o]
        PROVE  \E runs \in Seq(Outcome) : ci' = [ci EXCEPT ![c] = [ci[c] EXCEPT ![n] = runs]]
    <3>1. [ci[c][n] EXCEPT ![Len(ci[c][n])] = o] \in Seq(Outcome)
      BY <1>3, <2>2 DEF Outcome
    <3>2. ci' = [ci EXCEPT ![c] = [ci[c] EXCEPT ![n] = [ci[c][n] EXCEPT ![Len(ci[c][n])] = o]]]
      BY <1>2, <2>2
    <3> QED
      BY <3>1, <3>2
  <2> QED
    BY <1>1, <2>1, <2>2
<1> QED
  BY <1>4, <1>5

LEMMA WorldTyped ==
  ASSUME RepositoryTypeOK, RulesetInv, World
  PROVE  RepositoryTypeOK'
<1>1. pull' \in Pull /\ DOMAIN rules' \subseteq 1..ids'
  BY WorldKeepsPull, WorldKeepsIds DEF RepositoryTypeOK
<1>2. events' \in 0..MaxEvents
  <2>1. Event
    BY DEF World, Ci, ChangePull, ChangeSetting, ChangeRuleset
  <2> QED
    BY <2>1, EventsBounded DEF RepositoryTypeOK, Event
<1>3. ci' \in [Commit -> [Context -> Seq(Outcome)]]
  BY CiTyped DEF RepositoryTypeOK, World, ChangePull, ChangeSetting, ChangeRuleset
<1>4. settings' \in [Setting -> {"reviewed", "other"}]
  BY DEF RepositoryTypeOK, World, Ci, ChangePull, ChangeSetting, ChangeRuleset
<1>5. Range(rules') \subseteq Ruleset
  <2>1. CASE UNCHANGED rules
    BY <2>1 DEF RepositoryTypeOK, Range
  <2>2. CASE \E k \in Ruleset : rules' = With(rules, ids', k)
    BY <2>2, WithTyped DEF RepositoryTypeOK
  <2>3. ASSUME NEW i \in DOMAIN rules, NEW e \in {"altered", "inactive"},
               rules' = [rules EXCEPT ![i].effect = e]
        PROVE  Range(rules') \subseteq Ruleset
    <3>1. \A j \in DOMAIN rules : rules[j] \in Ruleset
      BY DEF RepositoryTypeOK, Range
    <3>2. [rules[i] EXCEPT !.effect = e] \in Ruleset
      BY <3>1 DEF Ruleset
    <3> QED
      BY <2>3, <3>1, <3>2 DEF Range
  <2>4. CASE \E i \in DOMAIN rules : rules' = Restrict(rules, DOMAIN rules \ {i})
    BY <2>4 DEF RepositoryTypeOK, Range, Restrict
  <2> QED
    BY <2>1, <2>2, <2>3, <2>4 DEF World, Ci, ChangePull, ChangeSetting, ChangeRuleset
<1> QED
  BY <1>1, <1>2, <1>3, <1>4, <1>5 DEF RepositoryTypeOK

\* A run writes a setting, or a ruleset, and nothing else.
LEMMA StepTyped ==
  ASSUME RepositoryTypeOK, EvidenceInv, RulesetInv, green \subseteq green',
         NEW r \in Run, Step(r) \/ Start(r)
  PROVE  RepositoryTypeOK'
<1>1. CASE UNCHANGED repository
  BY <1>1 DEF repository, RepositoryTypeOK
<1>2. CASE WriteSetting(r)
  BY <1>2 DEF WriteSetting, RepositoryTypeOK
<1>3. CASE WriteRuleset(r)
  <2>1. DOMAIN rules' \subseteq 1..ids'
    BY <1>3, WriteRulesetKeepsIds
  <2>2. Range(rules') \subseteq Ruleset
    <3>1. Range(rules) \subseteq Ruleset
      BY DEF RepositoryTypeOK
    <3>2. CASE \E id : rules' = With(rules, id, Policy)
      BY <3>1, <3>2, WithTyped, PolicyIsRuleset
    <3>3. CASE \E id : rules' = [rules EXCEPT ![id] = Policy]
      BY <3>1, <3>3, PolicyIsRuleset DEF Range
    <3>4. CASE rules' = rules
      BY <3>1, <3>4
    <3> QED
      BY <1>3, <3>2, <3>3, <3>4 DEF WriteRuleset
  <2> QED
    BY <1>3, <2>1, <2>2 DEF WriteRuleset, RepositoryTypeOK
<1> QED
  BY <1>1, <1>2, <1>3 DEF Start, Step, ReadPull, ReadChecks, ReadAgain, ReadRepository,
     CheckConflicts, ReadBack, ListRulesets, ReadRuleset, ReadSettings, Verify, Fail

\* The commit that a run names is one of the PR it has read.
LEMMA StepNames ==
  ASSUME EvidenceInv, NEW r \in Run, Step(r) \/ Start(r), run[r].sha \in Commit \cup {None}
  PROVE  run'[r].sha \in Commit \cup {None}
<1>1. Shape
  BY DEF EvidenceInv
<1>2. CASE Throw(r) \/ \E stage : Begin(r, stage)
  BY <1>1, <1>2, ThrowEffect, BeginEffect DEF Fresh
<1>3. CASE run'[r].sha = run[r].sha
  BY <1>3
<1>4. CASE ReadAgain(r) /\ ~Throw(r)
  <2> DEFINE tested == Tested(run[r].pull, run[r].checks)
  <2>1. PICK proven, pc : SetResults(r, tested, proven, None, pc)
    <3> DEFINE judged == CheckResults(run[r].checks, tested) /\ ~run[r].pull.auto
               next == IF run[r].stage = "evidence" THEN "repository" ELSE "rulesets"
    <3>1. SetResults(r, tested, judged, None, next)
      BY <1>4 DEF ReadAgain, SetResults
    <3> HIDE DEF tested, judged, next
    <3> QED
      BY <3>1
  <2>2. run'[r].sha = tested
    <3> HIDE DEF tested
    <3> QED
      BY <1>1, <2>1, ResultsEffect
  <2>3. run[r].pull \in Pull
    BY <1>4 DEF ReadAgain, At, EvidenceInv, Sound, Asked
  <2>4. tested \in Commit \cup {None}
    BY <2>3 DEF Tested, Pull, Commit
  <2> QED
    BY <2>2, <2>4
<1>5. CASE \E pc : Go(r, pc)
  BY <1>1, <1>5, GoEffect DEF Locals
<1>6. CASE ReadPull(r) /\ ~Throw(r)
  <2>1. SetPull(r, pull, Commits(pull), "checks")
    BY <1>6 DEF ReadPull, SetPull
  <2> QED
    BY <1>1, <1>3, <2>1, PullEffect
<1>7. CASE ReadChecks(r)
  <2>1. PICK checks, left, pc : SetChecks(r, checks, left, pc)
    <3>1. r \in DOMAIN run
      BY <1>1, RunShape
    <3> DEFINE c == IF run[r].pull.merge \in run[r].left THEN run[r].pull.merge ELSE run[r].pull.head
               pc == IF run[r].left = {c} THEN "again" ELSE "checks"
    <3>2. SetChecks(r, With(run[r].checks, c, ci[c]), run[r].left \ {c}, pc)
      BY <1>7, <3>1 DEF ReadChecks, SetChecks
    <3> HIDE DEF pc
    <3> QED
      BY <3>2
  <2> QED
    BY <1>1, <1>3, <2>1, ChecksEffect
<1>8. CASE CheckConflicts(r) /\ ~Throw(r)
  <2>1. SetPrevious(r, Previous(rules), Following(0))
    BY <1>8 DEF CheckConflicts, SetPrevious
  <2> QED
    BY <1>1, <1>3, <2>1, ConflictsEffect
<1>9. CASE ListRulesets(r)
  <2> DEFINE pc == IF DOMAIN rules = {} THEN "settings" ELSE "details"
  <2>1. SetLeft(r, DOMAIN rules, pc)
    BY <1>9 DEF ListRulesets, SetLeft
  <2> HIDE DEF pc
  <2> QED
    BY <1>1, <1>3, <2>1, ListEffect
<1>10. CASE ReadRuleset(r) /\ ~Throw(r)
  <2>1. PICK seen, left, pc : SetDetails(r, seen, left, pc)
    <3>1. r \in DOMAIN run
      BY <1>1, RunShape
    <3> DEFINE pc(i) == IF run[r].left = {i} THEN "settings" ELSE "details"
    <3>2. PICK i \in run[r].left :
            SetDetails(r, With(run[r].seenRules, i, rules[i]), run[r].left \ {i}, pc(i))
      BY <1>10, <3>1 DEF ReadRuleset, SetDetails
    <3> HIDE DEF pc
    <3> QED
      BY <3>2
  <2> QED
    BY <1>1, <1>3, <2>1, DetailsEffect
<1>11. CASE ReadSettings(r)
  <2>1. PICK seen, pc : SetSeen(r, seen, pc)
    <3>1. r \in DOMAIN run
      BY <1>1, RunShape
    <3> DEFINE n == Min(Unread(r))
               now == Reads[n] \cap Setting
               seen == [s \in now \cup DOMAIN run[r].seen |->
                          IF s \in now THEN settings[s] ELSE run[r].seen[s]]
               pc == IF Unread(r) = {n} THEN "verify" ELSE "settings"
    <3>2. SetSeen(r, seen, pc)
      BY <1>11, <3>1 DEF ReadSettings, SetSeen
    <3> QED
      BY <3>2
  <2> QED
    BY <1>1, <1>3, <2>1, SettingsEffect
<1>12. CASE Verify(r) /\ ~Throw(r)
  <2>1. Accept(r)
    BY <1>12 DEF Verify, Accept
  <2> QED
    BY <1>1, <1>3, <2>1, AcceptEffect
<1>13. Start(r) \/ ReadBack(r) => \E stage : Begin(r, stage)
  BY DEF Start, ReadBack, Begin
<1>14. ReadRepository(r) \/ WriteSetting(r) \/ WriteRuleset(r) \/ Fail(r)
         => Throw(r) \/ \E pc : Go(r, pc)
  BY DEF ReadRepository, WriteSetting, WriteRuleset, Fail, Done
<1> QED
  BY <1>2, <1>4, <1>5, <1>6, <1>7, <1>8, <1>9, <1>10, <1>11, <1>12, <1>13, <1>14 DEF Step

LEMMA NextCounts ==
  ASSUME EvidenceInv, WatchInv, Counted, Next
  PROVE  Counted'
<1>1. since' \in [Run -> SUBSET (Setting \cup {"rulesets"})]
  <2>1. \A r \in Run : Seen(r) \subseteq Setting \cup {"rulesets"}
    BY DEF WatchInv, Watched, Seen
  <2> QED
    BY <2>1 DEF Next, History, Counted
<1>2. green \subseteq green'
  BY DEF Next, History
<1>3. CASE World /\ UNCHANGED <<run, starts, faults>>
  BY <1>1, <1>3 DEF Counted
<1>4. ASSUME NEW r \in Run, Start(r) \/ (Step(r) /\ UNCHANGED starts)
      PROVE  Counted'
  <2>1. \A o \in Run : run'[o].sha \in Commit \cup {None}
    BY <1>2, <1>4, StepNames, StepKeepsSound DEF Counted, OwnStep
  <2>2. starts' \in 0..MaxStarts
    BY <1>4, PolicyAssumption DEF Counted, Start
  <2>3. faults' \in 0..MaxFaults
    <3>1. faults' = faults \/ (faults < MaxFaults /\ faults' = faults + 1)
      BY <1>4 DEF Start, Step, ReadPull, ReadChecks, ReadAgain, ReadRepository,
         CheckConflicts, WriteSetting, WriteRuleset, Done, ReadBack, ListRulesets,
         ReadRuleset, ReadSettings, Verify, Fail
    <3> QED
      BY <3>1, PolicyAssumption DEF Counted
  <2> QED
    BY <1>1, <2>1, <2>2, <2>3 DEF Counted
<1> QED
  BY <1>3, <1>4 DEF Next

LEMMA NextTypes == EvidenceInv /\ RulesetInv /\ WatchInv /\ TypeInv /\ [Next]_vars => TypeInv'
<1> SUFFICES ASSUME EvidenceInv, RulesetInv, WatchInv, TypeInv, [Next]_vars PROVE TypeInv'
  OBVIOUS
<1>1. CASE UNCHANGED vars
  BY <1>1 DEF vars, repository, TypeInv, RepositoryTypeOK, Counted
<1>2. CASE Next
  <2>1. RepositoryTypeOK'
    BY <1>2, WorldTyped, StepTyped DEF Next, History, TypeInv
  <2> QED
    BY <1>2, <2>1, NextCounts DEF TypeInv
<1> QED
  BY <1>1, <1>2

\* The repository stays one that GitHub can be in, the ids of its rulesets are used
\* once, and a run names a commit of the PR (repository-policy.mjs, results).
THEOREM PolicyTypes == Spec => []TypeOK
<1>1. Spec => []TypeInv
  BY InitTypes, NextTypes, EvidenceInvariant, RulesetInvariant, WatchInvariant, PTL DEF Spec
<1>2. EvidenceInv /\ TypeInv => TypeOK
  BY DEF EvidenceInv, TypeInv, Counted, TypeOK
<1> QED
  BY <1>1, <1>2, EvidenceInvariant, PTL
=============================================================================
