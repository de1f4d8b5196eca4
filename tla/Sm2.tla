-------------------------------- MODULE Sm2 ---------------------------------
(***************************************************************************)
(* The pure function sm2 of src/services/review.service.ts.                *)
(*                                                                         *)
(* The ease factor is a JavaScript double that is always a whole number of *)
(* hundredths up to rounding error (2.5 plus multiples of 0.1 and 0.14,    *)
(* ...), so it is kept in hundredths.  Only when interval * ease falls     *)
(* exactly between two days does that error decide which way Math.round    *)
(* goes: Rounded then has both.                                            *)
(***************************************************************************)
EXTENDS Integers

DefaultEase == 250
MinEase == 130

\* 0.1 - (5 - q) * (0.08 + (5 - q) * 0.02), in hundredths
EaseDelta(q) == 10 - (5 - q) * (8 + (5 - q) * 2)

NextEase(ease, q) ==
  IF ease + EaseDelta(q) < MinEase THEN MinEase ELSE ease + EaseDelta(q)

\* Math.round(n / 100)
Rounded(n) ==
  IF (n + 50) % 100 = 0 THEN {(n + 50) \div 100 - 1, (n + 50) \div 100}
                        ELSE {(n + 50) \div 100}

\* newInterval: a lapse and the first success wait a day, the second six days.
NextInterval(count, interval, newEase, q) ==
  IF q < 3 \/ count = 0 THEN {1}
  ELSE IF count = 1     THEN {6}
  ELSE Rounded(interval * newEase)

\* Faulty variants: a lapse lowers the streak by one, or does not touch it.
Sm2Decrement(p, q) ==
  {[ease |-> NextEase(p.ease, q), count |-> IF q < 3 THEN 0 ELSE p.count + 1,
    streak |-> IF q < 3 THEN p.streak - 1 ELSE p.streak + 1, interval |-> i] :
     i \in NextInterval(p.count, p.interval, NextEase(p.ease, q), q)}
Sm2KeepStreak(p, q) ==
  {[ease |-> NextEase(p.ease, q), count |-> IF q < 3 THEN 0 ELSE p.count + 1,
    streak |-> IF q < 3 THEN p.streak ELSE p.streak + 1, interval |-> i] :
     i \in NextInterval(p.count, p.interval, NextEase(p.ease, q), q)}

\* What sm2 may return for a progress row p (only these four fields matter).
Sm2(p, q) ==
  LET newEase == NextEase(p.ease, q) IN
  {[ease     |-> newEase,
    count    |-> IF q < 3 THEN 0 ELSE p.count + 1,
    streak   |-> IF q < 3 THEN 0 ELSE IF p.count = 0 THEN 1 ELSE p.streak + 1,
    interval |-> i] : i \in NextInterval(p.count, p.interval, newEase, q)}

\* What submitReview assumes of a card the requestor never reviewed.
NewCard == [ease |-> DefaultEase, count |-> 0, streak |-> 0, interval |-> 1]
=============================================================================
