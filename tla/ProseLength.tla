------------------------------ MODULE ProseLength ------------------------------
(***************************************************************************)
(* The length policy of a chapter (domain/prose_length.py) and what the    *)
(* worker does with it (application/generation.py:287-319): a draft whose  *)
(* length is far off is sent to one repair, and what comes back is         *)
(* accepted or refused.  Lengths count the visible characters.  Python     *)
(* rounds a half to the even neighbour; the ratios of the code are decimal *)
(* fractions, and for every target the API admits (100 to 200000) the      *)
(* rounded floating-point product is the rounded exact one.                *)
(***************************************************************************)
EXTENDS Integers

CONSTANTS
    Targets,        \* values of target_char_count
    Lengths         \* lengths of the texts the model returns

ASSUME LengthAssumption == Targets \subseteq {n \in Nat : n >= 100} /\ Lengths \subseteq Nat

VARIABLE draft      \* the draft of a chapter: its target, its length and what is done with it

-------------------------------------------------------------------------------
(* ProseLengthPolicy *)

(* round(n / d), a half to the even neighbour, for n, d from 0 and 1 up. *)
RoundedQuotient(n, d) ==
    LET q == n \div d
        r == n % d
    IN IF 2 * r < d \/ (2 * r = d /\ q % 2 = 0) THEN q ELSE q + 1

PreferredMinimum(t) == RoundedQuotient(17 * t, 20)
PreferredMaximum(t) == RoundedQuotient(6 * t, 5)
ExpansionTrigger(t) == RoundedQuotient(3 * t, 4)
HardMinimum(t) == RoundedQuotient(t, 2)
HardMaximum(t) == RoundedQuotient(17 * t, 10)

(* Fault: the trigger is compared with the target itself. *)
ExpandBelowTarget(t, n) == n < t

ShouldExpand(t, n) == n < ExpansionTrigger(t)

IsSane(t, n) == HardMinimum(t) <= n /\ n <= HardMaximum(t)

-------------------------------------------------------------------------------
(* The worker *)

Draft(t, n, d, s) == [target |-> t, length |-> n, direction |-> d, step |-> s]

Directions == {"NONE", "EXPAND", "TRIM"}

Drafts == [target : Targets, length : Lengths, direction : Directions,
           step : {"answered", "repairing", "repaired", "saved", "refused"}]

LengthInit == \E t \in Targets, n \in Lengths : draft = Draft(t, n, "NONE", "answered")

(* A first answer that is far off is repaired, in the direction of the target ... *)
AskLengthRepair ==
    /\ draft.step = "answered"
    /\ ShouldExpand(draft.target, draft.length) \/ ~IsSane(draft.target, draft.length)
    /\ draft' = [draft EXCEPT
           !.step = "repairing",
           !.direction = IF draft.length < draft.target THEN "EXPAND" ELSE "TRIM"]

(* ... and comes back with a length of its own. *)
ReceiveRepair ==
    /\ draft.step = "repairing"
    /\ \E n \in Lengths : draft' = [draft EXCEPT !.step = "repaired", !.length = n]

(* The first answer is good, or its repair is: it is saved, or the run fails. *)
JudgeLength ==
    /\ \/ /\ draft.step = "answered"
          /\ ~ShouldExpand(draft.target, draft.length) /\ IsSane(draft.target, draft.length)
       \/ draft.step = "repaired"
    /\ draft' = [draft EXCEPT
           !.step = IF IsSane(draft.target, draft.length) THEN "saved" ELSE "refused"]

LengthNext == AskLengthRepair \/ ReceiveRepair \/ JudgeLength

LengthSpec == LengthInit /\ [][LengthNext]_draft

-------------------------------------------------------------------------------
(* Properties *)

(* The limits of every target agree with each other after rounding: a text in the       *)
(* preferred range is never repaired and never refused, a repair asks for more text     *)
(* exactly when the draft is under the trigger and for less exactly when it is over the *)
(* hard limit (prose_length.py:17-41, generation.py:288, :445, :312).                    *)
LengthPolicyAgrees ==
    LET t == draft.target
        preferred == PreferredMinimum(t) <= draft.length /\ draft.length <= PreferredMaximum(t)
    IN
    /\ draft.step = "repairing" =>
           /\ ~preferred
           /\ draft.direction = "EXPAND" <=> draft.length < ExpansionTrigger(t)
           /\ draft.direction = "TRIM" <=> draft.length > HardMaximum(t)
    /\ draft.step = "refused" => ~preferred
===============================================================================
