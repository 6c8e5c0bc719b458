---------------------------- MODULE RevisionLedger ----------------------------
(***************************************************************************)
(* What the writing service promises about the chapters of one work, free  *)
(* of rows, locks, pages and requests.  A chapter is the sequence of the   *)
(* texts ever accepted for it; the work has one log of publications; the   *)
(* canonical text of a chapter is the one it published last.  Texts are    *)
(* never rewritten or removed and log entries never change place.          *)
(*                                                                         *)
(* Manuscript implements this module (Manuscript!LedgerSpec).              *)
(***************************************************************************)
EXTENDS Integers, Sequences

CONSTANTS Chapters,   \* the chapters of the work
          Texts       \* the texts a chapter may hold

VARIABLES history,    \* history[c][n]: the text accepted as revision n of c
          canonical,  \* canonical[c]: the number of c's published revision, or 0
          log         \* the publications <<chapter, revision number>> in order

vars == <<history, canonical, log>>

TypeOK == /\ history \in [Chapters -> Seq(Texts)]
          /\ canonical \in [Chapters -> Nat]
          /\ log \in Seq(Chapters \X Nat)

Init == /\ history = [c \in Chapters |-> <<>>]
        /\ canonical = [c \in Chapters |-> 0]
        /\ log = <<>>

(* A text joins the history of a chapter at the next number. *)
Accept(c, t) == /\ history' = [history EXCEPT ![c] = Append(@, t)]
                /\ UNCHANGED <<canonical, log>>

(* Revision n of c becomes its canonical text; the one before it stops being that. *)
Publish(c, n) == /\ n \in DOMAIN history[c]
                 /\ canonical[c] # n
                 /\ canonical' = [canonical EXCEPT ![c] = n]
                 /\ log' = Append(log, <<c, n>>)
                 /\ UNCHANGED history

Next == \E c \in Chapters : \/ \E t \in Texts : Accept(c, t)
                            \/ \E n \in DOMAIN history[c] : Publish(c, n)

Spec == Init /\ [][Next]_vars
===============================================================================
