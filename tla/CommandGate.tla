---------------------------- MODULE CommandGate ----------------------------
(***************************************************************************)
(* What the Guardian's policy check promises, without boards, queues or    *)
(* messages: verdicts are given, deeds are done, and a deed is done only   *)
(* under a verdict given before, and only once.  MeshCommand implements it *)
(* (its property KeepsGate).                                               *)
(***************************************************************************)
EXTENDS Sequences, Naturals

CONSTANTS Verdict,         \* what the Guardian may decide
          Deed,            \* what a board may carry out: records with board and uid
          Permits(_, _)    \* does a set of verdicts permit a deed?

VARIABLES verdicts,        \* the verdicts given so far
          deeds            \* what was carried out so far, in order

Init == verdicts = {} /\ deeds = <<>>

Decide == /\ \E v \in verdicts' \cap Verdict : verdicts' = verdicts \cup {v}
          /\ UNCHANGED deeds

\* Has this board carried out this call before?
Done(e) == \E i \in DOMAIN deeds : deeds[i].board = e.board /\ deeds[i].uid = e.uid

Act == /\ \E e \in {deeds'[i] : i \in DOMAIN deeds'} \cap Deed :
             /\ Permits(verdicts, e)
             /\ ~Done(e)
             /\ deeds' = Append(deeds, e)
       /\ UNCHANGED verdicts

Next == Decide \/ Act

Spec == Init /\ [][Next]_<<verdicts, deeds>>
=============================================================================
