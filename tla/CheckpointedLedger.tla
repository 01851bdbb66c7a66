-------------------------- MODULE CheckpointedLedger --------------------------
(***************************************************************************)
(* What a resumable phase promises about the list of developers it has     *)
(* dealt with (State.UpdatedDevelopers in the Update phase).  The list is  *)
(* in memory, a saved copy of it on disk.                                  *)
(*                                                                         *)
(*  - A developer enters the list once: nobody is dealt with twice.        *)
(*  - The saved copy is the list as it stands, or as it stood a moment     *)
(*    before when the one who saves does not stop the one who records; it  *)
(*    is missing while it is being replaced.                               *)
(*  - A new process continues from the saved copy, when there is one.      *)
(***************************************************************************)
EXTENDS Naturals, Sequences, Functions

CONSTANT Entry     \* the developers that can enter the list

VARIABLES list,    \* the developers dealt with, in order
          saved    \* the set of the saved copies: one, or none

ledgerVars == <<list, saved>>

LedgerInit ==
    /\ list = <<>>
    /\ saved = {<<>>}

Record(d) ==
    /\ d \notin Range(list)
    /\ list' = Append(list, d)
    /\ UNCHANGED saved

Erase ==
    /\ saved' = {}
    /\ UNCHANGED list

Write ==
    /\ \E n \in 0 .. Len(list) : saved' = {SubSeq(list, 1, n)}
    /\ UNCHANGED list

Resume ==
    /\ saved = {list'}
    /\ UNCHANGED saved

LedgerNext ==
    \/ \E d \in Entry : Record(d)
    \/ Erase
    \/ Write
    \/ Resume

LedgerSpec == LedgerInit /\ [][LedgerNext]_ledgerVars

=============================================================================
