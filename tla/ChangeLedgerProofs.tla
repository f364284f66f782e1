------------------------- MODULE ChangeLedgerProofs -------------------------
(***************************************************************************)
(* What the contract of ChangeLedger implies, for any set of changes.      *)
(***************************************************************************)
EXTENDS ChangeLedger, TLAPS

LedgerInv == LedgerTypeOK /\ UndoNeedsApply

(* The initial states of the contract: nothing was shown, nothing can be   *)
(* undone.                                                                 *)
LEMMA LedgerStarts == Init => LedgerInv
  BY DEF Init, LedgerInv, LedgerTypeOK, UndoNeedsApply, Stages, Undos

(* A change that moves on and was not carried out yet has nothing to undo, *)
(* so moving it breaks no other change's right to an undo.                 *)
LEMMA MoveKeeps ==
  ASSUME LedgerInv, NEW i \in Changes, NEW from \in Stages, NEW to \in Stages,
         from \notin {"applied", "unreported"}, Move(i, from, to), UNCHANGED undo
  PROVE  LedgerInv'
<1>1. LedgerTypeOK'
  BY DEF Move, LedgerInv, LedgerTypeOK
<1>2. undo[i] = "none"
  BY DEF Move, LedgerInv, UndoNeedsApply
<1>3. UndoNeedsApply'
  BY <1>2 DEF Move, LedgerInv, LedgerTypeOK, UndoNeedsApply
<1> QED
  BY <1>1, <1>3 DEF LedgerInv

(* Every step of the contract keeps the right to an undo tied to a         *)
(* change that was carried out.                                            *)
LEMMA LedgerSteps == LedgerInv /\ [Next]_<<stage, undo>> => LedgerInv'
<1> SUFFICES ASSUME LedgerInv, [Next]_<<stage, undo>> PROVE LedgerInv'
  OBVIOUS
<1> USE DEF Stages
<1>1. ASSUME NEW i \in Changes, Show(i) \/ Run(i) \/ Fail(i) \/ Drop(i) \/ ApplyAtOnce(i)
      PROVE  LedgerInv'
  BY <1>1, MoveKeeps DEF Show, Run, Fail, Drop, ApplyAtOnce
<1>2. ASSUME NEW i \in Changes, Apply(i) \/ Silence(i) PROVE LedgerInv'
  BY <1>2 DEF Apply, Silence, Move, LedgerInv, LedgerTypeOK, UndoNeedsApply, Undos
<1>3. ASSUME NEW i \in Changes, NEW j \in Changes, Undo(i, j) PROVE LedgerInv'
  BY <1>3 DEF Undo, Move, LedgerInv, LedgerTypeOK, UndoNeedsApply, Undos
<1>4. CASE Crash
  BY <1>4 DEF Crash, Forgotten, LedgerInv, LedgerTypeOK, UndoNeedsApply, Undos
<1>5. CASE UNCHANGED <<stage, undo>>
  BY <1>5 DEF LedgerInv, LedgerTypeOK, UndoNeedsApply
<1> QED
  BY <1>1, <1>2, <1>3, <1>4, <1>5 DEF Next

(* Only a change that was carried out to its end can be undone, so no call *)
(* in progress, no failed one and no abandoned one is ever rolled back.    *)
THEOREM UndoFollowsApply == Spec => []UndoNeedsApply
<1>1. LedgerInv => UndoNeedsApply
  BY DEF LedgerInv
<1> QED
  BY LedgerStarts, LedgerSteps, <1>1, PTL DEF Spec
=============================================================================
