----------------------------- MODULE AnchorProofs -----------------------------
(***************************************************************************)
(* Type correctness of HandleAnchor, and that the row is backed by the chain, *)
(* for any number of passes, requests, wallets and attempts.                  *)
(***************************************************************************)
EXTENDS HandleAnchor, TLAPS

\* The steps of a slot: a pass takes some of them, a request the others.
Act(s) ==
  \/ MintRead(s) \/ PassStep(s) \/ RecordFails(s) \/ PassDies(s) \/ RequestStep(s)

LEMMA NextActs ==
  ASSUME Next
  PROVE  (\E s \in Slots : Act(s)) \/ HandleExpires
  BY DEF Next, Act, Slots

-----------------------------------------------------------------------------
(* Type correctness *)

\* What a job begins with is one.
LEMMA JobsTyped ==
  /\ NoJob \in Jobs
  /\ \A k \in JobKinds : [NoJob EXCEPT !.kind = k] \in Jobs
  /\ \A k \in JobKinds, w \in Wallets : [NoJob EXCEPT !.kind = k, !.wallet = w] \in Jobs
<1>1. NoJob \in Jobs
  BY AnchorAssumption DEF NoJob, Jobs, JobKinds
<1>2. ASSUME NEW k \in JobKinds PROVE [NoJob EXCEPT !.kind = k] \in Jobs
  BY <1>1 DEF Jobs
<1>3. ASSUME NEW k \in JobKinds, NEW w \in Wallets
      PROVE  [NoJob EXCEPT !.kind = k, !.wallet = w] \in Jobs
  BY <1>1 DEF Jobs
<1> QED BY <1>1, <1>2, <1>3

\* So is what a checkout and a claim begin with, which keep what they read of the row.
LEMMA ReadersTyped ==
  ASSUME TypeOK
  PROVE  /\ \A k \in CheckoutKinds :
              [NoJob EXCEPT !.kind = k, !.attempts = anchorAttempts] \in Jobs
         /\ \A w \in Wallets :
              [NoJob EXCEPT !.kind = "claim", !.wallet = w, !.entry = registration] \in Jobs
<1>1. NoJob \in Jobs
  BY JobsTyped
<1> QED BY <1>1 DEF TypeOK, RowsOK, Jobs, JobKinds

LEMMA CountedUpTyped == TypeOK => CountedUp \in 0..MAX_RETRIES
  BY AnchorAssumption DEF TypeOK, RowsOK, CountedUp

LEMMA NextPoints ==
  \A s \in Slots : AfterRegister(s).ok \in Points /\ AfterRegister(s).thrown \in Points
  BY DEF AfterRegister, Points

\* A slot that begins, goes on or returns stays typed.
LEMMA BeginTyped ==
  ASSUME TypeOK, NEW s \in Slots, NEW to \in Points, NEW j \in Jobs, Begin(s, to, j)
  PROVE  SlotsOK'
  BY DEF TypeOK, SlotsOK, Begin

LEMMA GotoTyped ==
  ASSUME TypeOK, NEW s \in Slots, NEW from, NEW to \in Points, Goto(s, from, to)
  PROVE  SlotsOK'
  BY DEF TypeOK, SlotsOK, Goto

LEMMA FinishTyped ==
  ASSUME TypeOK, NEW s \in Slots, Finish(s)
  PROVE  SlotsOK'
<1>1. "idle" \in Points /\ NoJob \in Jobs
  BY JobsTyped DEF Points
<1> QED BY <1>1 DEF TypeOK, SlotsOK, Finish

LEMMA MintJobTyped ==
  ASSUME TypeOK, NEW b \in BOOLEAN
  PROVE  [NoJob EXCEPT !.kind = "mint", !.attempts = anchorAttempts, !.named = b] \in Jobs
  BY AnchorAssumption DEF TypeOK, RowsOK, NoJob, Jobs, JobKinds

LEMMA TypeStep == TypeOK /\ [Next]_vars => TypeOK'
<1> SUFFICES ASSUME TypeOK, [Next]_vars PROVE TypeOK'
  OBVIOUS
<1> USE AnchorAssumption DEF TypeOK, rowVars, lifeVars, chainVars, jobVars
<1>1. ASSUME NEW s \in Slots, Act(s) PROVE TypeOK'
  <2>1. CASE MintRead(s)
    <3>1. SlotsOK'
      BY <2>1, BeginTyped, MintJobTyped DEF MintRead, JobKinds, Points
    <3>2. RowsOK'
      BY <2>1 DEF MintRead, RowsOK
    <3> QED BY <3>1, <3>2
  <2>2. CASE MintGiveUp(s)
    <3>1. SlotsOK'
      BY <2>2, FinishTyped DEF MintGiveUp, Points
    <3>2. RowsOK'
      BY <2>2 DEF MintGiveUp, RowsOK, SlotsOK, Jobs
    <3> QED BY <3>1, <3>2
  <2>3. CASE MintCount(s)
    <3>1. SlotsOK'
      BY <2>3, GotoTyped, NextPoints DEF MintCount, Points
    <3>2. RowsOK'
      BY <2>3, CountedUpTyped DEF MintCount, RowsOK
    <3> QED BY <3>1, <3>2
  <2>4. ASSUME NEW answered \in BOOLEAN, RegisterOnChain(s, answered) PROVE TypeOK'
    <3>1. SlotsOK'
      BY <2>4, GotoTyped, NextPoints DEF RegisterOnChain, Points
    <3>2. RowsOK'
      BY <2>4 DEF RegisterOnChain, RowsOK
    <3> QED BY <3>1, <3>2
  <2>5. ASSUME NEW answered \in BOOLEAN, TransferToUser(s, answered) PROVE TypeOK'
    <3>1. SlotsOK'
      BY <2>5, GotoTyped, NextPoints DEF TransferToUser, Points
    <3>2. RowsOK'
      BY <2>5 DEF TransferToUser, RowsOK, SlotsOK, Jobs
    <3> QED BY <3>1, <3>2
  <2>6. CASE RegisterFails(s)
    <3>1. SlotsOK'
      BY <2>6, GotoTyped, NextPoints DEF RegisterFails, Points
    <3>2. RowsOK'
      BY <2>6 DEF RegisterFails, RowsOK
    <3> QED BY <3>1, <3>2
  <2>7. CASE TransferFails(s)
    <3>1. SlotsOK'
      BY <2>7, GotoTyped, NextPoints DEF TransferFails, Points
    <3>2. RowsOK'
      BY <2>7 DEF TransferFails, RowsOK
    <3> QED BY <3>1, <3>2
  <2>8. CASE RecordAnchor(s)
    <3>1. SlotsOK'
      BY <2>8, FinishTyped DEF RecordAnchor, Points
    <3>2. RowsOK'
      BY <2>8 DEF RecordAnchor, AnchoredRow, RowsOK, Networks
    <3> QED BY <3>1, <3>2
  <2>9. CASE MintFailed(s)
    <3>1. SlotsOK'
      BY <2>9, FinishTyped DEF MintFailed, Points
    <3>2. RowsOK'
      BY <2>9 DEF MintFailed, RowsOK
    <3> QED BY <3>1, <3>2
  <2>10. CASE RecordFails(s)
    <3>1. SlotsOK'
      BY <2>10, GotoTyped, NextPoints DEF RecordFails, Points
    <3>2. RowsOK'
      BY <2>10 DEF RecordFails, AnchoredRow, RowsOK, Networks
    <3> QED BY <3>1, <3>2
  <2>11. CASE PassDies(s)
    <3>1. SlotsOK'
      BY <2>11, FinishTyped DEF PassDies, Points
    <3>2. RowsOK'
      BY <2>11 DEF PassDies, RowsOK
    <3> QED BY <3>1, <3>2
  <2>12. ASSUME NEW kind \in CheckoutKinds, CheckoutRead(s, kind) PROVE TypeOK'
    <3>1. SlotsOK'
      <4>1. [NoJob EXCEPT !.kind = kind, !.attempts = anchorAttempts] \in Jobs
        BY ReadersTyped
      <4> QED BY <2>12, <4>1, BeginTyped DEF CheckoutRead, Points
    <3>2. RowsOK'
      BY <2>12 DEF CheckoutRead, RowsOK
    <3> QED BY <3>1, <3>2
  <2>25. CASE CheckoutWrite(s)
    <3>1. SlotsOK'
      BY <2>25, GotoTyped DEF CheckoutWrite, Points
    <3>2. RowsOK'
      BY <2>25 DEF CheckoutWrite, RowsOK, SlotsOK, Jobs
    <3> QED BY <3>1, <3>2
  <2>26. CASE MarkRead(s)
    <3>1. SlotsOK'
      BY <2>26 DEF MarkRead, SlotsOK, Jobs, RowsOK
    <3>2. RowsOK'
      BY <2>26 DEF MarkRead, RowsOK
    <3> QED BY <3>1, <3>2
  <2>27. CASE MarkWrite(s)
    <3>1. SlotsOK'
      <4>1. CASE job[s].kind = "plainCheckout"
        BY <2>27, <4>1, FinishTyped DEF MarkWrite
      <4>2. CASE job[s].kind # "plainCheckout"
        <5>1. [NoJob EXCEPT !.kind = "checkout"] \in Jobs
          BY JobsTyped DEF JobKinds, CheckoutKinds
        <5> QED BY <2>27, <4>2, <5>1 DEF MarkWrite, SlotsOK, Points
      <4> QED BY <4>1, <4>2
    <3>2. RowsOK'
      BY <2>27 DEF MarkWrite, RowsOK, SlotsOK, Jobs
    <3> QED BY <3>1, <3>2
  <2>13. CASE CheckoutRequeue(s)
    <3>1. SlotsOK'
      BY <2>13, FinishTyped DEF CheckoutRequeue, Points
    <3>2. RowsOK'
      BY <2>13 DEF CheckoutRequeue, RowsOK
    <3> QED BY <3>1, <3>2
  <2>14. ASSUME NEW kind \in {"queue", "paidQueue", "retry"}, Queue(s, kind) PROVE TypeOK'
    <3>1. SlotsOK'
      BY <2>14, BeginTyped, JobsTyped DEF Queue, JobKinds, Points
    <3>2. RowsOK'
      BY <2>14 DEF Queue, RowsOK
    <3> QED BY <3>1, <3>2
  <2>15. CASE QueueWrite(s)
    <3>1. SlotsOK'
      BY <2>15, FinishTyped DEF QueueWrite, Points
    <3>2. RowsOK'
      BY <2>15 DEF QueueWrite, RowsOK
    <3> QED BY <3>1, <3>2
  <2>16. ASSUME NEW w \in Wallets, ClaimNft(s, w) PROVE TypeOK'
    <3>1. SlotsOK'
      <4>1. [NoJob EXCEPT !.kind = "claim", !.wallet = w, !.entry = registration] \in Jobs
        BY ReadersTyped
      <4> QED BY <2>16, <4>1, BeginTyped DEF ClaimNft, Points
    <3>2. RowsOK'
      BY <2>16 DEF ClaimNft, RowsOK
    <3> QED BY <3>1, <3>2
  <2>17. ASSUME NEW answered \in BOOLEAN, ClaimResolve(s, answered) PROVE TypeOK'
    <3>1. SlotsOK'
      BY <2>17, GotoTyped, NextPoints DEF ClaimResolve, Points
    <3>2. RowsOK'
      BY <2>17 DEF ClaimResolve, RowsOK
    <3> QED BY <3>1, <3>2
  <2>18. ASSUME NEW w \in Wallets, TransferNft(s, w) PROVE TypeOK'
    <3>1. SlotsOK'
      BY <2>18, BeginTyped, JobsTyped DEF TransferNft, JobKinds, Points
    <3>2. RowsOK'
      BY <2>18 DEF TransferNft, RowsOK
    <3> QED BY <3>1, <3>2
  <2>19. CASE GivenWrite(s)
    <3>1. SlotsOK'
      BY <2>19, FinishTyped DEF GivenWrite, Points
    <3>2. RowsOK'
      BY <2>19 DEF GivenWrite, RowsOK, SlotsOK, Jobs, Networks
    <3> QED BY <3>1, <3>2
  <2>20. CASE ExpireRead(s)
    <3>1. SlotsOK'
      BY <2>20, BeginTyped, JobsTyped DEF ExpireRead, JobKinds, Points
    <3>2. RowsOK'
      BY <2>20 DEF ExpireRead, RowsOK
    <3> QED BY <3>1, <3>2
  <2>21. CASE ExpireRetire(s)
    <3>1. SlotsOK'
      BY <2>21, GotoTyped, NextPoints DEF ExpireRetire, Points
    <3>2. RowsOK'
      BY <2>21 DEF ExpireRetire, RowsOK
    <3> QED BY <3>1, <3>2
  <2>22. CASE ExpireRelease(s)
    <3>1. SlotsOK'
      BY <2>22, FinishTyped DEF ExpireRelease, Points
    <3>2. RowsOK'
      BY <2>22 DEF ExpireRelease, RowsOK
    <3> QED BY <3>1, <3>2
  <2>23. CASE ExpireAuction(s)
    <3>1. SlotsOK'
      BY <2>23, FinishTyped DEF ExpireAuction, Points
    <3>2. RowsOK'
      BY <2>23 DEF ExpireAuction, RowsOK
    <3> QED BY <3>1, <3>2
  <2>24. CASE RequestDies(s)
    <3>1. SlotsOK'
      BY <2>24, FinishTyped DEF RequestDies, Points
    <3>2. RowsOK'
      BY <2>24 DEF RequestDies, RowsOK
    <3> QED BY <3>1, <3>2
  <2> QED BY <1>1, <2>1, <2>2, <2>3, <2>4, <2>5, <2>6, <2>7, <2>8, <2>9, <2>10, <2>11, <2>12,
             <2>13, <2>14, <2>15, <2>16, <2>17, <2>18, <2>19, <2>20, <2>21, <2>22, <2>23, <2>24,
             <2>25, <2>26, <2>27 DEF Act, PassStep, RequestStep, RegistrarCall
<1>2. CASE HandleExpires
  BY <1>2 DEF HandleExpires, RowsOK, SlotsOK
<1>3. CASE UNCHANGED vars
  BY <1>3 DEF vars, RowsOK, SlotsOK
<1> QED BY <1>1, <1>2, <1>3, NextActs

LEMMA TypeInit == Init => TypeOK
<1> SUFFICES ASSUME Init PROVE TypeOK
  OBVIOUS
<1>1. RowsOK
  <2>1. anchorAttempts \in 0..MAX_RETRIES /\ faults \in 0..MaxFaults
    BY AnchorAssumption DEF Init
  <2>2. checkedOut \in BOOLEAN
    BY DEF Init
  <2> QED BY <2>1, <2>2 DEF Init, RowsOK
<1>2. SlotsOK
  BY JobsTyped DEF Init, SlotsOK, Points
<1> QED BY <1>1, <1>2 DEF TypeOK

\* Rows, the registrar's record and what each slot holds keep their types.
THEOREM AnchorTyped == Spec => []TypeOK
  BY TypeInit, TypeStep, PTL DEF Spec

-----------------------------------------------------------------------------
(* The row and the chain *)

\* The registrar gives a handle's NFT away once, and only after it registered it.
ChainInv == chain = "free" => keeper = "none"

RowInv ==
  /\ nftStatus = "active" \/ registration # "none" => chain # "free"
  /\ nftCustodian = "user" => keeper = nftOwnerWallet /\ keeper \in Wallets

\* A slot that records a registration has one, one that records a gift made it.
SlotInv ==
  \A s \in Slots :
    /\ pc[s] = "record" => chain # "free"
    /\ pc[s] = "claimed" => keeper = job[s].wallet /\ keeper \in Wallets
    /\ job[s].kind \in {"claim", "transfer"} => job[s].wallet \in Wallets
    /\ pc[s] = "give" => job[s].kind \in {"claim", "transfer"}
    /\ pc[s] = "resolve" => job[s].kind = "claim"
    /\ pc[s] = "count" => job[s].kind = "mint"
    /\ pc[s] = "register" => job[s].kind \in {"mint", "checkout", "claim"}

BackedInv == ChainInv /\ RowInv /\ SlotInv

Inv == TypeOK /\ BackedInv

LEMMA BackedStep == Inv /\ [Next]_vars => BackedInv'
<1> SUFFICES ASSUME Inv, [Next]_vars PROVE BackedInv'
  OBVIOUS
<1> USE AnchorAssumption DEF Inv, TypeOK, RowsOK, SlotsOK, Jobs, Points, BackedInv, ChainInv, RowInv, SlotInv, Begin, Goto, Finish,
    NoJob, JobKinds, CheckoutKinds, Networks, rowVars, lifeVars, chainVars, jobVars
<1>1. ASSUME NEW s \in Slots, Act(s) PROVE BackedInv'
  <2>1. CASE MintRead(s)
    BY <2>1 DEF MintRead
  <2>2. CASE MintGiveUp(s)
    BY <2>2 DEF MintGiveUp
  <2>3. CASE MintCount(s)
    BY <2>3 DEF MintCount, CountedUp
  <2>4. ASSUME NEW answered \in BOOLEAN, RegisterOnChain(s, answered) PROVE BackedInv'
    BY <2>4 DEF RegisterOnChain, AfterRegister
  <2>5. ASSUME NEW answered \in BOOLEAN, TransferToUser(s, answered) PROVE BackedInv'
    BY <2>5 DEF TransferToUser
  <2>6. CASE RegisterFails(s)
    BY <2>6 DEF RegisterFails, AfterRegister
  <2>7. CASE TransferFails(s)
    BY <2>7 DEF TransferFails
  <2>8. CASE RecordAnchor(s)
    BY <2>8 DEF RecordAnchor, AnchoredRow
  <2>9. CASE MintFailed(s)
    BY <2>9 DEF MintFailed
  <2>10. CASE RecordFails(s)
    BY <2>10 DEF RecordFails, AnchoredRow, AfterRegister
  <2>11. CASE PassDies(s)
    BY <2>11 DEF PassDies
  <2>12. ASSUME NEW kind \in CheckoutKinds, CheckoutRead(s, kind) PROVE BackedInv'
    BY <2>12 DEF CheckoutRead
  <2>25. CASE CheckoutWrite(s)
    BY <2>25 DEF CheckoutWrite
  <2>26. CASE MarkRead(s)
    BY <2>26 DEF MarkRead
  <2>27. CASE MarkWrite(s)
    BY <2>27 DEF MarkWrite
  <2>13. CASE CheckoutRequeue(s)
    BY <2>13 DEF CheckoutRequeue
  <2>14. ASSUME NEW kind \in {"queue", "paidQueue", "retry"}, Queue(s, kind) PROVE BackedInv'
    BY <2>14 DEF Queue
  <2>15. CASE QueueWrite(s)
    BY <2>15 DEF QueueWrite
  <2>16. ASSUME NEW w \in Wallets, ClaimNft(s, w) PROVE BackedInv'
    BY <2>16 DEF ClaimNft
  <2>17. ASSUME NEW answered \in BOOLEAN, ClaimResolve(s, answered) PROVE BackedInv'
    BY <2>17 DEF ClaimResolve
  <2>18. ASSUME NEW w \in Wallets, TransferNft(s, w) PROVE BackedInv'
    BY <2>18 DEF TransferNft
  <2>19. CASE GivenWrite(s)
    BY <2>19 DEF GivenWrite
  <2>20. CASE ExpireRead(s)
    BY <2>20 DEF ExpireRead
  <2>21. CASE ExpireRetire(s)
    BY <2>21 DEF ExpireRetire
  <2>22. CASE ExpireRelease(s)
    BY <2>22 DEF ExpireRelease
  <2>23. CASE ExpireAuction(s)
    BY <2>23 DEF ExpireAuction
  <2>24. CASE RequestDies(s)
    BY <2>24 DEF RequestDies
  <2> QED BY <1>1, <2>1, <2>2, <2>3, <2>4, <2>5, <2>6, <2>7, <2>8, <2>9, <2>10, <2>11, <2>12,
             <2>13, <2>14, <2>15, <2>16, <2>17, <2>18, <2>19, <2>20, <2>21, <2>22, <2>23, <2>24,
             <2>25, <2>26, <2>27 DEF Act, PassStep, RequestStep, RegistrarCall
<1>2. CASE HandleExpires
  BY <1>2 DEF HandleExpires
<1>3. CASE UNCHANGED vars
  BY <1>3 DEF vars
<1> QED BY <1>1, <1>2, <1>3, NextActs

LEMMA BackedInit == Init => BackedInv
  BY DEF Init, BackedInv, ChainInv, RowInv, SlotInv, NoJob

\* However late a pass or a request writes, the row claims nothing that the registrar
\* does not know.
THEOREM RowIsBacked == Spec => []ChainBacked
<1>1. Init => Inv
  BY TypeInit, BackedInit DEF Inv
<1>2. Inv /\ [Next]_vars => Inv'
  BY TypeStep, BackedStep DEF Inv
<1>3. Inv => ChainBacked
  BY DEF Inv, BackedInv, RowInv, ChainBacked
<1> QED BY <1>1, <1>2, <1>3, PTL DEF Spec
=============================================================================
