--------------------------- MODULE TwoPhaseProofs ---------------------------
(***************************************************************************)
(* The safety of two-phase transactions, for any number of transactions    *)
(* and of faults.                                                          *)
(*                                                                         *)
(* The inductive invariant turns on one notion: a record of the WAL is     *)
(* Settled when no later message of it can come, because the origin, the   *)
(* slot or the session is past it.  What a settled record leaves here is   *)
(* then the same whichever session handled it.                             *)
(***************************************************************************)
EXTENDS TwoPhase, TLAPS

(* A leaf is tried with SMT, then with Zenon, then with SMT again: the     *)
(* larger ones need more than the default time.                            *)
USE SMTT(30), ZenonT(30), SMTT(60)

Finish == {"commitPrepared", "rollbackPrepared"}

(* The records of a transaction: one, or a prepare and at most one end of  *)
(* it, in that order.                                                      *)
WalInv ==
    \A i, j \in 1..Len(wal) : (i < j /\ wal[i].xid = wal[j].xid) =>
        wal[i].kind = "prepare" /\ wal[j].kind \in Finish

(* An end comes after a prepare.                                           *)
FinishInv ==
    \A j \in 1..Len(wal) : wal[j].kind \in Finish =>
        \E i \in 1..j - 1 : wal[i] = [xid |-> wal[j].xid, kind |-> "prepare"]

(* The prepare of x was decoded before the slot was enabled for two-phase  *)
(* decoding, and x is sent with its COMMIT PREPARED.                       *)
Late(x) == EndLsn(PrepareOf(x)) <= two_phase_at

Covered(i) == EndLsn(i) <= origin \/ EndLsn(i) <= confirmed
Passed(i) == up /\ (EndLsn(i) <= start \/ i < sent \/ (i = sent /\ out = <<>>))
Settled(i) == Covered(i) \/ Passed(i)

(* What a settled record has left here.                                    *)
SettledInv ==
    \A i \in 1..Len(wal) : Settled(i) =>
        /\ wal[i].kind \in {"plain", "commitPrepared"} => wal[i].xid \in handed
        /\ wal[i].kind \in Finish => wal[i].xid \notin gids
        /\ (wal[i].kind = "prepare" /\ two_phase /\ ~Late(wal[i].xid))
              => wal[i].xid \in prepared

(* A transaction that was prepared here has its position in the origin,    *)
(* and so has its end when it is prepared no more.                         *)
PreparedInv ==
    /\ \A x \in prepared :
        /\ two_phase /\ Has(x, {"prepare"})
        /\ EndLsn(PrepareOf(x)) <= origin
        /\ x \notin gids => \E j \in 1..Len(wal) :
                wal[j].xid = x /\ wal[j].kind \in Finish /\ EndLsn(j) <= origin
    /\ \A x \in repeated : x \in prepared /\ Late(x)

HandedInv ==
    \A x \in handed :
        \/ Has(x, {"plain", "commitPrepared"})
        \/ two_phase /\ Has(x, {"prepare"}) /\ ~Late(x)

(* The slot, and how far a session lets the positions go.                  *)
SlotInv ==
    /\ up \in BOOLEAN /\ two_phase \in BOOLEAN
    /\ confirmed_disk <= confirmed
    /\ two_phase_at \in Nat /\ start \in 0..EndLsn(Len(wal))
    /\ two_phase_at <= Later(origin, confirmed_disk)
    /\ up => /\ two_phase_at <= start
             /\ origin <= Later(start, EndLsn(sent))
             /\ confirmed <= Later(start, EndLsn(sent))
    /\ ~up => out = <<>>
    /\ out # <<>> => /\ sent > 0
                     /\ start < EndLsn(sent)
                     /\ origin < EndLsn(sent) /\ confirmed < EndLsn(sent)

(* The messages that are left of record sent.                              *)
OutInv ==
    LET k == wal[sent].kind
    IN  \/ out = <<>>
        \/ /\ k = "plain" \/ (k = "commitPrepared" /\ ~twophase)
           /\ out = <<"change", "commit">> \/ (out = <<"commit">> /\ Of \in handed)
        \/ /\ k = "prepare" /\ twophase
           /\ out = <<"change", "prepare">> \/ (out = <<"prepare">> /\ Of \in handed)
        \/ /\ k = "commitPrepared" /\ twophase /\ Late(Of)
           /\ \/ out = <<"change", "prepare", "commitPrepared">>
              \/ out = <<"prepare", "commitPrepared">> /\ Of \in handed
        \/ /\ k = "commitPrepared" /\ twophase
           /\ out = <<"commitPrepared">> /\ Of \in gids
        \/ k = "rollbackPrepared" /\ twophase /\ out = <<"rollbackPrepared">>

IInv == TypeOK /\ WalInv /\ FinishInv /\ SettledInv /\ PreparedInv /\ HandedInv
        /\ SlotInv /\ OutInv

-----------------------------------------------------------------------------
(* The prepare of a transaction                                            *)

LEMMA RecordType ==
    ASSUME TypeOK
    PROVE  /\ Len(wal) \in Nat
           /\ \A i \in 1..Len(wal) : wal[i] \in [xid : Xid, kind : RecordKind]
<1> DEFINE R == [xid : Xid, kind : RecordKind]
<1>1. wal \in Seq(R)
  BY DEF TypeOK
<1> HIDE DEF R
<1>2. Len(wal) \in Nat /\ \A i \in 1..Len(wal) : wal[i] \in R
  BY <1>1
<1>. QED
  BY <1>2 DEF R

(* A transaction has one prepare.                                          *)
LEMMA PrepareUnique ==
    ASSUME TypeOK, WalInv, NEW i \in 1..Len(wal), wal[i].kind = "prepare"
    PROVE  PrepareOf(wal[i].xid) = i
<1> DEFINE P(k) == wal[k] = [xid |-> wal[i].xid, kind |-> "prepare"]
<1>1. wal[i] \in [xid : Xid, kind : RecordKind]
  BY RecordType
<1>2. P(i)
  BY <1>1
<1>3. ASSUME NEW k \in 1..Len(wal), P(k) PROVE k = i
  <2>1. wal[k].xid = wal[i].xid /\ wal[k].kind = "prepare"
    BY <1>3
  <2>2. k \in Nat /\ i \in Nat
    BY DEF TypeOK
  <2>. QED
    BY <2>1, <2>2, <1>3 DEF WalInv, Finish
<1>. QED
  BY <1>2, <1>3 DEF PrepareOf

(* PrepareOf() finds it.                                                   *)
LEMMA PrepareFound ==
    ASSUME TypeOK, WalInv, NEW x, Has(x, {"prepare"})
    PROVE  /\ PrepareOf(x) \in 1..Len(wal)
           /\ wal[PrepareOf(x)].xid = x
           /\ wal[PrepareOf(x)].kind = "prepare"
<1>1. PICK i \in 1..Len(wal) : wal[i].xid = x /\ wal[i].kind = "prepare"
  BY DEF Has
<1>. QED
  BY <1>1, PrepareUnique

(* It does not depend on anything but the WAL.                             *)
LEMMA PrepareStays ==
    ASSUME wal' = wal, NEW x
    PROVE  PrepareOf(x)' = PrepareOf(x) /\ \A S : Has(x, S)' = Has(x, S)
BY DEF PrepareOf, Has

(* The end of a transaction comes after the prepare of it.                 *)
LEMMA FinishAfter ==
    ASSUME TypeOK, WalInv, FinishInv, NEW j \in 1..Len(wal), wal[j].kind \in Finish
    PROVE  /\ Has(wal[j].xid, {"prepare"})
           /\ PrepareOf(wal[j].xid) < j
<1>1. PICK i \in 1..j - 1 : wal[i] = [xid |-> wal[j].xid, kind |-> "prepare"]
  BY DEF FinishInv
<1>2. i \in 1..Len(wal) /\ i < j /\ Len(wal) \in Nat
  BY DEF TypeOK
<1>3. wal[i].xid = wal[j].xid /\ wal[i].kind = "prepare"
  BY <1>1
<1>. QED
  BY <1>2, <1>3, PrepareUnique DEF Has

-----------------------------------------------------------------------------
(* The first state                                                         *)

LEMMA InvInit == Init => IInv
<1> SUFFICES ASSUME Init PROVE IInv
  OBVIOUS
<1>1. Len(wal) = 0 /\ wal \in Seq([xid : Xid, kind : RecordKind])
  BY DEF Init
<1>2. TypeOK
  <2>1. {confirmed, confirmed_disk, origin} \subseteq 0..EndLsn(Len(wal))
    BY <1>1 DEF Init, EndLsn
  <2>2. two_phase_at <= Later(origin, confirmed)
    BY DEF Init, Later
  <2>3. sent \in 0..Len(wal)
    BY <1>1 DEF Init
  <2>. QED
    BY <1>1, <2>1, <2>2, <2>3, Zenon DEF Init, TypeOK
<1>3. WalInv /\ FinishInv /\ SettledInv
  BY <1>1 DEF WalInv, FinishInv, SettledInv
<1>4. PreparedInv /\ HandedInv /\ OutInv
  BY DEF Init, PreparedInv, HandedInv, OutInv
<1>5. SlotInv
  <2>1. start \in 0..EndLsn(Len(wal)) /\ two_phase_at <= Later(origin, confirmed_disk)
    BY <1>1 DEF Init, EndLsn, Later
  <2>2. confirmed_disk <= confirmed /\ two_phase_at \in Nat
    BY DEF Init
  <2>. QED
    BY <2>1, <2>2, Zenon DEF Init, SlotInv
<1>. QED
  BY <1>2, <1>3, <1>4, <1>5 DEF IInv

-----------------------------------------------------------------------------
(* The steps that only end a session, or begin one                         *)

LEMMA WalStays ==
    ASSUME WalInv, FinishInv, wal' = wal
    PROVE  WalInv' /\ FinishInv'
BY Zenon DEF WalInv, FinishInv

(* A settled record was settled already, when nothing else changes.        *)
LEMMA SettledStays ==
    ASSUME SettledInv, \A i \in 1..Len(wal) : Settled(i)' => Settled(i),
           UNCHANGED <<wal, two_phase, two_phase_at, gids, handed, prepared>>
    PROVE  SettledInv'
<1> SUFFICES ASSUME NEW i \in 1..Len(wal), Settled(i)
             PROVE  /\ wal[i].kind \in {"plain", "commitPrepared"} => wal[i].xid \in handed'
                    /\ wal[i].kind \in Finish => wal[i].xid \notin gids'
                    /\ (wal[i].kind = "prepare" /\ two_phase' /\ ~Late(wal[i].xid)')
                          => wal[i].xid \in prepared'
  BY Zenon DEF SettledInv
<1>1. Late(wal[i].xid)' = Late(wal[i].xid)
  BY PrepareStays DEF Late
<1>. QED
  BY <1>1, Zenon DEF SettledInv

LEMMA HistoryStays ==
    ASSUME PreparedInv, HandedInv,
           UNCHANGED <<wal, two_phase, two_phase_at, gids, origin, handed, prepared, repeated>>
    PROVE  PreparedInv' /\ HandedInv'
<1>1. \A x : /\ PrepareOf(x)' = PrepareOf(x) /\ Late(x)' = Late(x)
             /\ \A S : Has(x, S)' = Has(x, S)
  BY PrepareStays DEF Late
<1>2. PreparedInv'
  BY <1>1 DEF PreparedInv
<1>3. HandedInv'
  BY <1>1 DEF HandedInv
<1>. QED
  BY <1>2, <1>3

(* The positions are natural numbers.                                      *)
LEMMA PositionType ==
    ASSUME TypeOK, SlotInv
    PROVE  /\ confirmed \in Nat /\ confirmed_disk \in Nat /\ origin \in Nat /\ sent \in Nat
           /\ start \in Nat /\ two_phase_at \in Nat /\ Len(wal) \in Nat
<1>1. Len(wal) \in Nat
  BY RecordType
<1>2. 0..EndLsn(Len(wal)) \subseteq Nat
  BY <1>1 DEF EndLsn
<1>. QED
  BY <1>1, <1>2 DEF TypeOK, SlotInv

(* A session ends; the server or the publisher may have crashed.           *)
LEMMA EndedInv ==
    ASSUME IInv, Ended,
           UNCHANGED <<wal, confirmed_disk, two_phase, two_phase_at, state_disk, gids, origin,
                       handed, prepared, repeated>>,
           confirmed' = confirmed \/ confirmed' = confirmed_disk,
           state' = state \/ state' = state_disk
    PROVE  IInv'
<1> USE DEF Ended
<1>1. TypeOK /\ SlotInv /\ SettledInv
  BY DEF IInv
<1>2. /\ confirmed \in Nat /\ confirmed_disk \in Nat /\ origin \in Nat
      /\ two_phase_at \in Nat /\ Len(wal) \in Nat /\ confirmed_disk <= confirmed
      /\ two_phase_at <= Later(origin, confirmed_disk)
  BY <1>1, PositionType DEF SlotInv
<1>3. confirmed' \in Nat /\ confirmed_disk <= confirmed' /\ confirmed' <= confirmed
  BY <1>2
<1>4. TypeOK'
  <2>1. {confirmed', confirmed_disk', origin'} \subseteq 0..EndLsn(Len(wal))
    BY <1>1 DEF TypeOK
  <2>2. two_phase_at <= Later(origin, confirmed')
    BY <1>2, <1>3 DEF Later
  <2>3. sent' \in 0..Len(wal)
    BY <1>2
  <2>4. state_disk' = "enabled" => state' = "enabled"
    BY <1>1 DEF TypeOK
  <2>5. state' = "enabled" => two_phase'
    BY <1>1 DEF TypeOK
  <2>. QED
    BY <1>1, <2>1, <2>2, <2>3, <2>4, <2>5, Zenon DEF TypeOK
<1>5. SettledInv'
  <2>1. ASSUME NEW i \in 1..Len(wal), Settled(i)' PROVE Settled(i)
    BY <2>1, <1>2, <1>3 DEF Settled, Covered, Passed, EndLsn
  <2>. QED
    BY <1>1, <2>1, SettledStays
<1>6. SlotInv'
  <2>1. start' \in 0..EndLsn(Len(wal))
    BY <1>2 DEF EndLsn
  <2>2. two_phase \in BOOLEAN
    BY <1>1 DEF SlotInv
  <2>. QED
    BY <1>2, <1>3, <2>1, <2>2, Zenon DEF SlotInv
<1>7. OutInv'
  BY DEF OutInv
<1>. QED
  BY <1>4, <1>5, <1>6, <1>7, WalStays, HistoryStays DEF IInv

(* A session begins, and the first one that may ask for it enables         *)
(* two-phase decoding from where it starts.                                *)
LEMMA StartSessionInv ==
    ASSUME IInv, StartSession
    PROVE  IInv'
<1> DEFINE at == Later(origin, confirmed)
           enables == state = "pending" /\ tables_ready /\ ~two_phase
<1>1. TypeOK /\ SlotInv /\ SettledInv /\ PreparedInv /\ HandedInv /\ WalInv
  BY DEF IInv
<1>2. /\ confirmed \in Nat /\ confirmed_disk \in Nat /\ origin \in Nat /\ sent \in Nat
      /\ two_phase_at \in Nat /\ Len(wal) \in Nat /\ confirmed_disk <= confirmed
      /\ two_phase_at <= Later(origin, confirmed_disk)
  BY <1>1, PositionType DEF SlotInv
<1>3. /\ up' = TRUE /\ start' = at /\ sent' = 0 /\ out' = <<>>
      /\ UNCHANGED <<wal, confirmed, origin, gids, state_disk, handed, prepared, repeated>>
  BY DEF StartSession, historyVars
<1>4. /\ enables => two_phase_at' = at /\ confirmed_disk' = confirmed /\ two_phase' = TRUE
      /\ ~enables => two_phase_at' = two_phase_at /\ confirmed_disk' = confirmed_disk
  BY Zenon DEF StartSession, TwoPhaseAt
<1>5. /\ twophase' = two_phase' /\ two_phase' \in BOOLEAN
      /\ two_phase => two_phase' = TRUE
      /\ ~enables => two_phase' = two_phase
  <2>1. two_phase \in BOOLEAN
    BY <1>1 DEF SlotInv
  <2>. QED
    BY <2>1 DEF StartSession
<1>6. at \in Nat /\ origin <= at /\ confirmed <= at /\ (at = origin \/ at = confirmed)
  BY <1>2 DEF Later
<1>7. confirmed_disk' \in Nat /\ confirmed_disk' <= confirmed /\ two_phase_at' \in Nat
      /\ two_phase_at' <= Later(origin, confirmed_disk') /\ two_phase_at' <= at
  BY <1>2, <1>4 DEF Later
<1>8. TypeOK'
  <2>1. {confirmed', confirmed_disk', origin'} \subseteq 0..EndLsn(Len(wal))
    BY <1>1, <1>3, <1>4 DEF TypeOK
  <2>2. sent' \in 0..Len(wal)
    BY <1>2, <1>3
  <2>3. state' = "enabled" => two_phase'
    BY <1>1, <1>5, Zenon DEF StartSession, TypeOK
  <2>4. state_disk = "enabled" => state' = "enabled"
    BY <1>1 DEF StartSession, TypeOK
  <2>5. twophase' = (up' /\ two_phase')
    BY <1>3, <1>5
  <2>. QED
    BY <1>1, <1>3, <1>7, <2>1, <2>2, <2>3, <2>4, <2>5 DEF TypeOK
<1>9. SettledInv'
  <2>1. ASSUME NEW i \in 1..Len(wal), Settled(i)' PROVE Covered(i) /\ EndLsn(i) <= at
    BY <2>1, <1>2, <1>3, <1>6 DEF Settled, Covered, Passed, EndLsn
  <2>2. CASE enables
    <3>1. ASSUME NEW i \in 1..Len(wal), Settled(i)', wal[i].kind = "prepare"
          PROVE  Late(wal[i].xid)'
      BY <2>1, <2>2, <3>1, <1>1, <1>3, <1>4, PrepareUnique, PrepareStays DEF Late, EndLsn
    <3>. QED
      BY <2>1, <3>1, <1>1, <1>3, Zenon DEF SettledInv, Settled
  <2>3. CASE ~enables
    <3>1. ASSUME NEW i \in 1..Len(wal), Settled(i)' PROVE Settled(i)
      BY <3>1, <2>1 DEF Settled
    <3>. QED
      BY <2>3, <3>1, <1>1, <1>3, <1>4, <1>5, SettledStays
  <2>. QED
    BY <2>2, <2>3
<1>10. PreparedInv' /\ HandedInv'
  <2>1. CASE enables
    <3>1. prepared = {} /\ repeated = {}
      BY <2>1, <1>1 DEF PreparedInv
    <3>2. \A x \in handed : Has(x, {"plain", "commitPrepared"})'
      BY <2>1, <1>1, <1>3, PrepareStays, Zenon DEF HandedInv
    <3>. QED
      BY <3>1, <3>2, <1>3 DEF PreparedInv, HandedInv
  <2>2. CASE ~enables
    BY <2>2, <1>1, <1>3, <1>4, <1>5, HistoryStays
  <2>. QED
    BY <2>1, <2>2
<1>11. SlotInv'
  <2>1. start' \in 0..EndLsn(Len(wal))
    BY <1>1, <1>3, <1>6 DEF TypeOK
  <2>2. origin <= Later(start', EndLsn(sent')) /\ confirmed <= Later(start', EndLsn(sent'))
    BY <1>2, <1>3, <1>6 DEF Later, EndLsn
  <2>. QED
    BY <1>3, <1>5, <1>7, <2>1, <2>2 DEF SlotInv
<1>12. OutInv'
  BY <1>3 DEF OutInv
<1>. QED
  BY <1>3, <1>8, <1>9, <1>10, <1>11, <1>12, WalStays DEF IInv

(* Feedback, and the slot written out.                                     *)
LEMMA ConfirmInv ==
    ASSUME IInv, Confirm
    PROVE  IInv'
<1>1. TypeOK /\ SlotInv /\ SettledInv /\ OutInv
  BY DEF IInv
<1>2. /\ confirmed \in Nat /\ confirmed_disk \in Nat /\ origin \in Nat /\ sent \in Nat
      /\ two_phase_at \in Nat /\ Len(wal) \in Nat /\ confirmed_disk <= confirmed
      /\ start \in Nat
  BY <1>1, PositionType DEF SlotInv
<1>3. /\ up /\ out = <<>> /\ sent > 0 /\ EndLsn(sent) > confirmed /\ confirmed' = EndLsn(sent)
      /\ UNCHANGED <<wal, confirmed_disk, two_phase, two_phase_at, up, twophase, start, sent, out,
                     state, state_disk, gids, origin, handed, prepared, repeated>>
  BY DEF Confirm, sessionVars, subscriberVars, historyVars
<1>4. confirmed' \in Nat /\ confirmed <= confirmed'
  BY <1>2, <1>3 DEF EndLsn
<1>5. TypeOK'
  <2>1. sent \in 0..Len(wal)
    BY <1>1 DEF TypeOK
  <2>2. confirmed' \in 0..EndLsn(Len(wal))
    BY <2>1, <1>2, <1>3 DEF EndLsn
  <2>3. {confirmed', confirmed_disk, origin} \subseteq 0..EndLsn(Len(wal))
    BY <2>2, <1>1 DEF TypeOK
  <2>4. two_phase_at <= Later(origin, confirmed')
    BY <1>1, <1>2, <1>4 DEF TypeOK, Later
  <2>. QED
    BY <1>1, <1>3, <2>3, <2>4 DEF TypeOK
<1>6. SettledInv'
  <2>1. ASSUME NEW i \in 1..Len(wal), Settled(i)' PROVE Settled(i)
    BY <2>1, <1>2, <1>3 DEF Settled, Covered, Passed, EndLsn
  <2>. QED
    BY <1>1, <1>3, <2>1, SettledStays
<1>7. SlotInv'
  <2>1. confirmed' <= Later(start, EndLsn(sent)) /\ confirmed_disk <= confirmed'
    BY <1>2, <1>3, <1>4 DEF Later, EndLsn
  <2>. QED
    BY <1>1, <1>3, <2>1 DEF SlotInv
<1>8. OutInv'
  BY <1>3 DEF OutInv
<1>. QED
  BY <1>3, <1>5, <1>6, <1>7, <1>8, WalStays, HistoryStays DEF IInv

LEMMA OutStays ==
    ASSUME OutInv, UNCHANGED <<wal, two_phase_at, twophase, sent, out, gids, handed>>
    PROVE  OutInv'
<1>1. Of' = Of /\ Late(Of)' = Late(Of)
  BY PrepareStays DEF Late, Of
<1>. QED
  BY <1>1, Zenon DEF OutInv

LEMMA SaveSlotInv ==
    ASSUME IInv, SaveSlot
    PROVE  IInv'
<1>1. TypeOK /\ SlotInv /\ SettledInv /\ OutInv
  BY DEF IInv
<1>2. /\ confirmed \in Nat /\ confirmed_disk \in Nat /\ origin \in Nat
      /\ two_phase_at \in Nat /\ confirmed_disk <= confirmed
  BY <1>1, PositionType DEF SlotInv
<1>3. /\ confirmed_disk' = confirmed
      /\ UNCHANGED <<wal, confirmed, two_phase, two_phase_at, up, twophase, start, sent, out,
                     state, state_disk, gids, origin, handed, prepared, repeated>>
  BY DEF SaveSlot, sessionVars, subscriberVars, historyVars
<1>4. TypeOK'
  BY <1>1, <1>3 DEF TypeOK
<1>5. SettledInv'
  <2>1. ASSUME NEW i \in 1..Len(wal), Settled(i)' PROVE Settled(i)
    BY <2>1, <1>3 DEF Settled, Covered, Passed
  <2>. QED
    BY <1>1, <1>3, <2>1, SettledStays
<1>6. SlotInv'
  <2>1. two_phase_at <= Later(origin, confirmed)
    BY <1>1 DEF TypeOK
  <2>2. confirmed <= confirmed
    BY <1>2
  <2>. QED
    BY <1>1, <1>3, <2>1, <2>2 DEF SlotInv
<1>. QED
  BY <1>1, <1>3, <1>4, <1>5, <1>6, OutStays, WalStays, HistoryStays DEF IInv

(* Steps that change nothing the invariant is about.                       *)
LEMMA OtherInv ==
    ASSUME IInv,
           UNCHANGED <<wal, confirmed, confirmed_disk, two_phase, two_phase_at, up, twophase,
                       start, sent, out, state, state_disk, gids, origin, handed, prepared,
                       repeated>>
    PROVE  IInv'
<1>1. TypeOK /\ SlotInv /\ SettledInv /\ OutInv
  BY DEF IInv
<1>2. TypeOK' /\ SlotInv'
  BY <1>1 DEF TypeOK, SlotInv
<1>3. SettledInv'
  <2>1. ASSUME NEW i \in 1..Len(wal), Settled(i)' PROVE Settled(i)
    BY <2>1 DEF Settled, Covered, Passed
  <2>. QED
    BY <1>1, <2>1, SettledStays
<1>. QED
  BY <1>1, <1>2, <1>3, OutStays, WalStays, HistoryStays DEF IInv

-----------------------------------------------------------------------------
(* The publisher's clients                                                 *)

(* What a client may write: a transaction, or the end of a prepared one.   *)
MayWrite(x, k) ==
    \/ k \in {"plain", "prepare"} /\ ~Has(x, RecordKind)
    \/ k \in Finish /\ Has(x, {"prepare"}) /\ ~Has(x, Finish)

(* The records that were there stay where they are.                        *)
LEMMA Appended ==
    ASSUME TypeOK, NEW x \in Xid, NEW k \in RecordKind, Writes(x, k)
    PROVE  /\ wal' \in Seq([xid : Xid, kind : RecordKind])
           /\ Len(wal) \in Nat /\ Len(wal') = Len(wal) + 1
           /\ \A i \in 1..Len(wal) : i \in 1..Len(wal') /\ wal'[i] = wal[i]
           /\ wal'[Len(wal) + 1] = [xid |-> x, kind |-> k]
           /\ \A i \in 1..Len(wal') : i \in 1..Len(wal) \/ i = Len(wal) + 1
<1> DEFINE R == [xid : Xid, kind : RecordKind]
           r == [xid |-> x, kind |-> k]
<1>1. wal \in Seq(R) /\ r \in R /\ wal' = Append(wal, r)
  BY DEF TypeOK, Writes
<1> HIDE DEF R, r
<1>2. /\ wal' \in Seq(R) /\ Len(wal) \in Nat /\ Len(wal') = Len(wal) + 1
      /\ \A i \in 1..Len(wal) : wal'[i] = wal[i]
      /\ wal'[Len(wal) + 1] = r
  BY <1>1
<1>3. \A i \in 1..Len(wal) : i \in 1..Len(wal')
  BY <1>2
<1>4. \A i \in 1..Len(wal') : i \in 1..Len(wal) \/ i = Len(wal) + 1
  BY <1>2
<1>. QED
  BY <1>2, <1>3, <1>4 DEF R, r

(* The prepare of a transaction stays the one it is.                       *)
LEMMA PrepareKept ==
    ASSUME TypeOK, WalInv, NEW x \in Xid, NEW k \in RecordKind, MayWrite(x, k), Writes(x, k),
           NEW y, Has(y, {"prepare"})
    PROVE  PrepareOf(y)' = PrepareOf(y)
<1> DEFINE p == PrepareOf(y)
           P(i) == wal'[i] = [xid |-> y, kind |-> "prepare"]
<1>1. p \in 1..Len(wal) /\ wal[p].xid = y /\ wal[p].kind = "prepare"
  BY PrepareFound
<1>2. wal[p] \in [xid : Xid, kind : RecordKind]
  BY <1>1, RecordType
<1>3. P(p) /\ p \in 1..Len(wal')
  BY <1>1, <1>2, Appended, Zenon
<1>4. ASSUME NEW i \in 1..Len(wal'), P(i) PROVE i = p
  <2>1. CASE i \in 1..Len(wal)
    <3>1. wal[i] = [xid |-> y, kind |-> "prepare"]
      BY <1>4, <2>1, Appended, Zenon
    <3>2. wal[i].xid = y /\ wal[i].kind = "prepare"
      BY <3>1
    <3>. QED
      BY <3>2, <2>1, PrepareUnique
  <2>2. CASE i = Len(wal) + 1
    <3>1. [xid |-> x, kind |-> k] = [xid |-> y, kind |-> "prepare"]
      BY <1>4, <2>2, Appended
    <3>2. x = y /\ k = "prepare"
      BY <3>1
    <3>. QED
      BY <3>2, <1>1 DEF MayWrite, Has, RecordKind, Finish
  <2>. QED
    BY <2>1, <2>2, Appended, Zenon
<1> HIDE DEF p
<1>5. (CHOOSE i \in 1..Len(wal') : P(i)) = p
  BY <1>3, <1>4
<1>. QED
  BY <1>5 DEF p, PrepareOf

LEMMA WritesInv ==
    ASSUME IInv, NEW x \in Xid, NEW k \in RecordKind, MayWrite(x, k), Writes(x, k)
    PROVE  IInv'
<1> DEFINE n == Len(wal) + 1
<1>1. TypeOK /\ SlotInv /\ SettledInv /\ OutInv /\ WalInv /\ FinishInv /\ PreparedInv /\ HandedInv
  BY DEF IInv
<1>2. /\ confirmed \in Nat /\ confirmed_disk \in Nat /\ origin \in Nat /\ sent \in Nat
      /\ start \in Nat /\ Len(wal) \in Nat
  BY <1>1, PositionType
<1>3. UNCHANGED <<confirmed, confirmed_disk, two_phase, two_phase_at, up, twophase, start, sent,
                  out, state, state_disk, gids, origin, handed, prepared, repeated>>
  BY DEF Writes, slotVars, sessionVars, subscriberVars, historyVars
<1>4. /\ wal' \in Seq([xid : Xid, kind : RecordKind])
      /\ Len(wal') = n
      /\ \A i \in 1..Len(wal) : i \in 1..Len(wal') /\ wal'[i] = wal[i]
      /\ wal'[n].xid = x /\ wal'[n].kind = k
      /\ \A i \in 1..Len(wal') : i \in 1..Len(wal) \/ i = n
  <2>1. wal'[n] = [xid |-> x, kind |-> k]
    BY <1>1, Appended
  <2>2. wal'[n].xid = x /\ wal'[n].kind = k
    BY <2>1
  <2>. QED
    BY <2>2, <1>1, Appended, Zenon
<1>5. n \in Nat /\ n \notin 1..Len(wal) /\ \A i \in 1..Len(wal) : i < n
  BY <1>2
<1>6. \A y : Has(y, {"prepare"}) => PrepareOf(y)' = PrepareOf(y) /\ Late(y)' = Late(y)
  BY <1>1, <1>3, PrepareKept DEF Late
<1>7. \A y, S : Has(y, S) => Has(y, S)'
  BY <1>4 DEF Has
<1> HIDE DEF n
<1>8. TypeOK'
  <2>1. 0..EndLsn(Len(wal)) \subseteq 0..EndLsn(Len(wal')) /\ 0..Len(wal) \subseteq 0..Len(wal')
    BY <1>2, <1>4 DEF EndLsn, n
  <2>2. {confirmed', confirmed_disk', origin'} \subseteq 0..EndLsn(Len(wal'))
    BY <2>1, <1>1, <1>3 DEF TypeOK
  <2>3. sent' \in 0..Len(wal')
    BY <2>1, <1>1, <1>3 DEF TypeOK
  <2>. QED
    BY <1>1, <1>3, <1>4, <2>2, <2>3 DEF TypeOK
<1>9. WalInv'
  <2> SUFFICES ASSUME NEW i \in 1..Len(wal'), NEW j \in 1..Len(wal'), i < j,
                      wal'[i].xid = wal'[j].xid
               PROVE  wal'[i].kind = "prepare" /\ wal'[j].kind \in Finish
    BY DEF WalInv
  <2>1. i \in 1..Len(wal)
    <3>1. CASE i = n
      <4>1. i \in Nat /\ j \in Nat /\ j <= n
        BY <1>4, <1>5
      <4>. QED
        BY <3>1, <4>1
    <3>. QED
      BY <3>1, <1>4
  <2>2. CASE j \in 1..Len(wal)
    BY <2>1, <2>2, <1>1, <1>4 DEF WalInv
  <2>3. CASE j = n
    <3>1. wal[i].xid = x /\ wal[i].kind \in RecordKind
      BY <2>1, <2>3, <1>1, <1>4, RecordType
    <3>2. k \in Finish /\ Has(x, {"prepare"}) /\ wal[i].kind \notin Finish
      BY <2>1, <3>1, Zenon DEF MayWrite, Has
    <3>3. PICK p \in 1..Len(wal) : wal[p].xid = x /\ wal[p].kind = "prepare"
      BY <3>2 DEF Has
    <3>4. i < p \/ p < i \/ i = p
      BY <2>1, <1>2
    <3>5. wal[i].kind = "prepare"
      BY <2>1, <3>1, <3>2, <3>3, <3>4, <1>1 DEF WalInv
    <3>. QED
      BY <2>1, <2>3, <3>2, <3>5, <1>4
  <2>. QED
    BY <2>2, <2>3, <1>4
<1>10. FinishInv'
  <2> SUFFICES ASSUME NEW j \in 1..Len(wal'), wal'[j].kind \in Finish
               PROVE  \E i \in 1..j - 1 : wal'[i] = [xid |-> wal'[j].xid, kind |-> "prepare"]
    BY Zenon DEF FinishInv
  <2>1. CASE j \in 1..Len(wal)
    <3>1. PICK i \in 1..j - 1 : wal[i] = [xid |-> wal[j].xid, kind |-> "prepare"]
      BY <2>1, <1>1, <1>4 DEF FinishInv
    <3>2. i \in 1..Len(wal)
      BY <2>1, <1>2
    <3>. QED
      BY <2>1, <3>1, <3>2, <1>4
  <2>2. CASE j = n
    <3>1. Has(x, {"prepare"})
      BY <2>2, <1>4 DEF MayWrite, Finish
    <3>2. PICK p \in 1..Len(wal) : wal[p].xid = x /\ wal[p].kind = "prepare"
      BY <3>1 DEF Has
    <3>3. wal[p] = [xid |-> x, kind |-> "prepare"]
      BY <3>2, <1>1, RecordType
    <3>4. p \in 1..j - 1
      BY <2>2, <1>2 DEF n
    <3>. QED
      BY <2>2, <3>3, <3>4, <1>4
  <2>. QED
    BY <2>1, <2>2, <1>4
<1>11. SettledInv'
  <2>1. ASSUME NEW i \in 1..Len(wal'), Settled(i)' PROVE i \in 1..Len(wal) /\ Settled(i)
    <3>1. CASE i = n
      <4>1. origin <= EndLsn(Len(wal)) /\ confirmed <= EndLsn(Len(wal))
            /\ start <= EndLsn(Len(wal)) /\ sent <= Len(wal)
        BY <1>1, <1>2 DEF TypeOK, SlotInv, EndLsn
      <4>. QED
        BY <2>1, <3>1, <4>1, <1>2, <1>3 DEF Settled, Covered, Passed, EndLsn, n
    <3>. QED
      BY <2>1, <3>1, <1>3, <1>4 DEF Settled, Covered, Passed
  <2>2. \A i \in 1..Len(wal) : wal[i].kind = "prepare" => Late(wal[i].xid)' = Late(wal[i].xid)
    BY <1>4, <1>6 DEF Has
  <2>. QED
    BY <2>1, <2>2, <1>1, <1>3, <1>4, Zenon DEF SettledInv
<1>12. PreparedInv' /\ HandedInv'
  <2>1. PreparedInv'
    BY <1>1, <1>3, <1>4, <1>6, <1>7 DEF PreparedInv
  <2>2. HandedInv'
    BY <1>1, <1>3, <1>6, <1>7 DEF HandedInv
  <2>. QED
    BY <2>1, <2>2, Zenon
<1>13. SlotInv'
  <2>1. start' \in 0..EndLsn(Len(wal'))
    BY <1>1, <1>2, <1>3, <1>4 DEF SlotInv, EndLsn, n
  <2>. QED
    BY <2>1, <1>1, <1>3 DEF SlotInv
<1>14. OutInv'
  <2>1. CASE out = <<>>
    BY <2>1, <1>3 DEF OutInv
  <2>2. CASE out # <<>>
    <3>1. sent \in 1..Len(wal)
      BY <2>2, <1>1, <1>2 DEF SlotInv, TypeOK
    <3>2. wal'[sent] = wal[sent] /\ Of' = Of
      BY <3>1, <1>3, <1>4 DEF Of
    <3>3. wal[sent].kind = "commitPrepared" => Late(Of)' = Late(Of)
      BY <3>1, <3>2, <1>1, <1>6, FinishAfter DEF Finish, Of
    <3>. QED
      BY <3>2, <3>3, <1>1, <1>3, Zenon DEF OutInv
  <2>. QED
    BY <2>1, <2>2
<1>. QED
  BY <1>8, <1>9, <1>10, <1>11, <1>12, <1>13, <1>14 DEF IInv

-----------------------------------------------------------------------------
(* The walsender                                                           *)

(* Late() is the test of ReorderBufferFinishPrepared().                    *)
LEMMA LateTest ==
    ASSUME TypeOK, WalInv, SlotInv, NEW x, Has(x, {"prepare"})
    PROVE  Late(x) <=> StartLsn(PrepareOf(x)) < two_phase_at
<1>1. PrepareOf(x) \in Nat /\ two_phase_at \in Nat
  BY PrepareFound, PositionType
<1>. QED
  BY <1>1 DEF Late, StartLsn, EndLsn

(* A transaction that was sent at its prepare is still prepared when its   *)
(* end is decoded: the end of it cannot have been handled.                 *)
LEMMA StillPrepared ==
    ASSUME IInv, up, out = <<>>, NEW i \in 1..Len(wal), i = sent + 1, start < EndLsn(i),
           two_phase, wal[i].kind = "commitPrepared", ~Late(wal[i].xid)
    PROVE  wal[i].xid \in gids
<1> DEFINE x == wal[i].xid
<1>1. TypeOK /\ SlotInv /\ SettledInv /\ WalInv /\ FinishInv /\ PreparedInv
  BY DEF IInv
<1>2. origin \in Nat /\ sent \in Nat /\ start \in Nat /\ Len(wal) \in Nat
  BY <1>1, PositionType
<1>3. PICK p \in 1..Len(wal) : p < i /\ wal[p].xid = x /\ wal[p].kind = "prepare"
  BY <1>1, PrepareFound, FinishAfter DEF Finish
<1>4. Settled(p)
  BY <1>2, <1>3 DEF Settled, Passed
<1>5. x \in prepared
  BY <1>1, <1>3, <1>4, Zenon DEF SettledInv
<1>6. ASSUME x \notin gids PROVE FALSE
  <2>1. PICK j \in 1..Len(wal) :
            wal[j].xid = x /\ wal[j].kind \in Finish /\ EndLsn(j) <= origin
    BY <1>1, <1>5, <1>6 DEF PreparedInv
  <2>2. j < i \/ i < j \/ i = j
    BY <1>2
  <2>3. i = j
    BY <2>1, <2>2, <1>1 DEF WalInv, Finish
  <2>4. origin <= Later(start, EndLsn(sent))
    BY <1>1 DEF SlotInv
  <2>. QED
    BY <2>1, <2>3, <2>4, <1>2 DEF Later, EndLsn
<1>. QED
  BY <1>6

LEMMA DecodeRecordInv ==
    ASSUME IInv, DecodeRecord
    PROVE  IInv'
<1> DEFINE i == sent + 1
           r == wal[i]
<1>1. TypeOK /\ SlotInv /\ SettledInv /\ WalInv /\ FinishInv /\ PreparedInv
  BY DEF IInv
<1>2. /\ confirmed \in Nat /\ origin \in Nat /\ sent \in Nat /\ start \in Nat
      /\ Len(wal) \in Nat
  BY <1>1, PositionType
<1>3. /\ up /\ out = <<>> /\ sent < Len(wal) /\ sent' = i /\ out' = Decoded(i)
      /\ UNCHANGED <<wal, confirmed, confirmed_disk, two_phase, two_phase_at, up, twophase,
                     start, state, state_disk, gids, origin, handed, prepared, repeated>>
  BY DEF DecodeRecord, slotVars, subscriberVars, historyVars
<1>4. i \in 1..Len(wal) /\ i \in Nat
  BY <1>2, <1>3
<1>5. twophase <=> two_phase
  BY <1>1, <1>3, Zenon DEF TypeOK
<1>6. StartLsn(i) < start <=> EndLsn(i) <= start
  BY <1>2, <1>4 DEF StartLsn, EndLsn
<1>7. r.kind \in RecordKind
  BY <1>1, <1>4, RecordType
<1>8. \/ out' = <<>> /\ EndLsn(i) <= start
      \/ out' = <<>> /\ r.kind \in {"prepare", "rollbackPrepared"} /\ ~twophase
      \/ /\ start < EndLsn(i)
         /\ \/ /\ r.kind = "plain" \/ (r.kind = "commitPrepared" /\ ~twophase)
               /\ out' = <<"change", "commit">>
            \/ r.kind = "prepare" /\ twophase /\ out' = <<"change", "prepare">>
            \/ /\ r.kind = "commitPrepared" /\ twophase /\ Late(r.xid)
               /\ out' = <<"change", "prepare", "commitPrepared">>
            \/ /\ r.kind = "commitPrepared" /\ twophase /\ ~Late(r.xid)
               /\ out' = <<"commitPrepared">>
            \/ r.kind = "rollbackPrepared" /\ twophase /\ out' = <<"rollbackPrepared">>
  <2>1. CASE EndLsn(i) <= start
    <3>1. Decoded(i) = <<>>
      BY <2>1, <1>6, Zenon DEF Decoded
    <3>. QED
      BY <2>1, <3>1, <1>3
  <2>2. CASE ~(EndLsn(i) <= start)
    <3>1. start < EndLsn(i)
      BY <2>2, <1>2, <1>4 DEF EndLsn
    <3>2. r.kind = "commitPrepared" => (Late(r.xid) <=> StartLsn(PrepareOf(r.xid)) < two_phase_at)
      BY <1>1, <1>4, FinishAfter, LateTest DEF Finish
    <3>3. r.kind = "plain" => out' = <<"change", "commit">>
      BY <2>2, <1>3, <1>6 DEF Decoded
    <3>4. r.kind = "prepare" => out' = IF twophase THEN <<"change", "prepare">> ELSE <<>>
      BY <2>2, <1>3, <1>6 DEF Decoded
    <3>5. r.kind = "rollbackPrepared" => out' = IF twophase THEN <<"rollbackPrepared">> ELSE <<>>
      BY <2>2, <1>3, <1>6 DEF Decoded
    <3>6. r.kind = "commitPrepared" =>
              out' = IF twophase THEN FinishPrepared(r.xid) ELSE <<"change", "commit">>
      BY <2>2, <1>3, <1>6 DEF Decoded
    <3>. QED
      BY <3>1, <3>2, <3>3, <3>4, <3>5, <3>6, <1>7, Zenon DEF RecordKind, FinishPrepared
  <2>. QED
    BY <2>1, <2>2, Zenon
<1> HIDE DEF i
<1>9. TypeOK'
  <2>1. sent' \in 0..Len(wal)
    BY <1>2, <1>3 DEF i
  <2>. QED
    BY <2>1, <1>1, <1>3 DEF TypeOK
<1>10. SettledInv'
  <2>1. ASSUME NEW j \in 1..Len(wal), Settled(j)', ~Settled(j)
        PROVE  j = i /\ out' = <<>> /\ start < EndLsn(i)
    <3>1. j \in Nat
      OBVIOUS
    <3>2. Passed(j)' /\ ~Passed(j)
      BY <2>1, <1>3 DEF Settled, Covered
    <3>3. ~(EndLsn(j) <= start) /\ ~(j < sent) /\ j # sent
      BY <3>2, <1>3 DEF Passed
    <3>4. ~(j < i)
      BY <3>1, <3>3, <1>2 DEF i
    <3>5. j = i /\ out' = <<>>
      BY <3>2, <3>3, <3>4, <1>3 DEF Passed
    <3>. QED
      BY <3>1, <3>3, <3>5, <1>2 DEF EndLsn
  <2>2. ~twophase => gids = {}
    BY <1>1, <1>5 DEF PreparedInv, TypeOK
  <2>3. ASSUME NEW j \in 1..Len(wal), Settled(j)', ~Settled(j)
        PROVE  /\ wal[j].kind \in {"plain", "commitPrepared"} => wal[j].xid \in handed
               /\ wal[j].kind \in Finish => wal[j].xid \notin gids
               /\ ~(wal[j].kind = "prepare" /\ two_phase)
    <3>1. ~(EndLsn(i) <= start)
      BY <2>1, <2>3, <1>2, <1>4 DEF EndLsn
    <3>2. r.kind \in {"prepare", "rollbackPrepared"} /\ ~twophase
      BY <2>1, <2>3, <1>8, <3>1
    <3>. QED
      BY <2>1, <2>2, <2>3, <3>2, <1>5
  <2>4. ASSUME NEW x PROVE Late(x)' = Late(x)
    BY <1>3, PrepareStays DEF Late
  <2>. QED
    BY <2>3, <2>4, <1>1, <1>3, Zenon DEF SettledInv
<1>11. SlotInv'
  <2>1. /\ origin <= Later(start, EndLsn(sent)) /\ confirmed <= Later(start, EndLsn(sent))
    BY <1>1, <1>3 DEF SlotInv
  <2>2. origin <= Later(start, EndLsn(i)) /\ confirmed <= Later(start, EndLsn(i))
    BY <2>1, <1>2 DEF Later, EndLsn, i
  <2>3. out' # <<>> => start < EndLsn(i)
    BY <1>8
  <2>4. start < EndLsn(i) => origin < EndLsn(i) /\ confirmed < EndLsn(i)
    BY <2>1, <1>2 DEF Later, EndLsn, i
  <2>5. i > 0
    BY <1>2 DEF i
  <2>. QED
    BY <1>1, <1>3, <2>2, <2>3, <2>4, <2>5 DEF SlotInv
<1>12. OutInv'
  <2>1. Of' = r.xid /\ Late(Of)' = Late(r.xid)
    BY <1>3, PrepareStays DEF Of, Late
  <2>2. (start < EndLsn(i) /\ r.kind = "commitPrepared" /\ twophase /\ ~Late(r.xid))
            => r.xid \in gids
    BY <1>3, <1>4, <1>5, StillPrepared DEF i
  <2>3. wal'[sent'].kind = r.kind
    BY <1>3
  <2>. QED
    BY <1>3, <1>8, <2>1, <2>2, <2>3, Zenon DEF OutInv
<1>. QED
  BY <1>1, <1>3, <1>9, <1>10, <1>11, <1>12, WalStays, HistoryStays DEF IInv

-----------------------------------------------------------------------------
(* The handlers                                                            *)

(* What is left of the messages of a record once one is handled.           *)
LEMMA Tails ==
    /\ Tail(<<"change", "commit">>) = <<"commit">>
    /\ Tail(<<"change", "prepare">>) = <<"prepare">>
    /\ Tail(<<"change", "prepare", "commitPrepared">>) = <<"prepare", "commitPrepared">>
    /\ Tail(<<"prepare", "commitPrepared">>) = <<"commitPrepared">>
    /\ Tail(<<"commit">>) = <<>> /\ Tail(<<"prepare">>) = <<>>
    /\ Tail(<<"commitPrepared">>) = <<>> /\ Tail(<<"rollbackPrepared">>) = <<>>
OBVIOUS

LEMMA Heads ==
    /\ Head(<<"change", "commit">>) = "change" /\ Head(<<"change", "prepare">>) = "change"
    /\ Head(<<"change", "prepare", "commitPrepared">>) = "change"
    /\ Head(<<"prepare", "commitPrepared">>) = "prepare"
    /\ Head(<<"commit">>) = "commit" /\ Head(<<"prepare">>) = "prepare"
    /\ Head(<<"commitPrepared">>) = "commitPrepared"
    /\ Head(<<"rollbackPrepared">>) = "rollbackPrepared"
OBVIOUS

(* A message is of a record that is not settled.                           *)
LEMMA AtRecord ==
    ASSUME IInv, up, out # <<>>
    PROVE  /\ sent \in 1..Len(wal) /\ Of \in Xid /\ ~Settled(sent)
           /\ start < EndLsn(sent) /\ origin < EndLsn(sent) /\ confirmed < EndLsn(sent)
           /\ twophase <=> two_phase
<1>1. TypeOK /\ SlotInv
  BY DEF IInv
<1>2. /\ confirmed \in Nat /\ origin \in Nat /\ sent \in Nat /\ start \in Nat
      /\ Len(wal) \in Nat
  BY <1>1, PositionType
<1>3. /\ sent > 0 /\ start < EndLsn(sent) /\ origin < EndLsn(sent) /\ confirmed < EndLsn(sent)
  BY <1>1 DEF SlotInv
<1>4. sent \in 1..Len(wal)
  BY <1>1, <1>2, <1>3 DEF TypeOK
<1>5. Of \in Xid
  BY <1>1, <1>4, RecordType DEF Of
<1>6. ~Settled(sent)
  BY <1>2, <1>3 DEF Settled, Covered, Passed, EndLsn
<1>. QED
  BY <1>1, <1>3, <1>4, <1>5, <1>6, Zenon DEF TypeOK

(* A record that becomes settled is the one whose messages are handled,    *)
(* if the origin moves no further than that.                               *)
LEMMA SettledNext ==
    ASSUME IInv, up, out # <<>>, UNCHANGED <<confirmed, up, start, sent>>, origin' \in Nat,
           origin' <= EndLsn(sent), NEW i \in 1..Len(wal), Settled(i)', ~Settled(i)
    PROVE  i = sent /\ (out' = <<>> \/ origin' = EndLsn(sent))
<1>1. TypeOK /\ SlotInv
  BY DEF IInv
<1>2. /\ confirmed \in Nat /\ origin \in Nat /\ sent \in Nat /\ start \in Nat /\ i \in Nat
  BY <1>1, PositionType
<1>3. ~(EndLsn(i) <= confirmed) /\ ~(EndLsn(i) <= start) /\ ~(i < sent)
  BY DEF Settled, Covered, Passed
<1>4. (EndLsn(i) <= origin') \/ (i = sent /\ out' = <<>>)
  BY <1>3 DEF Settled, Covered, Passed
<1>. QED
  BY <1>2, <1>3, <1>4 DEF EndLsn

(* A transaction has no other record like the end of it, and none after    *)
(* an ordinary commit.                                                     *)
LEMMA OnlyRecord ==
    ASSUME TypeOK, WalInv, NEW i \in 1..Len(wal), NEW j \in 1..Len(wal),
           wal[i].xid = wal[j].xid, wal[i].kind = wal[j].kind \/ wal[i].kind = "plain"
                                    \/ (wal[i].kind \in Finish /\ wal[j].kind \in Finish)
    PROVE  i = j
<1>1. i < j \/ j < i \/ i = j
  BY RecordType
<1>. QED
  BY <1>1 DEF WalInv, Finish

LEMMA ApplyChangeInv ==
    ASSUME IInv, ApplyChange
    PROVE  IInv'
<1> DEFINE k == wal[sent].kind
<1>1. TypeOK /\ SlotInv /\ SettledInv /\ WalInv /\ FinishInv /\ PreparedInv /\ HandedInv /\ OutInv
  BY DEF IInv
<1>2. /\ confirmed \in Nat /\ origin \in Nat /\ sent \in Nat /\ start \in Nat
      /\ Len(wal) \in Nat /\ two_phase_at \in Nat
  BY <1>1, PositionType
<1>3. /\ up /\ out # <<>> /\ Head(out) = "change" /\ out' = Tail(out)
      /\ handed' = handed \cup {Of}
      /\ repeated' = IF Of \in prepared THEN repeated \cup {Of} ELSE repeated
      /\ UNCHANGED <<wal, confirmed, confirmed_disk, two_phase, two_phase_at, up, twophase,
                     start, sent, state, state_disk, gids, origin, prepared>>
  BY DEF ApplyChange, Gets, slotVars, subscriberVars
<1>4. /\ sent \in 1..Len(wal) /\ Of \in Xid /\ start < EndLsn(sent) /\ origin < EndLsn(sent)
      /\ twophase <=> two_phase
  BY <1>3, AtRecord
<1>5. \/ /\ k = "plain" \/ (k = "commitPrepared" /\ ~twophase)
         /\ out' = <<"commit">>
      \/ k = "prepare" /\ twophase /\ out' = <<"prepare">>
      \/ k = "commitPrepared" /\ twophase /\ Late(Of) /\ out' = <<"prepare", "commitPrepared">>
  BY <1>1, <1>3, Tails, Heads, Zenon DEF OutInv
<1>6. k = "prepare" => PrepareOf(Of) = sent /\ Has(Of, {"prepare"}) /\ ~Late(Of)
  <2>1. k = "prepare" => PrepareOf(Of) = sent /\ Has(Of, {"prepare"})
    BY <1>1, <1>4, PrepareUnique DEF Of, Has
  <2>2. two_phase_at <= start
    BY <1>1, <1>3 DEF SlotInv
  <2>3. two_phase_at < EndLsn(sent)
    BY <2>2, <1>2, <1>4 DEF EndLsn
  <2>. QED
    BY <2>1, <2>3, <1>2 DEF Late, EndLsn
<1>7. Of \in prepared => Late(Of)
  <2> SUFFICES ASSUME Of \in prepared PROVE Late(Of)
    OBVIOUS
  <2>1. two_phase /\ Has(Of, {"prepare"}) /\ EndLsn(PrepareOf(Of)) <= origin
    BY <1>1 DEF PreparedInv
  <2>2. k # "prepare"
    BY <2>1, <1>2, <1>4, <1>6 DEF EndLsn
  <2>3. k # "plain"
    <3>1. PICK p \in 1..Len(wal) : wal[p].xid = Of /\ wal[p].kind = "prepare"
      BY <2>1 DEF Has
    <3>. QED
      BY <3>1, <1>1, <1>4, OnlyRecord DEF Of
  <2>. QED
    BY <2>1, <2>2, <2>3, <1>4, <1>5
<1>8. \A x : /\ PrepareOf(x)' = PrepareOf(x) /\ Late(x)' = Late(x)
             /\ \A S : Has(x, S)' = Has(x, S)
  BY <1>3, PrepareStays DEF Late
<1>9. TypeOK'
  <2>1. handed' \subseteq Xid /\ prepared \subseteq handed'
    BY <1>1, <1>3, <1>4 DEF TypeOK
  <2>. QED
    BY <2>1, <1>1, <1>3 DEF TypeOK
<1>10. SettledInv'
  <2>1. out' # <<>> /\ origin' \in Nat /\ origin' <= EndLsn(sent) /\ origin' # EndLsn(sent)
    BY <1>2, <1>3, <1>4, <1>5 DEF EndLsn
  <2>2. ASSUME NEW i \in 1..Len(wal), Settled(i)' PROVE Settled(i)
    BY <2>1, <2>2, <1>3, SettledNext
  <2>. QED
    BY <2>2, <1>1, <1>3, <1>8, Zenon DEF SettledInv
<1>11. PreparedInv' /\ HandedInv'
  <2>1. \A x \in repeated' : x \in prepared /\ Late(x)
    BY <1>1, <1>3, <1>7 DEF PreparedInv
  <2>2. PreparedInv'
    BY <2>1, <1>1, <1>3, <1>8 DEF PreparedInv
  <2>3. k \in {"plain", "commitPrepared"} => Has(Of, {"plain", "commitPrepared"})
    BY <1>4 DEF Has, Of
  <2>4. HandedInv'
    BY <2>3, <1>1, <1>3, <1>4, <1>5, <1>6, <1>8, Zenon DEF HandedInv
  <2>. QED
    BY <2>2, <2>4
<1>12. SlotInv'
  BY <1>1, <1>3 DEF SlotInv
<1>13. OutInv'
  <2>1. Of' = Of /\ Of \in handed' /\ wal'[sent'].kind = k
    BY <1>3 DEF Of
  <2>. QED
    BY <2>1, <1>3, <1>5, <1>8, Zenon DEF OutInv
<1>. QED
  BY <1>1, <1>3, <1>9, <1>10, <1>11, <1>12, <1>13, WalStays DEF IInv

(* The last message of a record that leaves nothing prepared.              *)
LEMMA LastMessageInv ==
    ASSUME IInv, up, out # <<>>, out' = <<>>,
           UNCHANGED <<wal, confirmed, confirmed_disk, two_phase, two_phase_at, up, twophase,
                       start, sent, state, state_disk, gids, origin, handed, prepared, repeated>>,
           wal[sent].kind \in {"plain", "commitPrepared"} => Of \in handed,
           wal[sent].kind \in Finish => Of \notin gids,
           wal[sent].kind # "prepare"
    PROVE  IInv'
<1>1. TypeOK /\ SlotInv /\ SettledInv /\ WalInv /\ FinishInv /\ PreparedInv /\ HandedInv
  BY DEF IInv
<1>2. /\ origin \in Nat /\ sent \in Nat
  BY <1>1, PositionType
<1>3. TypeOK'
  BY <1>1 DEF TypeOK
<1>4. SettledInv'
  <2>1. origin' \in Nat /\ origin' <= EndLsn(sent)
    BY <1>2, AtRecord DEF EndLsn
  <2>2. ASSUME NEW i \in 1..Len(wal), Settled(i)' PROVE Settled(i) \/ i = sent
    BY <2>1, <2>2, SettledNext
  <2>3. ASSUME NEW x PROVE Late(x)' = Late(x)
    BY PrepareStays DEF Late
  <2>. QED
    BY <2>2, <2>3, <1>1, Zenon DEF SettledInv, Of
<1>5. SlotInv'
  BY <1>1 DEF SlotInv
<1>6. OutInv'
  BY DEF OutInv
<1>. QED
  BY <1>1, <1>3, <1>4, <1>5, <1>6, WalStays, HistoryStays DEF IInv

LEMMA ApplyCommitInv ==
    ASSUME IInv, ApplyCommit
    PROVE  IInv'
<1>1. TypeOK /\ PreparedInv /\ OutInv
  BY DEF IInv
<1>2. /\ up /\ out # <<>> /\ Head(out) = "commit" /\ out' = Tail(out)
      /\ UNCHANGED <<wal, confirmed, confirmed_disk, two_phase, two_phase_at, up, twophase,
                     start, sent, state, state_disk, gids, origin, handed, prepared, repeated>>
  BY DEF ApplyCommit, Gets, slotVars, subscriberVars, historyVars
<1>3. /\ wal[sent].kind = "plain" \/ (wal[sent].kind = "commitPrepared" /\ ~twophase)
      /\ out' = <<>> /\ Of \in handed
  BY <1>1, <1>2, Tails, Heads, Zenon DEF OutInv
<1>4. ~twophase => gids = {}
  BY <1>1, <1>2, Zenon DEF TypeOK, PreparedInv
<1>. QED
  BY <1>2, <1>3, <1>4, LastMessageInv DEF Finish

LEMMA ApplyPrepareInv ==
    ASSUME IInv, ApplyPrepare
    PROVE  IInv'
<1> DEFINE k == wal[sent].kind
           p == PrepareOf(Of)
<1>1. TypeOK /\ SlotInv /\ SettledInv /\ WalInv /\ FinishInv /\ PreparedInv /\ HandedInv /\ OutInv
  BY DEF IInv
<1>2. /\ confirmed \in Nat /\ confirmed_disk \in Nat /\ origin \in Nat /\ sent \in Nat
      /\ start \in Nat /\ Len(wal) \in Nat /\ two_phase_at \in Nat
  BY <1>1, PositionType
<1>3. /\ up /\ out # <<>> /\ Head(out) = "prepare" /\ out' = Tail(out) /\ Of \notin gids
      /\ gids' = gids \cup {Of} /\ prepared' = prepared \cup {Of}
      /\ origin' = Later(origin, EndLsn(p)) /\ state_disk' = state
      /\ UNCHANGED <<wal, confirmed, confirmed_disk, two_phase, two_phase_at, up, twophase,
                     start, sent, state, handed, repeated>>
  BY DEF ApplyPrepare, Flushes, Gets, slotVars
<1>4. /\ sent \in 1..Len(wal) /\ Of \in Xid /\ ~Settled(sent)
      /\ start < EndLsn(sent) /\ origin < EndLsn(sent) /\ (twophase <=> two_phase)
  BY <1>3, AtRecord
<1>5. /\ twophase /\ Of \in handed
      /\ \/ k = "prepare" /\ out' = <<>>
         \/ k = "commitPrepared" /\ out' = <<"commitPrepared">>
  BY <1>1, <1>3, Tails, Heads, Zenon DEF OutInv
<1>6. k = "prepare" => p = sent /\ Has(Of, {"prepare"})
  BY <1>1, <1>4, PrepareUnique DEF Of, Has
<1>7. k = "commitPrepared" => p \in 1..Len(wal) /\ p < sent /\ Has(Of, {"prepare"})
  BY <1>1, <1>4, FinishAfter, PrepareFound DEF Of, Finish
<1>8. p \in 1..Len(wal) /\ p <= sent /\ Has(Of, {"prepare"})
  BY <1>2, <1>4, <1>5, <1>6, <1>7
<1> HIDE DEF p
<1>9. /\ origin' \in Nat /\ origin <= origin' /\ EndLsn(p) <= origin' /\ origin' <= EndLsn(sent)
      /\ k = "commitPrepared" => origin' < EndLsn(sent)
  BY <1>2, <1>3, <1>4, <1>7, <1>8 DEF Later, EndLsn
<1>10. \A x : /\ PrepareOf(x)' = PrepareOf(x) /\ Late(x)' = Late(x)
              /\ \A S : Has(x, S)' = Has(x, S)
  BY <1>3, PrepareStays DEF Late
<1>11. TypeOK'
  <2>1. origin' \in 0..EndLsn(Len(wal))
    BY <1>2, <1>4, <1>9 DEF EndLsn
  <2>2. {confirmed, confirmed_disk, origin'} \subseteq 0..EndLsn(Len(wal))
    BY <2>1, <1>1 DEF TypeOK
  <2>3. two_phase_at <= Later(origin', confirmed)
    BY <1>1, <1>2, <1>9 DEF TypeOK, Later
  <2>4. gids' \subseteq prepared' /\ prepared' \subseteq handed
    BY <1>1, <1>3, <1>5 DEF TypeOK
  <2>. QED
    BY <2>2, <2>3, <2>4, <1>1, <1>3 DEF TypeOK
<1>12. SettledInv'
  <2>1. ASSUME NEW i \in 1..Len(wal), Settled(i)' PROVE Settled(i) \/ (i = sent /\ k = "prepare")
    <3>1. k = "commitPrepared" => out' # <<>>
      BY <1>5
    <3>2. k = "commitPrepared" => origin' # EndLsn(sent)
      BY <1>2, <1>9 DEF EndLsn
    <3>. QED
      BY <2>1, <3>1, <3>2, <1>3, <1>5, <1>9, SettledNext, Zenon
  <2>2. ASSUME NEW i \in 1..Len(wal), wal[i].kind \in Finish, Settled(i)' PROVE wal[i].xid # Of
    <3>1. CASE k = "prepare"
      <4> SUFFICES ASSUME wal[i].xid = Of PROVE FALSE
        OBVIOUS
      <4>1. sent < i
        BY <2>2, <3>1, <1>1, <1>4, FinishAfter, <1>6 DEF p
      <4>2. ~(EndLsn(i) <= origin') /\ ~(EndLsn(i) <= confirmed) /\ ~(EndLsn(i) <= start)
            /\ ~(i < sent) /\ i # sent
        BY <4>1, <1>2, <1>3, <1>4, <1>9, AtRecord DEF EndLsn
      <4>. QED
        BY <2>2, <4>2, <1>3 DEF Settled, Covered, Passed
    <3>2. CASE k = "commitPrepared"
      BY <2>1, <2>2, <3>2, <1>1, <1>4, OnlyRecord, Zenon DEF Of, Finish
    <3>. QED
      BY <3>1, <3>2, <1>5
  <2>3. k = "prepare" => wal[sent].xid \in prepared' /\ k \notin Finish
    BY <1>3 DEF Of, Finish
  <2>. QED
    BY <2>1, <2>2, <2>3, <1>1, <1>3, <1>10, Zenon DEF SettledInv
<1>13. PreparedInv' /\ HandedInv'
  <2>1. ASSUME NEW x \in prepared', x # Of
        PROVE  /\ two_phase /\ Has(x, {"prepare"}) /\ EndLsn(PrepareOf(x)) <= origin'
               /\ x \notin gids' => \E j \in 1..Len(wal) :
                      wal[j].xid = x /\ wal[j].kind \in Finish /\ EndLsn(j) <= origin'
    <3>1. x \in prepared /\ (x \notin gids' => x \notin gids)
      BY <2>1, <1>3
    <3>2. Has(x, {"prepare"}) /\ EndLsn(PrepareOf(x)) <= origin /\ PrepareOf(x) \in Nat
      BY <3>1, <1>1, PrepareFound DEF PreparedInv
    <3>3. EndLsn(PrepareOf(x)) <= origin'
      BY <3>2, <1>2, <1>9 DEF EndLsn
    <3>4. \A j \in 1..Len(wal) : EndLsn(j) <= origin => EndLsn(j) <= origin'
      BY <1>2, <1>9 DEF EndLsn
    <3>. QED
      BY <3>1, <3>2, <3>3, <3>4, <1>1 DEF PreparedInv
  <2>2. two_phase /\ Has(Of, {"prepare"}) /\ EndLsn(PrepareOf(Of)) <= origin' /\ Of \in gids'
    BY <1>3, <1>4, <1>5, <1>8, <1>9 DEF p
  <2>3. PreparedInv'
    BY <2>1, <2>2, <1>1, <1>3, <1>10, Zenon DEF PreparedInv
  <2>4. HandedInv'
    BY <1>1, <1>3, <1>10 DEF HandedInv
  <2>. QED
    BY <2>3, <2>4
<1>14. SlotInv'
  <2>1. origin' <= Later(start, EndLsn(sent)) /\ two_phase_at <= Later(origin', confirmed_disk)
    BY <1>1, <1>2, <1>4, <1>9 DEF SlotInv, Later, EndLsn
  <2>2. out' # <<>> => origin' < EndLsn(sent)
    BY <1>5, <1>9
  <2>. QED
    BY <2>1, <2>2, <1>1, <1>3 DEF SlotInv
<1>15. OutInv'
  <2>1. Of' = Of /\ Of \in gids' /\ wal'[sent'].kind = k
    BY <1>3 DEF Of
  <2>. QED
    BY <2>1, <1>3, <1>5 DEF OutInv
<1>. QED
  BY <1>1, <1>3, <1>11, <1>12, <1>13, <1>14, <1>15, WalStays DEF IInv

(* COMMIT PREPARED and ROLLBACK PREPARED of a transaction prepared here.   *)
LEMMA FinishesInv ==
    ASSUME IInv, up, out # <<>>, out' = <<>>, Of \in gids, wal[sent].kind \in Finish,
           gids' = gids \ {Of}, Flushes(EndLsn(sent)),
           UNCHANGED <<wal, confirmed, confirmed_disk, two_phase, two_phase_at, up, twophase,
                       start, sent, state, handed, prepared, repeated>>
    PROVE  IInv'
<1>1. TypeOK /\ SlotInv /\ SettledInv /\ WalInv /\ FinishInv /\ PreparedInv /\ HandedInv
  BY DEF IInv
<1>2. /\ confirmed \in Nat /\ confirmed_disk \in Nat /\ origin \in Nat /\ sent \in Nat
      /\ start \in Nat /\ Len(wal) \in Nat /\ two_phase_at \in Nat
  BY <1>1, PositionType
<1>3. /\ sent \in 1..Len(wal) /\ origin < EndLsn(sent)
  BY AtRecord
<1>4. origin' = EndLsn(sent) /\ origin' \in Nat /\ origin <= origin' /\ state_disk' = state
  BY <1>2, <1>3 DEF Flushes, Later, EndLsn
<1>5. \A x : /\ PrepareOf(x)' = PrepareOf(x) /\ Late(x)' = Late(x)
             /\ \A S : Has(x, S)' = Has(x, S)
  BY PrepareStays DEF Late
<1>6. TypeOK'
  <2>1. origin' \in 0..EndLsn(Len(wal))
    BY <1>2, <1>3, <1>4 DEF EndLsn
  <2>2. {confirmed, confirmed_disk, origin'} \subseteq 0..EndLsn(Len(wal))
    BY <2>1, <1>1 DEF TypeOK
  <2>3. two_phase_at <= Later(origin', confirmed)
    BY <1>1, <1>2, <1>4 DEF TypeOK, Later
  <2>4. gids' \subseteq prepared
    BY <1>1 DEF TypeOK
  <2>. QED
    BY <2>2, <2>3, <2>4, <1>1, <1>4 DEF TypeOK
<1>7. SettledInv'
  <2>1. origin' <= EndLsn(sent)
    BY <1>2, <1>4 DEF EndLsn
  <2>2. ASSUME NEW i \in 1..Len(wal), Settled(i)' PROVE Settled(i) \/ i = sent
    BY <2>1, <2>2, <1>4, SettledNext
  <2>3. Of \in handed /\ Of \notin gids' /\ gids' \subseteq gids
    BY <1>1 DEF TypeOK
  <2>4. wal[sent].kind # "prepare"
    BY DEF Finish
  <2>. QED
    BY <2>2, <2>3, <2>4, <1>1, <1>5 DEF SettledInv, Of
<1>8. PreparedInv'
  <2>1. ASSUME NEW x \in prepared
        PROVE  /\ two_phase /\ Has(x, {"prepare"}) /\ EndLsn(PrepareOf(x)) <= origin'
               /\ x \notin gids' => \E j \in 1..Len(wal) :
                      wal[j].xid = x /\ wal[j].kind \in Finish /\ EndLsn(j) <= origin'
    <3>1. two_phase /\ Has(x, {"prepare"}) /\ EndLsn(PrepareOf(x)) <= origin
      BY <1>1 DEF PreparedInv
    <3>2. EndLsn(PrepareOf(x)) <= origin'
      <4>1. PrepareOf(x) \in Nat
        BY <3>1, <1>1, PrepareFound
      <4>. QED
        BY <3>1, <4>1, <1>2, <1>4 DEF EndLsn
    <3>3. \A j \in 1..Len(wal) : EndLsn(j) <= origin => EndLsn(j) <= origin'
      BY <1>2, <1>4 DEF EndLsn
    <3>4. CASE x = Of
      <4>1. wal[sent].xid = x /\ wal[sent].kind \in Finish /\ EndLsn(sent) <= origin'
        BY <3>4, <1>2, <1>4 DEF Of, EndLsn
      <4>. QED
        BY <3>1, <3>2, <4>1, <1>3
    <3>5. CASE x # Of
      BY <3>1, <3>2, <3>3, <3>5, <1>1 DEF PreparedInv
    <3>. QED
      BY <3>4, <3>5
  <2>. QED
    BY <2>1, <1>1, <1>5, Zenon DEF PreparedInv
<1>9. HandedInv'
  BY <1>1, <1>5 DEF HandedInv
<1>10. SlotInv'
  <2>1. origin' <= Later(start, EndLsn(sent)) /\ two_phase_at <= Later(origin', confirmed_disk)
    BY <1>1, <1>2, <1>4 DEF SlotInv, Later, EndLsn
  <2>. QED
    BY <2>1, <1>1 DEF SlotInv
<1>11. OutInv'
  BY DEF OutInv
<1>. QED
  BY <1>1, <1>6, <1>7, <1>8, <1>9, <1>10, <1>11, WalStays DEF IInv

LEMMA ApplyCommitPreparedInv ==
    ASSUME IInv, ApplyCommitPrepared
    PROVE  IInv'
<1>1. OutInv
  BY DEF IInv
<1>2. /\ up /\ out # <<>> /\ Head(out) = "commitPrepared" /\ out' = Tail(out) /\ Of \in gids
      /\ gids' = gids \ {Of} /\ Flushes(EndLsn(sent))
      /\ UNCHANGED <<wal, confirmed, confirmed_disk, two_phase, two_phase_at, up, twophase,
                     start, sent, state, handed, prepared, repeated>>
  BY DEF ApplyCommitPrepared, Gets, slotVars, historyVars
<1>3. out' = <<>> /\ wal[sent].kind \in Finish
  BY <1>1, <1>2, Tails, Heads, Zenon DEF OutInv, Finish
<1>. QED
  BY <1>2, <1>3, FinishesInv

LEMMA ApplyRollbackPreparedInv ==
    ASSUME IInv, ApplyRollbackPrepared
    PROVE  IInv'
<1>1. OutInv
  BY DEF IInv
<1>2. /\ up /\ out # <<>> /\ Head(out) = "rollbackPrepared" /\ out' = Tail(out)
      /\ UNCHANGED <<wal, confirmed, confirmed_disk, two_phase, two_phase_at, up, twophase,
                     start, sent, state, handed, prepared, repeated>>
  BY DEF ApplyRollbackPrepared, Gets, slotVars, historyVars
<1>3. out' = <<>> /\ wal[sent].kind = "rollbackPrepared"
  BY <1>1, <1>2, Tails, Heads, Zenon DEF OutInv
<1>4. CASE Of \in gids /\ gids' = gids \ {Of} /\ Flushes(EndLsn(sent))
  BY <1>2, <1>3, <1>4, FinishesInv DEF Finish
<1>5. CASE Of \notin gids /\ UNCHANGED <<gids, origin, state_disk>>
  BY <1>2, <1>3, <1>5, LastMessageInv DEF Finish
<1>. QED
  BY <1>4, <1>5 DEF ApplyRollbackPrepared

-----------------------------------------------------------------------------
(* The theorems                                                            *)

LEMMA InvStep == IInv /\ [Next]_vars => IInv'
<1> SUFFICES ASSUME IInv, [Next]_vars PROVE IInv'
  OBVIOUS
<1> USE DEF slotVars, sessionVars, subscriberVars, historyVars
<1>1. CASE Client
  <2>1. PICK x \in Xid, k \in RecordKind : MayWrite(x, k) /\ Writes(x, k)
    <3>1. PICK x \in Xid : \/ ClientCommits(x) \/ ClientPrepares(x)
                           \/ \E k \in {"commitPrepared", "rollbackPrepared"} : ClientFinishes(x, k)
      BY <1>1 DEF Client
    <3>2. CASE ClientCommits(x)
      BY <3>2 DEF ClientCommits, MayWrite, RecordKind
    <3>3. CASE ClientPrepares(x)
      BY <3>3 DEF ClientPrepares, MayWrite, RecordKind
    <3>4. CASE \E k \in {"commitPrepared", "rollbackPrepared"} : ClientFinishes(x, k)
      BY <3>4 DEF ClientFinishes, MayWrite, RecordKind, Finish
    <3>. QED
      BY <3>1, <3>2, <3>3, <3>4
  <2>. QED
    BY <2>1, WritesInv
<1>2. CASE TablesReady
  BY <1>2, OtherInv DEF TablesReady
<1>3. CASE StartSession
  BY <1>3, StartSessionInv
<1>4. CASE ExitToEnable
  BY <1>4, EndedInv DEF ExitToEnable
<1>5. CASE WorkerExit
  BY <1>5, EndedInv DEF WorkerExit
<1>6. CASE ServerCrash
  BY <1>6, EndedInv DEF ServerCrash
<1>7. CASE PublisherCrash
  BY <1>7, EndedInv DEF PublisherCrash
<1>8. CASE Confirm
  BY <1>8, ConfirmInv
<1>9. CASE SaveSlot
  BY <1>9, SaveSlotInv
<1>10. CASE DecodeRecord
  BY <1>10, DecodeRecordInv
<1>11. CASE Apply
  <2>1. CASE PrepareFails
    BY <2>1, EndedInv DEF PrepareFails
  <2>. QED
    BY <1>11, <2>1, ApplyChangeInv, ApplyCommitInv, ApplyPrepareInv, ApplyCommitPreparedInv,
       ApplyRollbackPreparedInv DEF Apply
<1>12. CASE UNCHANGED vars
  BY <1>12, OtherInv DEF vars
<1>. QED
  BY <1>1, <1>2, <1>3, <1>4, <1>5, <1>6, <1>7, <1>8, <1>9, <1>10, <1>11, <1>12 DEF Next

LEMMA Invariance == Spec => []IInv
<1>1. Init => IInv
  BY InvInit
<1>2. IInv /\ [Next]_vars => IInv'
  BY InvStep
<1>. QED
  BY <1>1, <1>2, PTL DEF Spec

(* The positions stay within the WAL and two_phase_at behind them, the     *)
(* subscription is ENABLED only with a slot that decodes in two phases,    *)
(* and what is prepared here was given to the producer.                    *)
THEOREM TypeCorrect == Spec => []TypeOK
<1>1. IInv => TypeOK
  BY DEF IInv
<1>. QED
  BY <1>1, Invariance, PTL

(* apply_handle_commit_prepared() always finds the transaction it is to    *)
(* commit, for any number of transactions, restarts and crashes.           *)
THEOREM CommitFindsPreparedCorrect == Spec => []CommitFindsPrepared
<1>1. IInv => CommitFindsPrepared
  <2> SUFFICES ASSUME IInv, Gets("commitPrepared") PROVE Of \in gids
    BY DEF CommitFindsPrepared
  <2>. QED
    BY Heads DEF IInv, OutInv, Gets
<1>. QED
  BY <1>1, Invariance, PTL

(* Whatever send_feedback() has confirmed was given to the producer,       *)
(* whether the session that did it decoded in two phases or not.           *)
THEOREM ConfirmedMeansSentCorrect == Spec => []ConfirmedMeansSent
<1>1. IInv => ConfirmedMeansSent
  <2> SUFFICES ASSUME IInv, NEW i \in 1..Len(wal), wal[i].kind \in {"plain", "commitPrepared"},
                      confirmed >= EndLsn(i)
               PROVE  wal[i].xid \in handed
    BY DEF ConfirmedMeansSent
  <2>1. confirmed \in Nat /\ i \in Nat
    BY PositionType DEF IInv
  <2>2. Settled(i)
    BY <2>1 DEF Settled, Covered, EndLsn
  <2>. QED
    BY <2>2 DEF IInv, SettledInv
<1>. QED
  BY <1>1, Invariance, PTL

(* No prepared transaction outlives the confirmation of its end.           *)
THEOREM NoneLeftPreparedCorrect == Spec => []NoneLeftPrepared
<1>1. IInv => NoneLeftPrepared
  <2> SUFFICES ASSUME IInv, NEW i \in 1..Len(wal), wal[i].kind \in Finish,
                      confirmed >= EndLsn(i)
               PROVE  wal[i].xid \notin gids
    BY DEF NoneLeftPrepared, Finish
  <2>1. confirmed \in Nat /\ i \in Nat
    BY PositionType DEF IInv
  <2>2. Settled(i)
    BY <2>1 DEF Settled, Covered, EndLsn
  <2>. QED
    BY <2>2 DEF IInv, SettledInv
<1>. QED
  BY <1>1, Invariance, PTL

(* The changes of a prepared transaction are given to the producer again   *)
(* only if it was prepared before two_phase_at, where                      *)
(* ReorderBufferFinishPrepared() sends it with its COMMIT PREPARED.        *)
THEOREM PreparedOnceCorrect == Spec => []PreparedOnce
<1>1. IInv => PreparedOnce
  <2> SUFFICES ASSUME IInv, NEW x \in repeated PROVE StartLsn(PrepareOf(x)) < two_phase_at
    BY DEF PreparedOnce
  <2>1. TypeOK /\ WalInv /\ SlotInv /\ PreparedInv
    BY DEF IInv
  <2>2. Has(x, {"prepare"}) /\ Late(x)
    BY <2>1 DEF PreparedInv
  <2>. QED
    BY <2>1, <2>2, LateTest
<1>. QED
  BY <1>1, Invariance, PTL

(* The one way in which changes of a transaction that was rolled back are  *)
(* given to the producer: at a prepare that was decoded in two phases.     *)
THEOREM RolledBackSentAtPrepareCorrect == Spec => []RolledBackSentAtPrepare
<1>1. IInv => RolledBackSentAtPrepare
  <2> SUFFICES ASSUME IInv, NEW x \in handed, Has(x, {"rollbackPrepared"})
               PROVE  two_phase /\ StartLsn(PrepareOf(x)) >= two_phase_at
    BY DEF RolledBackSentAtPrepare
  <2>1. TypeOK /\ WalInv /\ SlotInv /\ HandedInv
    BY DEF IInv
  <2>2. PICK i \in 1..Len(wal) : wal[i].xid = x /\ wal[i].kind = "rollbackPrepared"
    BY DEF Has
  <2>3. ASSUME Has(x, {"plain", "commitPrepared"}) PROVE FALSE
    <3>1. PICK j \in 1..Len(wal) : wal[j].xid = x /\ wal[j].kind \in {"plain", "commitPrepared"}
      BY <2>3 DEF Has
    <3>2. i = j
      BY <2>1, <2>2, <3>1, OnlyRecord, Zenon DEF Finish
    <3>. QED
      BY <2>2, <3>1, <3>2
  <2>4. two_phase /\ Has(x, {"prepare"}) /\ ~Late(x)
    BY <2>1, <2>3 DEF HandedInv
  <2>5. PrepareOf(x) \in Nat /\ two_phase_at \in Nat
    BY <2>1, <2>4, PrepareFound, PositionType
  <2>. QED
    BY <2>4, <2>5 DEF Late, StartLsn, EndLsn
<1>. QED
  BY <1>1, Invariance, PTL
=============================================================================
