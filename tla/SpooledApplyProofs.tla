------------------------- MODULE SpooledApplyProofs -------------------------
(***************************************************************************)
(* The file of a streamed transaction holds what has not been rolled back, *)
(* for any number of transactions, blocks, changes and savepoints.         *)
(*                                                                         *)
(* First, what the walsender promises of the messages.  Subtransactions    *)
(* are numbered as they begin, so the numbers in nest increase.  The ones  *)
(* in progress, with those released into them, are the ones that began and *)
(* were not rolled back; of an aborted one the released ones are announced *)
(* first, and they are the later ones.                                     *)
(*                                                                         *)
(* Then, the file.  While a subtransaction is in progress every change is  *)
(* of it or of a later one: its changes, and those of the ones released    *)
(* into it, are the end of the file from its first change on.              *)
(***************************************************************************)
EXTENDS SpooledApply, TLAPS

(* A leaf is tried with SMT, then with Zenon, then with SMT again: the     *)
(* larger ones need more than the default time.                            *)
USE SMTT(30), ZenonT(30), SMTT(60)

StreamMsg == [kind : Kind, xid : Xid, sub : Nat, n : Nat]

-----------------------------------------------------------------------------
(* The walsender                                                           *)

PublisherType ==
    /\ phase \in [Xid -> {"new", "open", "commit", "prepare", "abort"}]
    /\ nest \in [Xid -> Seq(Seq(Nat))]
    /\ subs \in [Xid -> Nat]
    /\ dead \in [Xid -> SUBSET Nat]
    /\ log \in [Xid -> Seq(Nat)]
    /\ block \in SUBSET Xid
    /\ outbox \in Seq(StreamMsg)

(* Subtransaction s is in progress, or was released into one that is.      *)
Listed(x, s) ==
    \E i \in 1..Len(nest[x]) : \E a \in 1..Len(nest[x][i]) : nest[x][i][a] = s

Top(x, g) == \E i \in 1..Len(nest[x]) : nest[x][i][1] = g

NestInv(x) ==
    /\ Len(nest[x]) > 0 /\ \A i \in 1..Len(nest[x]) : Len(nest[x][i]) > 0
    /\ nest[x][1][1] = 0
    /\ \A i, j \in 1..Len(nest[x]) : \A a \in 1..Len(nest[x][i]), b \in 1..Len(nest[x][j]) :
            (i < j \/ (i = j /\ a < b)) => nest[x][i][a] < nest[x][j][b]
    /\ \A s \in Nat : Listed(x, s) <=> s <= subs[x] /\ s \notin dead[x]
    /\ \A s \in dead[x] : 0 < s /\ s <= subs[x]
    /\ \A n \in 1..Len(log[x]) : log[x][n] <= subs[x]
    /\ phase[x] = "new" => log[x] = <<>> /\ subs[x] = 0

(* What a message that was not handled says of its transaction.            *)
MessageInv(i) ==
    LET m == outbox[i]
        x == m.xid
        k == m.kind
        final == outbox[Len(outbox)]
    IN  /\ k # "abortSub" => i = Len(outbox)
        /\ k \notin {"abortSub", "abort"} => Len(outbox) = 1
        /\ k \in {"first", "start", "change", "stop"} => phase[x] = "open"
        /\ k = "first" => log[x] = <<>>
        /\ k = "change" => /\ Len(log[x]) > 0 /\ m.n = Len(log[x])
                           /\ m.sub = log[x][m.n] /\ m.sub = Current(x)
        /\ k \in {"commit", "prepare", "abort"} => phase[x] = k
        /\ k = "plain" => phase[x] = "commit" /\ log[x] = <<0>>
        /\ k = "abortSub" =>
            /\ m.sub > 0 /\ final.kind \in {"abort", "abortSub"}
            /\ final.kind = "abortSub" =>
                /\ phase[x] = "open" /\ m.sub \in dead[x] /\ final.sub <= m.sub
                /\ \A s \in Nat : Listed(x, s) => s < final.sub

OutboxInv ==
    /\ \A i, j \in 1..Len(outbox) : outbox[i].xid = outbox[j].xid
    /\ \A i \in 1..Len(outbox) : MessageInv(i)

StreamInv ==
    /\ PublisherType /\ OutboxInv
    /\ \A x \in block : phase[x] = "open"
    /\ \A x \in Xid : NestInv(x)

-----------------------------------------------------------------------------
(* Messages                                                                *)

LEMMA Kinds ==
    /\ "change" \in Kind /\ "stop" \in Kind /\ "abortSub" \in Kind /\ "plain" \in Kind
    /\ "abort" \in Kind /\ \A how \in {"commit", "prepare", "abort"} : how \in Kind
    /\ 0 \in Nat /\ 1 \in Nat
BY DEF Kind

LEMMA MsgType ==
    ASSUME NEW k \in Kind, NEW x \in Xid, NEW s \in Nat, NEW n \in Nat
    PROVE  /\ Msg(k, x, s, n) \in StreamMsg
           /\ Msg(k, x, s, n).kind = k /\ Msg(k, x, s, n).xid = x
           /\ Msg(k, x, s, n).sub = s /\ Msg(k, x, s, n).n = n
BY DEF Msg, StreamMsg

(* A message that is sent by itself.                                       *)
LEMMA SentAlone ==
    ASSUME NEW m \in StreamMsg, Sends(<<m>>)
    PROVE  /\ outbox = <<>> /\ outbox' \in Seq(StreamMsg) /\ Len(outbox') = 1 /\ outbox'[1] = m
           /\ \A i \in 1..Len(outbox') : i = 1
BY DEF Sends

LEMMA Appended ==
    ASSUME NEW S, NEW s \in Seq(S), NEW e \in S
    PROVE  /\ Append(s, e) \in Seq(S) /\ Len(s) \in Nat
           /\ Len(Append(s, e)) = Len(s) + 1 /\ Append(s, e)[Len(s) + 1] = e
           /\ \A i \in 1..Len(s) : Append(s, e)[i] = s[i]
           /\ \A i \in 1..Len(Append(s, e)) : i \in 1..Len(s) \/ i = Len(s) + 1
           /\ \A i \in 1..Len(s) : i \in 1..Len(Append(s, e))
           /\ Len(s) + 1 \in 1..Len(Append(s, e))
OBVIOUS

LEMMA Initial ==
    ASSUME NEW S, NEW s \in Seq(S), NEW n \in Nat, n <= Len(s)
    PROVE  /\ SubSeq(s, 1, n) \in Seq(S) /\ Len(SubSeq(s, 1, n)) = n
           /\ \A i \in 1..n : i \in 1..Len(s) /\ SubSeq(s, 1, n)[i] = s[i]
<1>1. \A i \in 1..n : i \in 1..Len(s)
  OBVIOUS
<1>2. SubSeq(s, 1, n) \in Seq(S)
  BY <1>1
<1>3. Len(SubSeq(s, 1, n)) = n
  OBVIOUS
<1>4. \A i \in 1..n : SubSeq(s, 1, n)[i] = s[i]
  BY <1>1
<1>. QED
  BY <1>1, <1>2, <1>3, <1>4

LEMMA Concatenated ==
    ASSUME NEW S, NEW s \in Seq(S), NEW t \in Seq(S)
    PROVE  /\ s \o t \in Seq(S) /\ Len(s) \in Nat /\ Len(t) \in Nat
           /\ Len(s \o t) = Len(s) + Len(t)
           /\ \A a \in 1..Len(s) : a \in 1..Len(s \o t) /\ (s \o t)[a] = s[a]
           /\ \A a \in 1..Len(t) : Len(s) + a \in 1..Len(s \o t) /\ (s \o t)[Len(s) + a] = t[a]
           /\ \A a \in 1..Len(s \o t) :
                \/ a \in 1..Len(s)
                \/ /\ a > Len(s) /\ a - Len(s) \in 1..Len(t) /\ (s \o t)[a] = t[a - Len(s)]
OBVIOUS

LEMMA NatSeq ==
    \A s \in Seq(Nat) : Len(s) \in Nat /\ \A a \in 1..Len(s) : s[a] \in Nat
OBVIOUS

(* Types of what a transaction has.                                        *)
LEMMA TypesOf ==
    ASSUME PublisherType, NEW x \in Xid
    PROVE  /\ nest[x] \in Seq(Seq(Nat)) /\ Len(nest[x]) \in Nat
           /\ \A i \in 1..Len(nest[x]) : nest[x][i] \in Seq(Nat) /\ Len(nest[x][i]) \in Nat
           /\ \A i \in 1..Len(nest[x]) : \A a \in 1..Len(nest[x][i]) : nest[x][i][a] \in Nat
           /\ subs[x] \in Nat
           /\ log[x] \in Seq(Nat) /\ Len(log[x]) \in Nat
           /\ \A n \in 1..Len(log[x]) : log[x][n] \in Nat
<1>1. nest[x] \in Seq(Seq(Nat)) /\ subs[x] \in Nat /\ log[x] \in Seq(Nat)
  BY DEF PublisherType
<1>2. \A i \in 1..Len(nest[x]) : nest[x][i] \in Seq(Nat)
  BY <1>1
<1>3. \A i \in 1..Len(nest[x]) :
        Len(nest[x][i]) \in Nat /\ \A a \in 1..Len(nest[x][i]) : nest[x][i][a] \in Nat
  BY <1>2, NatSeq, Zenon
<1>4. Len(nest[x]) \in Nat
  BY <1>1
<1>5. Len(log[x]) \in Nat /\ \A n \in 1..Len(log[x]) : log[x][n] \in Nat
  BY <1>1, NatSeq, Zenon
<1>. QED
  BY <1>1, <1>2, <1>3, <1>4, <1>5

(* The subtransaction in progress.                                         *)
LEMMA CurrentListed ==
    ASSUME PublisherType, NEW x \in Xid, NestInv(x)
    PROVE  /\ Current(x) \in Nat /\ Listed(x, Current(x)) /\ Top(x, Current(x))
           /\ Current(x) = nest[x][Len(nest[x])][1]
           /\ Current(x) <= subs[x] /\ Current(x) \notin dead[x]
           /\ \A g \in Nat : Top(x, g) => g <= Current(x)
<1> DEFINE l == Len(nest[x])
<1>1. l \in Nat /\ l > 0 /\ nest[x][l] \in Seq(Nat) /\ Len(nest[x][l]) > 0
  BY TypesOf DEF NestInv
<1>2. Current(x) = nest[x][l][1]
  BY <1>1 DEF Current, Innermost
<1>3. l \in 1..Len(nest[x]) /\ 1 \in 1..Len(nest[x][l])
  BY <1>1
<1>4. Current(x) \in Nat /\ Listed(x, Current(x)) /\ Top(x, Current(x))
  BY <1>2, <1>3, TypesOf, Zenon DEF Listed, Top
<1>5. \A g \in Nat : Top(x, g) => g <= Current(x)
  <2> SUFFICES ASSUME NEW i \in 1..Len(nest[x]) PROVE nest[x][i][1] <= Current(x)
    BY DEF Top
  <2>0. Len(nest[x][i]) \in Nat /\ Len(nest[x][i]) > 0
    BY TypesOf, Zenon DEF NestInv
  <2>1. 1 \in 1..Len(nest[x][i]) /\ nest[x][i][1] \in Nat
    BY <2>0, TypesOf
  <2>2. i < l \/ i = l
    BY <1>1
  <2>3. i < l => nest[x][i][1] < nest[x][l][1]
    BY <2>1, <1>3 DEF NestInv
  <2>4. nest[x][l][1] \in Nat
    BY <1>2, <1>4
  <2>. QED
    BY <2>1, <2>2, <2>3, <2>4, <1>2
<1>. QED
  BY <1>2, <1>4, <1>5, Zenon DEF NestInv

(* A transaction nothing happens to.                                       *)
LEMMA NestStays ==
    ASSUME NEW x, NestInv(x), nest'[x] = nest[x], subs'[x] = subs[x], dead'[x] = dead[x],
           log'[x] = log[x], phase'[x] = "new" => phase[x] = "new"
    PROVE  NestInv(x)'
<1>1. \A s : Listed(x, s)' <=> Listed(x, s)
  BY DEF Listed
<1>. QED
  BY <1>1, Zenon DEF NestInv

(* The subscriber handles a message.                                       *)
LEMMA HandledInv ==
    ASSUME StreamInv, outbox # <<>>, outbox' = Tail(outbox), UNCHANGED publisherVars
    PROVE  StreamInv'
<1>1. /\ UNCHANGED <<phase, nest, subs, dead, log, block>> /\ outbox' = Tail(outbox)
  BY DEF publisherVars
<1>2. outbox \in Seq(StreamMsg) /\ PublisherType
  BY DEF StreamInv, PublisherType
<1>3. /\ outbox' \in Seq(StreamMsg) /\ Len(outbox) \in Nat /\ Len(outbox') = Len(outbox) - 1
      /\ \A i \in 1..Len(outbox') : outbox'[i] = outbox[i + 1] /\ i + 1 \in 1..Len(outbox)
  BY <1>1, <1>2
<1>4. PublisherType'
  BY <1>1, <1>2, <1>3 DEF PublisherType
<1>5. OutboxInv'
  <2>1. ASSUME NEW i \in 1..Len(outbox'), NEW j \in 1..Len(outbox')
        PROVE  outbox'[i].xid = outbox'[j].xid
    BY <1>3 DEF StreamInv, OutboxInv
  <2>2. ASSUME NEW i \in 1..Len(outbox') PROVE MessageInv(i)'
    <3>1. MessageInv(i + 1) /\ outbox'[i] = outbox[i + 1]
      BY <1>3 DEF StreamInv, OutboxInv
    <3>2. i + 1 = Len(outbox) <=> i = Len(outbox')
      BY <1>3
    <3>3. Len(outbox) # 1 /\ outbox'[Len(outbox')] = outbox[Len(outbox)]
      BY <1>3
    <3>4. \A x, s : /\ Listed(x, s)' <=> Listed(x, s)
                    /\ Current(x)' = Current(x)
      BY <1>1 DEF Listed, Current, Innermost
    <3>. QED
      BY <3>1, <3>2, <3>3, <3>4, <1>1, Zenon DEF MessageInv
  <2>. QED
    BY <2>1, <2>2 DEF OutboxInv
<1>6. ASSUME NEW x \in Xid PROVE NestInv(x)'
  BY <1>1, NestStays DEF StreamInv
<1>7. \A x \in block' : phase'[x] = "open"
  BY <1>1 DEF StreamInv
<1>. QED
  BY <1>4, <1>5, <1>6, <1>7 DEF StreamInv

-----------------------------------------------------------------------------
(* The steps of the walsender                                              *)

(* One message is sent, and the subtransactions of no other transaction    *)
(* change.                                                                 *)
LEMMA SendsInv ==
    ASSUME StreamInv, PublisherType', NEW m \in StreamMsg, Sends(<<m>>), NEW x \in Xid,
           \A y \in Xid \ {x} : /\ nest'[y] = nest[y] /\ subs'[y] = subs[y]
                                /\ dead'[y] = dead[y] /\ log'[y] = log[y] /\ phase'[y] = phase[y],
           \A y \in block' : phase'[y] = "open",
           NestInv(x)', MessageInv(1)'
    PROVE  StreamInv'
<1>1. Len(outbox') = 1 /\ \A i \in 1..Len(outbox') : i = 1
  BY SentAlone
<1>2. OutboxInv'
  BY <1>1 DEF OutboxInv
<1>3. ASSUME NEW y \in Xid PROVE NestInv(y)'
  <2>1. CASE y = x
    BY <2>1
  <2>2. CASE y # x
    BY <2>2, NestStays DEF StreamInv
  <2>. QED
    BY <2>1, <2>2
<1>. QED
  BY <1>2, <1>3 DEF StreamInv

LEMMA StreamStartInv ==
    ASSUME StreamInv, NEW x \in Xid, StreamStart(x)
    PROVE  StreamInv'
<1> DEFINE k == IF phase[x] = "new" THEN "first" ELSE "start"
           m == Msg(k, x, 0, 0)
<1>1. PublisherType /\ NestInv(x)
  BY DEF StreamInv
<1>2. k \in Kind
  BY DEF Kind
<1>3. m \in StreamMsg /\ m.kind = k /\ m.xid = x
  BY <1>2 DEF Msg, StreamMsg
<1>4. Sends(<<m>>)
  BY DEF StreamStart
<1>5. outbox' \in Seq(StreamMsg) /\ outbox'[1] = m /\ Len(outbox') = 1
  BY <1>3, <1>4, SentAlone
<1>6. /\ phase' \in [Xid -> {"new", "open", "commit", "prepare", "abort"}] /\ phase'[x] = "open"
      /\ \A y \in Xid \ {x} : phase'[y] = phase[y]
      /\ UNCHANGED <<nest, subs, dead, log>> /\ block' = {x}
  BY <1>1 DEF StreamStart, PublisherType
<1>7. PublisherType'
  BY <1>1, <1>5, <1>6 DEF PublisherType
<1>8. NestInv(x)'
  BY <1>1, <1>6, NestStays
<1>9. MessageInv(1)'
  <2>1. k = "first" => log[x] = <<>>
    BY <1>1 DEF NestInv
  <2>. QED
    BY <1>3, <1>5, <1>6, <2>1, Zenon DEF MessageInv
<1>. QED
  BY <1>3, <1>4, <1>6, <1>7, <1>8, <1>9, SendsInv

LEMMA StreamChangeInv ==
    ASSUME StreamInv, NEW x \in Xid, StreamChange(x)
    PROVE  StreamInv'
<1> DEFINE c == Current(x)
           n == Len(log[x]) + 1
           m == Msg("change", x, c, n)
<1>1. PublisherType /\ NestInv(x) /\ phase[x] = "open"
  BY DEF StreamInv, StreamChange
<1>2. c \in Nat /\ c <= subs[x] /\ n \in Nat /\ log[x] \in Seq(Nat) /\ subs[x] \in Nat
  BY <1>1, CurrentListed, TypesOf
<1> HIDE DEF c
<1>3. m \in StreamMsg /\ m.kind = "change" /\ m.xid = x /\ m.sub = c /\ m.n = n
  BY <1>2, Kinds DEF Msg, StreamMsg
<1>4. Sends(<<m>>)
  BY DEF StreamChange, c
<1>5. outbox' \in Seq(StreamMsg) /\ outbox'[1] = m /\ Len(outbox') = 1
  BY <1>3, <1>4, SentAlone
<1>6. /\ log' \in [Xid -> Seq(Nat)] /\ log'[x] = Append(log[x], c)
      /\ \A y \in Xid \ {x} : log'[y] = log[y]
      /\ UNCHANGED <<phase, nest, subs, dead, block>>
  BY <1>1, <1>2 DEF StreamChange, PublisherType, c
<1>7. PublisherType'
  BY <1>1, <1>5, <1>6 DEF PublisherType
<1>8. Len(log'[x]) = n /\ log'[x][n] = c /\ \A i \in 1..Len(log[x]) : log'[x][i] = log[x][i]
  BY <1>2, <1>6
<1>9. NestInv(x)'
  <2>1. \A s : Listed(x, s)' <=> Listed(x, s)
    BY <1>6 DEF Listed
  <2>2. \A i \in 1..Len(log'[x]) : i = n \/ i \in 1..Len(log[x])
    BY <1>2, <1>8
  <2>3. \A i \in 1..Len(log'[x]) : log'[x][i] <= subs[x]
    BY <1>1, <1>2, <1>8, <2>2, Zenon DEF NestInv
  <2>. QED
    BY <1>1, <1>6, <2>1, <2>3 DEF NestInv
<1>10. MessageInv(1)'
  <2>1. Current(x)' = c
    BY <1>6 DEF Current, Innermost, c
  <2>2. n > 0
    BY <1>2
  <2>. QED
    BY <1>1, <1>3, <1>5, <1>6, <1>8, <2>1, <2>2, Zenon DEF MessageInv
<1>11. \A y \in block' : phase'[y] = "open"
  BY <1>6 DEF StreamInv
<1>. QED
  BY <1>3, <1>4, <1>6, <1>7, <1>9, <1>10, <1>11, SendsInv

LEMMA StreamStopInv ==
    ASSUME StreamInv, NEW x \in Xid, StreamStop(x)
    PROVE  StreamInv'
<1> DEFINE m == Msg("stop", x, 0, 0)
<1>1. PublisherType /\ NestInv(x) /\ phase[x] = "open"
  BY DEF StreamInv, StreamStop
<1>2. m \in StreamMsg /\ m.kind = "stop" /\ m.xid = x
  BY Kinds DEF Msg, StreamMsg
<1>3. Sends(<<m>>)
  BY DEF StreamStop
<1>4. outbox' \in Seq(StreamMsg) /\ outbox'[1] = m /\ Len(outbox') = 1
  BY <1>2, <1>3, SentAlone
<1>5. UNCHANGED <<phase, nest, subs, dead, log>> /\ block' = {}
  BY DEF StreamStop
<1>6. PublisherType'
  BY <1>1, <1>4, <1>5 DEF PublisherType
<1>7. NestInv(x)'
  BY <1>1, <1>5, NestStays
<1>8. MessageInv(1)'
  BY <1>1, <1>2, <1>4, <1>5, Zenon DEF MessageInv
<1>. QED
  BY <1>2, <1>3, <1>5, <1>6, <1>7, <1>8, SendsInv

(* Only the subtransactions of x change.                                   *)
LEMMA NestStepInv ==
    ASSUME StreamInv, PublisherType', NEW x \in Xid, outbox = <<>>, outbox' = <<>>,
           \A y \in Xid \ {x} : nest'[y] = nest[y] /\ subs'[y] = subs[y],
           UNCHANGED <<phase, dead, log, block>>, NestInv(x)'
    PROVE  StreamInv'
<1>1. OutboxInv'
  <2>1. \A i \in 1..Len(outbox') : FALSE
    OBVIOUS
  <2>. QED
    BY <2>1 DEF OutboxInv
<1>2. ASSUME NEW y \in Xid PROVE NestInv(y)'
  <2>1. CASE y = x
    BY <2>1
  <2>2. CASE y # x
    BY <2>2, NestStays DEF StreamInv
  <2>. QED
    BY <2>1, <2>2
<1>. QED
  BY <1>1, <1>2 DEF StreamInv

LEMMA SavepointInv ==
    ASSUME StreamInv, NEW x \in Xid, Savepoint(x)
    PROVE  StreamInv'
<1> DEFINE l == Len(nest[x])
           s1 == subs[x] + 1
<1>1. PublisherType /\ NestInv(x) /\ phase[x] = "open"
  BY DEF StreamInv, Savepoint
<1>2. /\ nest[x] \in Seq(Seq(Nat)) /\ l \in Nat /\ subs[x] \in Nat /\ s1 \in Nat
      /\ <<s1>> \in Seq(Nat) /\ Len(<<s1>>) = 1 /\ <<s1>>[1] = s1
  BY <1>1, TypesOf
<1>3. /\ nest' \in [Xid -> Seq(Seq(Nat))] /\ nest'[x] = Append(nest[x], <<s1>>)
      /\ subs' \in [Xid -> Nat] /\ subs'[x] = s1
      /\ \A y \in Xid \ {x} : nest'[y] = nest[y] /\ subs'[y] = subs[y]
      /\ UNCHANGED <<phase, dead, log, block, outbox>> /\ outbox = <<>>
  BY <1>1, <1>2 DEF Savepoint, PublisherType
<1>4. PublisherType'
  BY <1>1, <1>3 DEF PublisherType
<1>5. /\ Len(nest'[x]) = l + 1 /\ nest'[x][l + 1] = <<s1>>
      /\ \A i \in 1..l : nest'[x][i] = nest[x][i]
      /\ \A i \in 1..Len(nest'[x]) : i \in 1..l \/ i = l + 1
  <2> DEFINE t == Append(nest[x], <<s1>>)
  <2>1. /\ Len(t) = l + 1 /\ t[l + 1] = <<s1>>
        /\ \A i \in 1..l : t[i] = nest[x][i]
        /\ \A i \in 1..Len(t) : i \in 1..l \/ i = l + 1
    BY <1>2, Appended
  <2>2. nest'[x] = t
    BY <1>3
  <2> HIDE DEF t, l, s1
  <2>. QED
    BY <2>1, <2>2
<1>6. \A i \in 1..l : \A a \in 1..Len(nest[x][i]) : nest[x][i][a] \in Nat /\ nest[x][i][a] < s1
  <2> SUFFICES ASSUME NEW i \in 1..l, NEW a \in 1..Len(nest[x][i])
               PROVE  nest[x][i][a] \in Nat /\ nest[x][i][a] < s1
    OBVIOUS
  <2>1. nest[x][i][a] \in Nat /\ Listed(x, nest[x][i][a])
    BY <1>1, TypesOf, Zenon DEF Listed
  <2>2. nest[x][i][a] <= subs[x]
    BY <1>1, <2>1 DEF NestInv
  <2>. QED
    BY <1>2, <2>1, <2>2
<1>7. \A s \in Nat : Listed(x, s)' <=> Listed(x, s) \/ s = s1
  <2>1. l + 1 \in 1..Len(nest'[x]) /\ 1 \in 1..Len(nest'[x][l + 1]) /\ nest'[x][l + 1][1] = s1
    BY <1>2, <1>5
  <2>2. ASSUME NEW s \in Nat, Listed(x, s) PROVE Listed(x, s)'
    <3>1. PICK i \in 1..l : \E a \in 1..Len(nest[x][i]) : nest[x][i][a] = s
      BY <2>2 DEF Listed
    <3>2. i \in 1..Len(nest'[x]) /\ nest'[x][i] = nest[x][i]
      BY <1>2, <1>5
    <3>. QED
      BY <3>1, <3>2 DEF Listed
  <2>3. \A s \in Nat : s = s1 => Listed(x, s)'
    BY <2>1 DEF Listed
  <2>4. ASSUME NEW s \in Nat, Listed(x, s)' PROVE Listed(x, s) \/ s = s1
    <3>1. PICK i \in 1..Len(nest'[x]) : \E a \in 1..Len(nest'[x][i]) : nest'[x][i][a] = s
      BY <2>4 DEF Listed
    <3>2. CASE i \in 1..l
      BY <1>5, <3>1, <3>2 DEF Listed
    <3>3. CASE i = l + 1
      <4>1. nest'[x][i] = <<s1>>
        BY <1>5, <3>3
      <4>. QED
        BY <4>1, <3>1, <1>2
    <3>. QED
      BY <1>5, <3>2, <3>3
  <2>. QED
    BY <2>2, <2>3, <2>4
<1>8. NestInv(x)'
  <2>1. /\ Len(nest'[x]) > 0 /\ \A i \in 1..Len(nest'[x]) : Len(nest'[x][i]) > 0
        /\ nest'[x][1][1] = 0
    <3>1. 1 \in 1..l
      BY <1>1, <1>2 DEF NestInv
    <3>2. l + 1 > 0 /\ Len(nest'[x]) = l + 1 /\ nest'[x][1] = nest[x][1] /\ nest[x][1][1] = 0
      BY <1>1, <1>2, <1>5, <3>1 DEF NestInv
    <3>3. ASSUME NEW i \in 1..Len(nest'[x]) PROVE Len(nest'[x][i]) > 0
      <4>1. CASE i \in 1..l
        BY <4>1, <1>1, <1>5, Zenon DEF NestInv
      <4>2. CASE i = l + 1
        BY <4>2, <1>2, <1>5
      <4>. QED
        BY <1>5, <4>1, <4>2
    <3>. QED
      BY <3>2, <3>3
  <2>2. ASSUME NEW i \in 1..Len(nest'[x]), NEW j \in 1..Len(nest'[x]),
               NEW a \in 1..Len(nest'[x][i]), NEW b \in 1..Len(nest'[x][j]),
               i < j \/ (i = j /\ a < b)
        PROVE  nest'[x][i][a] < nest'[x][j][b]
    <3>1. CASE j \in 1..l
      <4>1. i \in 1..l
        BY <1>2, <1>5, <2>2, <3>1
      <4>2. nest'[x][i] = nest[x][i] /\ nest'[x][j] = nest[x][j]
        BY <1>5, <3>1, <4>1
      <4>. QED
        BY <1>1, <2>2, <3>1, <4>1, <4>2 DEF NestInv
    <3>2. CASE j = l + 1
      <4>1. nest'[x][j] = <<s1>>
        BY <1>5, <3>2
      <4>2. b = 1 /\ nest'[x][j][b] = s1
        BY <4>1, <1>2
      <4>3. CASE i = l + 1
        <5>1. nest'[x][i] = <<s1>>
          BY <1>5, <4>3
        <5>2. a = 1
          BY <5>1, <1>2
        <5>. QED
          BY <5>2, <4>2, <4>3, <2>2, <3>2, <1>2
      <4>4. CASE i \in 1..l
        BY <4>4, <4>2, <1>5, <1>6, Zenon
      <4>. QED
        BY <1>5, <4>3, <4>4
    <3>. QED
      BY <1>5, <3>1, <3>2
  <2>3. \A s \in Nat : Listed(x, s)' <=> s <= s1 /\ s \notin dead[x]
    <3>1. \A s \in Nat : s <= s1 <=> s <= subs[x] \/ s = s1
      BY <1>2
    <3>2. s1 \notin dead[x]
      BY <1>1, <1>2 DEF NestInv
    <3>. QED
      BY <1>1, <1>2, <1>7, <3>1, <3>2 DEF NestInv
  <2>4. /\ \A s \in dead[x] : 0 < s /\ s <= s1
        /\ \A n \in 1..Len(log[x]) : log[x][n] <= s1
    <3>1. dead[x] \subseteq Nat /\ \A n \in 1..Len(log[x]) : log[x][n] \in Nat
      BY <1>1, TypesOf DEF PublisherType
    <3>. QED
      BY <1>1, <1>2, <3>1 DEF NestInv
  <2>. QED
    BY <1>1, <1>3, <2>1, <2>2, <2>3, <2>4, Zenon DEF NestInv
<1>. QED
  BY <1>3, <1>4, <1>8, NestStepInv

(* The subtransaction that is released joins its parent.                   *)
LEMMA Joined ==
    ASSUME NEW s \in Seq(Seq(Nat)), Len(s) > 1
    PROVE  LET r == Append(SubSeq(s, 1, Len(s) - 2), s[Len(s) - 1] \o s[Len(s)])
           IN  /\ r \in Seq(Seq(Nat)) /\ Len(s) \in Nat /\ Len(r) = Len(s) - 1
               /\ \A i \in 1..Len(s) - 2 : r[i] = s[i]
               /\ r[Len(s) - 1] = s[Len(s) - 1] \o s[Len(s)]
<1> DEFINE l == Len(s)
           g == SubSeq(s, 1, l - 2)
           c == s[l - 1] \o s[l]
           r == Append(g, c)
<1>1. l \in Nat /\ l - 2 \in Nat /\ l - 2 <= Len(s)
  OBVIOUS
<1>2. s[l] \in Seq(Nat) /\ s[l - 1] \in Seq(Nat)
  OBVIOUS
<1>3. g \in Seq(Seq(Nat)) /\ Len(g) = l - 2 /\ \A i \in 1..l - 2 : g[i] = s[i]
  <2> DEFINE m == l - 2
  <2>1. m \in Nat /\ m <= Len(s)
    BY <1>1
  <2> HIDE DEF m
  <2>2. /\ SubSeq(s, 1, m) \in Seq(Seq(Nat)) /\ Len(SubSeq(s, 1, m)) = m
        /\ \A i \in 1..m : SubSeq(s, 1, m)[i] = s[i]
    BY <2>1, Initial
  <2>. QED
    BY <2>2 DEF m
<1>4. c \in Seq(Nat)
  BY <1>2
<1> HIDE DEF g, c
<1>5. r \in Seq(Seq(Nat)) /\ Len(r) = l - 1 /\ r[l - 1] = c /\ \A i \in 1..l - 2 : r[i] = g[i]
  <2>1. /\ r \in Seq(Seq(Nat)) /\ Len(r) = Len(g) + 1 /\ r[Len(g) + 1] = c
        /\ \A i \in 1..Len(g) : r[i] = g[i]
    BY <1>3, <1>4, Appended
  <2>2. Len(g) + 1 = l - 1
    BY <1>1, <1>3
  <2>. QED
    BY <1>3, <2>1, <2>2
<1>. QED
  BY <1>1, <1>3, <1>5, Zenon DEF g, c

LEMMA ReleaseInv ==
    ASSUME StreamInv, NEW x \in Xid, Release(x)
    PROVE  StreamInv'
<1> DEFINE l == Len(nest[x])
           p == Len(nest[x][l - 1])
           c == nest[x][l - 1] \o nest[x][l]
<1>1. PublisherType /\ NestInv(x) /\ l > 1
  BY Zenon DEF StreamInv, Release
<1>2. nest[x] \in Seq(Seq(Nat)) /\ l \in Nat
  BY <1>1, TypesOf
<1>3. /\ nest' \in [Xid -> Seq(Seq(Nat))]
      /\ nest'[x] = Append(SubSeq(nest[x], 1, l - 2), c)
      /\ \A y \in Xid \ {x} : nest'[y] = nest[y] /\ subs'[y] = subs[y]
      /\ UNCHANGED <<phase, subs, dead, log, block, outbox>> /\ outbox = <<>>
  BY <1>1, <1>2, Joined, Zenon DEF Release, PublisherType
<1>4. /\ Len(nest'[x]) = l - 1
      /\ \A i \in 1..l - 2 : nest'[x][i] = nest[x][i]
      /\ nest'[x][l - 1] = c
  BY <1>1, <1>2, <1>3, Joined, ZenonT(30)
<1>5. nest[x][l - 1] \in Seq(Nat) /\ nest[x][l] \in Seq(Nat)
  BY <1>1, <1>2
<1>6. /\ p \in Nat /\ Len(nest[x][l]) \in Nat /\ Len(c) = p + Len(nest[x][l])
      /\ \A a \in 1..p : c[a] = nest[x][l - 1][a]
      /\ \A a \in 1..Len(nest[x][l]) : c[p + a] = nest[x][l][a]
      /\ \A a \in 1..Len(c) : a \in 1..p \/ (a > p /\ a - p \in 1..Len(nest[x][l])
                                             /\ c[a] = nest[x][l][a - p])
  <2> DEFINE u == nest[x][l - 1]
             v == nest[x][l]
  <2> HIDE DEF u, v
  <2>1. u \in Seq(Nat) /\ v \in Seq(Nat)
    BY <1>5 DEF u, v
  <2>2. /\ Len(u) \in Nat /\ Len(v) \in Nat /\ Len(u \o v) = Len(u) + Len(v)
        /\ \A a \in 1..Len(u) : (u \o v)[a] = u[a]
        /\ \A a \in 1..Len(v) : (u \o v)[Len(u) + a] = v[a]
        /\ \A a \in 1..Len(u \o v) :
                a \in 1..Len(u) \/ (a > Len(u) /\ a - Len(u) \in 1..Len(v)
                                     /\ (u \o v)[a] = v[a - Len(u)])
    BY <2>1, Concatenated
  <2>. QED
    BY <2>2, Zenon DEF u, v
<1>7. PublisherType'
  BY <1>1, <1>3, Zenon DEF PublisherType
<1>8. \A i \in 1..Len(nest'[x]) : i \in 1..l - 2 \/ i = l - 1
  BY <1>2, <1>4
<1> HIDE DEF l, p, c
<1>9. \A s : Listed(x, s)' <=> Listed(x, s)
  <2>1. ASSUME NEW s, Listed(x, s)' PROVE Listed(x, s)
    <3>1. PICK i \in 1..Len(nest'[x]) : \E a \in 1..Len(nest'[x][i]) : nest'[x][i][a] = s
      BY <2>1 DEF Listed
    <3>2. CASE i \in 1..l - 2
      <4>1. i \in 1..Len(nest[x])
        BY <3>2, <1>2 DEF l
      <4>. QED
        BY <3>1, <3>2, <4>1, <1>4 DEF Listed
    <3>3. CASE i = l - 1
      <4>1. PICK a \in 1..Len(c) : c[a] = s
        BY <3>1, <3>3, <1>4
      <4>2. l - 1 \in 1..Len(nest[x]) /\ l \in 1..Len(nest[x])
        BY <1>1, <1>2 DEF l
      <4>3. CASE a \in 1..p
        BY <4>1, <4>2, <4>3, <1>6, Zenon DEF Listed, p
      <4>4. CASE a - p \in 1..Len(nest[x][l]) /\ c[a] = nest[x][l][a - p]
        BY <4>1, <4>2, <4>4 DEF Listed
      <4>. QED
        BY <1>6, <4>3, <4>4
    <3>. QED
      BY <1>8, <3>2, <3>3
  <2>2. ASSUME NEW s, Listed(x, s) PROVE Listed(x, s)'
    <3>1. PICK i \in 1..l : \E a \in 1..Len(nest[x][i]) : nest[x][i][a] = s
      BY <2>2 DEF Listed, l
    <3>2. PICK a \in 1..Len(nest[x][i]) : nest[x][i][a] = s
      BY <3>1
    <3>3. CASE i \in 1..l - 2
      <4>1. i \in 1..Len(nest'[x])
        BY <3>3, <1>2, <1>4
      <4>. QED
        BY <3>2, <3>3, <4>1, <1>4 DEF Listed
    <3>4. l - 1 \in 1..Len(nest'[x])
      BY <1>1, <1>2, <1>4
    <3>5. CASE i = l - 1
      <4>1. a \in 1..p
        BY <3>2, <3>5 DEF p
      <4>2. a \in 1..Len(c) /\ c[a] = s
        BY <4>1, <3>2, <3>5, <1>6
      <4>. QED
        BY <4>2, <3>4, <1>4 DEF Listed
    <3>6. CASE i = l
      <4>1. a \in 1..Len(nest[x][l]) /\ nest[x][l][a] = s
        BY <3>2, <3>6
      <4>2. p + a \in 1..Len(c) /\ c[p + a] = nest[x][l][a]
        BY <4>1, <1>6
      <4>. QED
        BY <4>1, <4>2, <3>4, <1>4 DEF Listed
    <3>7. i \in 1..l - 2 \/ i = l - 1 \/ i = l
      BY <1>2
    <3>. QED
      BY <3>3, <3>5, <3>6, <3>7
  <2>. QED
    BY <2>1, <2>2
<1>10. /\ Len(nest'[x]) > 0 /\ \A i \in 1..Len(nest'[x]) : Len(nest'[x][i]) > 0
       /\ nest'[x][1][1] = 0
  <2>1. l - 1 > 0 /\ Len(nest[x][l - 1]) > 0 /\ Len(nest[x][l]) > 0
    <3>1. l - 1 > 0 /\ l - 1 \in 1..l /\ l \in 1..l
      BY <1>1, <1>2
    <3>. QED
      BY <3>1, <1>1 DEF NestInv, l
  <2>2. Len(c) > 0 /\ 1 \in 1..p /\ c[1] = nest[x][l - 1][1]
    <3>1. p > 0 /\ Len(nest[x][l]) > 0
      BY <2>1 DEF p
    <3>2. Len(c) > 0 /\ 1 \in 1..p
      BY <3>1, <1>6
    <3>. QED
      BY <3>2, <1>6
  <2>3. \A i \in 1..l - 2 : Len(nest[x][i]) > 0
    BY <1>1, <1>2 DEF NestInv, l
  <2>4. nest'[x][1][1] = nest[x][1][1]
    <3>1. CASE l = 2
      BY <3>1, <2>2, <1>4
    <3>2. CASE l > 2
      <4>1. 1 \in 1..l - 2
        BY <3>2, <1>2
      <4>. QED
        BY <4>1, <1>4
    <3>. QED
      BY <3>1, <3>2, <1>1, <1>2
  <2>5. nest[x][1][1] = 0
    BY <1>1 DEF NestInv
  <2>. QED
    BY <1>4, <1>8, <2>1, <2>2, <2>3, <2>4, <2>5
<1>11. ASSUME NEW i \in 1..Len(nest'[x]), NEW j \in 1..Len(nest'[x]),
              NEW a \in 1..Len(nest'[x][i]), NEW b \in 1..Len(nest'[x][j]),
              i < j \/ (i = j /\ a < b)
       PROVE  nest'[x][i][a] < nest'[x][j][b]
  <2>1. \A i1, j1 \in 1..l : \A a1 \in 1..Len(nest[x][i1]), b1 \in 1..Len(nest[x][j1]) :
            (i1 < j1 \/ (i1 = j1 /\ a1 < b1)) => nest[x][i1][a1] < nest[x][j1][b1]
    BY <1>1 DEF NestInv, l
  <2>2. /\ l - 1 \in 1..l /\ l \in 1..l /\ l - 1 < l
        /\ \A i1 \in 1..l - 2 : i1 \in 1..l /\ i1 < l - 1 /\ i1 < l
    BY <1>1, <1>2
  <2>3. CASE j \in 1..l - 2
    <3>1. i \in 1..l - 2
      BY <2>3, <1>2, <1>8, <1>11
    <3>2. nest'[x][i] = nest[x][i] /\ nest'[x][j] = nest[x][j]
      BY <1>4, <2>3, <3>1
    <3>. QED
      BY <1>11, <2>1, <2>2, <2>3, <3>1, <3>2, Zenon
  <2>4. CASE j = l - 1 /\ i \in 1..l - 2
    <3>1. nest'[x][i] = nest[x][i] /\ nest'[x][j] = c
      BY <1>4, <2>4
    <3>2. CASE b \in 1..p
      BY <1>6, <2>1, <2>2, <2>4, <3>1, <3>2, Zenon DEF p
    <3>3. CASE b - p \in 1..Len(nest[x][l]) /\ c[b] = nest[x][l][b - p]
      BY <2>1, <2>2, <2>4, <3>1, <3>3, Zenon
    <3>. QED
      BY <1>6, <3>1, <3>2, <3>3
  <2>5. CASE j = l - 1 /\ i = l - 1
    <3>1. nest'[x][i] = c /\ nest'[x][j] = c /\ a < b /\ a \in Int /\ b \in Int
      BY <1>4, <1>11, <2>5, <1>2
    <3>2. a \in 1..Len(c) /\ b \in 1..Len(c)
      BY <3>1
    <3>3. CASE b \in 1..p
      <4>1. a \in 1..p
        BY <3>1, <3>2, <3>3, <1>6
      <4>2. c[a] = nest[x][l - 1][a] /\ c[b] = nest[x][l - 1][b]
        BY <1>6, <3>3, <4>1
      <4>3. a \in 1..Len(nest[x][l - 1]) /\ b \in 1..Len(nest[x][l - 1])
        BY <3>3, <4>1 DEF p
      <4>. QED
        BY <2>1, <2>2, <3>1, <4>2, <4>3
    <3>4. CASE b > p /\ b - p \in 1..Len(nest[x][l]) /\ c[b] = nest[x][l][b - p]
      <4>1. CASE a \in 1..p
        <5>1. c[a] = nest[x][l - 1][a] /\ a \in 1..Len(nest[x][l - 1])
          BY <1>6, <4>1, Zenon DEF p
        <5>. QED
          BY <5>1, <2>1, <2>2, <3>1, <3>4, Zenon
      <4>2. CASE a - p \in 1..Len(nest[x][l]) /\ c[a] = nest[x][l][a - p]
        <5>1. a - p < b - p
          BY <3>1, <1>6
        <5>. QED
          BY <5>1, <2>1, <2>2, <3>1, <3>4, <4>2
      <4>. QED
        BY <1>6, <3>2, <4>1, <4>2, Zenon
    <3>. QED
      BY <1>6, <3>2, <3>3, <3>4, Zenon
  <2>. QED
    BY <1>8, <2>3, <2>4, <2>5
<1>12. NestInv(x)'
  BY <1>1, <1>3, <1>9, <1>10, <1>11, Zenon DEF NestInv
<1>. QED
  BY <1>3, <1>7, <1>12, NestStepInv

(* The messages about the subtransactions of the last one in progress.     *)
LEMMA AbortMsgsAre ==
    ASSUME PublisherType, NEW x \in Xid, NestInv(x), NEW final \in StreamMsg
    PROVE  LET gone == nest[x][Len(nest[x])]
               msgs == AbortMsgs(x, final)
           IN  /\ msgs \in Seq(StreamMsg) /\ Len(gone) \in Nat /\ Len(gone) > 0
               /\ Len(msgs) = Len(gone) /\ msgs[Len(msgs)] = final
               /\ \A i \in 1..Len(gone) - 1 :
                    /\ i + 1 \in 1..Len(gone) /\ gone[i + 1] \in Nat
                    /\ msgs[i] = Msg("abortSub", x, gone[i + 1], 0)
<1> DEFINE l == Len(nest[x])
           gone == nest[x][l]
           f == [i \in 1..Len(gone) - 1 |-> Msg("abortSub", x, gone[i + 1], 0)]
<1>1. l \in Nat /\ l \in 1..Len(nest[x]) /\ gone \in Seq(Nat) /\ Len(gone) \in Nat /\ Len(gone) > 0
  BY TypesOf DEF NestInv
<1>2. AbortMsgs(x, final) = Append(f, final)
  BY DEF AbortMsgs, Innermost
<1>3. \A i \in 1..Len(gone) - 1 : i + 1 \in 1..Len(gone) /\ gone[i + 1] \in Nat
  <2> HIDE DEF gone
  <2>. QED
    BY <1>1
<1>4. \A i \in 1..Len(gone) - 1 : Msg("abortSub", x, gone[i + 1], 0) \in StreamMsg
  BY <1>3, MsgType, Kinds, Zenon
<1>5. /\ f \in Seq(StreamMsg) /\ Len(f) = Len(gone) - 1
      /\ \A i \in 1..Len(gone) - 1 : f[i] = Msg("abortSub", x, gone[i + 1], 0)
  <2> DEFINE n == Len(gone) - 1
             e(i) == Msg("abortSub", x, gone[i + 1], 0)
  <2>1. n \in Nat /\ \A i \in 1..n : e(i) \in StreamMsg
    BY <1>1, <1>4
  <2> HIDE DEF n, e, gone
  <2>2. [i \in 1..n |-> e(i)] \in Seq(StreamMsg) /\ Len([i \in 1..n |-> e(i)]) = n
    BY <2>1
  <2>3. \A i \in 1..n : [k \in 1..n |-> e(k)][i] = e(i)
    OBVIOUS
  <2>. QED
    BY <2>2, <2>3, Zenon DEF n, e
<1> HIDE DEF f, gone
<1>6. /\ Append(f, final) \in Seq(StreamMsg) /\ Len(Append(f, final)) = Len(gone)
      /\ Append(f, final)[Len(gone)] = final
      /\ \A i \in 1..Len(gone) - 1 : Append(f, final)[i] = f[i]
  BY <1>1, <1>5
<1>. QED
  BY <1>1, <1>2, <1>3, <1>5, <1>6, Zenon DEF gone

LEMMA RollbackInv ==
    ASSUME StreamInv, NEW x \in Xid, Rollback(x)
    PROVE  StreamInv'
<1> DEFINE l == Len(nest[x])
           gone == nest[x][l]
           c == Current(x)
           final == Msg("abortSub", x, c, 0)
<1>1. PublisherType /\ NestInv(x) /\ l > 1 /\ phase[x] = "open"
  BY DEF StreamInv, Rollback
<1>2. /\ nest[x] \in Seq(Seq(Nat)) /\ l \in Nat /\ gone \in Seq(Nat) /\ Len(gone) \in Nat
      /\ l \in 1..l /\ \A a \in 1..Len(gone) : gone[a] \in Nat
  BY <1>1, TypesOf
<1>3. c \in Nat /\ c = gone[1] /\ 1 \in 1..Len(gone) /\ \A a \in 1..Len(gone) : c <= gone[a]
  <2>1. c \in Nat /\ c = gone[1] /\ Len(gone) > 0
    BY <1>1, <1>2, CurrentListed, Zenon DEF NestInv
  <2>2. \A a \in 1..Len(gone) : 1 < a => gone[1] < gone[a]
    <3>1. 1 \in 1..Len(gone)
      BY <1>2, <2>1
    <3>. QED
      BY <1>1, <1>2, <3>1, Zenon DEF NestInv
  <2>. QED
    BY <1>2, <2>1, <2>2, SMTT(15)
<1>4. final \in StreamMsg /\ final.kind = "abortSub" /\ final.xid = x /\ final.sub = c
  BY <1>3, Kinds DEF Msg, StreamMsg
<1> HIDE DEF c, final
<1>5. /\ outbox = <<>> /\ outbox' = AbortMsgs(x, final) /\ l > 0
      /\ Innermost(x) = gone
  BY <1>1, <1>2 DEF Rollback, Sends, final, c, Innermost
<1>6. /\ outbox' \in Seq(StreamMsg) /\ Len(outbox') = Len(gone) /\ outbox'[Len(outbox')] = final
      /\ \A i \in 1..Len(gone) - 1 :
            /\ i + 1 \in 1..Len(gone) /\ gone[i + 1] \in Nat
            /\ outbox'[i] = Msg("abortSub", x, gone[i + 1], 0)
  BY <1>1, <1>4, <1>5, AbortMsgsAre, Zenon
<1>7. /\ nest' \in [Xid -> Seq(Seq(Nat))] /\ nest'[x] = SubSeq(nest[x], 1, l - 1)
      /\ dead' \in [Xid -> SUBSET Nat] /\ dead'[x] = dead[x] \cup {gone[a] : a \in 1..Len(gone)}
      /\ \A y \in Xid \ {x} : nest'[y] = nest[y] /\ dead'[y] = dead[y]
      /\ UNCHANGED <<phase, subs, log, block>>
  <2>0. l - 1 \in Nat /\ l - 1 <= l
    BY <1>1, <1>2
  <2>1. SubSeq(nest[x], 1, l - 1) \in Seq(Seq(Nat))
    BY <1>2, <2>0, Initial
  <2>2. {gone[a] : a \in 1..Len(gone)} \subseteq Nat
    BY <1>2
  <2>. QED
    BY <1>1, <1>5, <2>1, <2>2, Zenon DEF Rollback, PublisherType
<1>8. Len(nest'[x]) = l - 1 /\ \A i \in 1..l - 1 : nest'[x][i] = nest[x][i] /\ i \in 1..l /\ i < l
  <2>0. l - 1 \in Nat /\ l - 1 <= l
    BY <1>1, <1>2
  <2>1. Len(nest'[x]) = l - 1 /\ \A i \in 1..l - 1 : nest'[x][i] = nest[x][i]
    BY <1>2, <1>7, <2>0, Initial
  <2>2. \A i \in 1..l - 1 : i \in 1..l /\ i < l
    BY <1>2
  <2>. QED
    BY <2>1, <2>2
<1>9. PublisherType'
  BY <1>1, <1>6, <1>7, Zenon DEF PublisherType
<1> HIDE DEF gone
<1>10. \A i \in 1..l - 1 : \A b \in 1..Len(nest[x][i]), a \in 1..Len(gone) : nest[x][i][b] < gone[a]
  BY <1>1, <1>2, <1>8, Zenon DEF NestInv, gone
<1>11. \A i \in 1..l - 1 : \A b \in 1..Len(nest[x][i]) : nest[x][i][b] \in Nat
  BY <1>1, <1>8, TypesOf, SMTT(15)
<1>12. \A s \in Nat : Listed(x, s)' <=> Listed(x, s) /\ s \notin {gone[a] : a \in 1..Len(gone)}
  <2>1. ASSUME NEW s \in Nat, Listed(x, s)'
        PROVE  Listed(x, s) /\ s \notin {gone[a] : a \in 1..Len(gone)}
    <3>1. PICK i \in 1..l - 1 : \E b \in 1..Len(nest[x][i]) : nest[x][i][b] = s
      BY <2>1, <1>8, Zenon DEF Listed
    <3>2. Listed(x, s)
      BY <3>1, <1>8 DEF Listed
    <3>3. \A a \in 1..Len(gone) : s # gone[a]
      <4>1. PICK b \in 1..Len(nest[x][i]) : nest[x][i][b] = s
        BY <3>1
      <4>2. \A a \in 1..Len(gone) : s < gone[a]
        BY <4>1, <1>10
      <4>3. \A a \in 1..Len(gone) : gone[a] \in Nat
        BY <1>2 DEF gone
      <4>. QED
        BY <4>2, <4>3
    <3>. QED
      BY <3>2, <3>3
  <2>2. ASSUME NEW s \in Nat, Listed(x, s), s \notin {gone[a] : a \in 1..Len(gone)}
        PROVE  Listed(x, s)'
    <3>1. PICK i \in 1..l : \E b \in 1..Len(nest[x][i]) : nest[x][i][b] = s
      BY <2>2 DEF Listed
    <3>2. i # l
      BY <3>1, <2>2 DEF gone
    <3>3. i \in 1..l - 1
      BY <3>2, <1>2
    <3>. QED
      BY <3>1, <3>3, <1>8, Zenon DEF Listed
  <2>. QED
    BY <2>1, <2>2
<1>13. \A a \in 1..Len(gone) : gone[a] \in Nat /\ 0 < gone[a] /\ gone[a] <= subs[x]
  <2> SUFFICES ASSUME NEW a \in 1..Len(gone)
               PROVE  gone[a] \in Nat /\ 0 < gone[a] /\ gone[a] <= subs[x]
    OBVIOUS
  <2>1. gone[a] \in Nat /\ Listed(x, gone[a])
    BY <1>2, Zenon DEF Listed, gone
  <2>2. gone[a] <= subs[x]
    BY <1>1, <2>1 DEF NestInv
  <2>3. 1 \in 1..l - 1 /\ Len(nest[x][1]) > 0 /\ Len(nest[x][1]) \in Nat /\ nest[x][1][1] = 0
    BY <1>1, <1>2, TypesOf DEF NestInv
  <2>4. 1 \in 1..Len(nest[x][1])
    BY <2>3
  <2>. QED
    BY <2>1, <2>2, <2>3, <2>4, <1>10
<1>14. NestInv(x)'
  <2>1. /\ Len(nest'[x]) > 0 /\ \A i \in 1..Len(nest'[x]) : Len(nest'[x][i]) > 0
        /\ nest'[x][1][1] = 0
    <3>1. l - 1 > 0 /\ 1 \in 1..l - 1
      BY <1>1, <1>2
    <3>. QED
      BY <1>1, <1>8, <3>1, Zenon DEF NestInv
  <2>2. \A i, j \in 1..Len(nest'[x]) : \A a \in 1..Len(nest'[x][i]), b \in 1..Len(nest'[x][j]) :
            (i < j \/ (i = j /\ a < b)) => nest'[x][i][a] < nest'[x][j][b]
    BY <1>1, <1>8, Zenon DEF NestInv
  <2>3. \A s \in Nat : Listed(x, s)' <=> s <= subs[x] /\ s \notin dead'[x]
    BY <1>1, <1>7, <1>12, Zenon DEF NestInv
  <2>4. \A s \in dead'[x] : 0 < s /\ s <= subs[x]
    BY <1>1, <1>7, <1>13 DEF NestInv
  <2>. QED
    BY <1>1, <1>7, <2>1, <2>2, <2>3, <2>4, Zenon DEF NestInv
<1>15. \A s \in Nat : Listed(x, s)' => s < c
  <2> SUFFICES ASSUME NEW s \in Nat, Listed(x, s)' PROVE s < c
    OBVIOUS
  <2>1. PICK i \in 1..l - 1 : \E b \in 1..Len(nest[x][i]) : nest[x][i][b] = s
    BY <1>8, Zenon DEF Listed
  <2>. QED
    BY <2>1, <1>3, <1>10, Zenon DEF gone
<1>16. ASSUME NEW i \in 1..Len(outbox')
       PROVE  /\ outbox'[i].kind = "abortSub" /\ outbox'[i].xid = x
              /\ \E a \in 1..Len(gone) : outbox'[i].sub = gone[a]
  <2>1. CASE i = Len(outbox')
    BY <2>1, <1>3, <1>4, <1>6, Zenon DEF gone
  <2>2. CASE i # Len(outbox')
    <3>1. i \in 1..Len(gone) - 1
      BY <2>2, <1>2, <1>6 DEF gone
    <3>2. i + 1 \in 1..Len(gone) /\ outbox'[i] = Msg("abortSub", x, gone[i + 1], 0)
      BY <3>1, <1>6 DEF gone
    <3>. QED
      BY <3>2 DEF Msg
  <2>. QED
    BY <2>1, <2>2
<1>17. OutboxInv'
  <2>1. ASSUME NEW i \in 1..Len(outbox') PROVE MessageInv(i)'
    <3>1. PICK a \in 1..Len(gone) : outbox'[i].sub = gone[a]
      BY <1>16
    <3>2. outbox'[i].kind = "abortSub" /\ outbox'[i].xid = x
      BY <1>16
    <3>3. gone[a] > 0 /\ gone[a] \in dead'[x] /\ c <= gone[a]
      BY <1>3, <1>7, <1>13, Zenon DEF gone
    <3>. QED
      BY <1>1, <1>4, <1>6, <1>7, <1>15, <3>1, <3>2, <3>3 DEF MessageInv
  <2>. QED
    BY <1>16, <2>1 DEF OutboxInv
<1>18. ASSUME NEW y \in Xid PROVE NestInv(y)'
  <2>1. CASE y = x
    BY <2>1, <1>14
  <2>2. CASE y # x
    BY <2>2, <1>7, NestStays, Zenon DEF StreamInv
  <2>. QED
    BY <2>1, <2>2
<1>19. \A y \in block' : phase'[y] = "open"
  BY <1>7 DEF StreamInv
<1>. QED
  BY <1>9, <1>17, <1>18, <1>19 DEF StreamInv

LEMMA StreamEndInv ==
    ASSUME StreamInv, NEW x \in Xid, NEW how \in {"commit", "prepare", "abort"}, StreamEnd(x, how)
    PROVE  StreamInv'
<1>1. PublisherType /\ NestInv(x) /\ Len(nest[x]) = 1 /\ block = {}
  BY DEF StreamInv, StreamEnd
<1>2. /\ phase' \in [Xid -> {"new", "open", "commit", "prepare", "abort"}] /\ phase'[x] = how
      /\ \A y \in Xid \ {x} : phase'[y] = phase[y]
      /\ UNCHANGED <<nest, subs, dead, log, block>>
  BY <1>1 DEF StreamEnd, PublisherType
<1>3. NestInv(x)'
  BY <1>1, <1>2, NestStays
<1>4. \A y \in block' : phase'[y] = "open"
  BY <1>1, <1>2
<1>5. CASE how # "abort"
  <2> DEFINE m == Msg(how, x, 0, 0)
  <2>1. m \in StreamMsg /\ m.kind = how /\ m.xid = x
    BY Kinds DEF Msg, StreamMsg
  <2>2. Sends(<<m>>)
    BY <1>5 DEF StreamEnd
  <2>3. outbox' \in Seq(StreamMsg) /\ outbox'[1] = m /\ Len(outbox') = 1
    BY <2>1, <2>2, SentAlone
  <2>4. PublisherType'
    BY <1>1, <1>2, <2>3 DEF PublisherType
  <2>5. MessageInv(1)'
    BY <1>2, <1>5, <2>1, <2>3, Zenon DEF MessageInv
  <2>. QED
    BY <1>2, <1>3, <1>4, <2>1, <2>2, <2>4, <2>5, SendsInv
<1>6. CASE how = "abort"
  <2> DEFINE final == Msg("abort", x, 0, 0)
             gone == nest[x][Len(nest[x])]
  <2>1. final \in StreamMsg /\ final.kind = "abort" /\ final.xid = x
    BY Kinds DEF Msg, StreamMsg
  <2> HIDE DEF final
  <2>2. outbox' = AbortMsgs(x, final)
    BY <1>6 DEF StreamEnd, Sends, final
  <2>3. /\ outbox' \in Seq(StreamMsg) /\ Len(gone) \in Nat
        /\ Len(outbox') = Len(gone) /\ outbox'[Len(outbox')] = final
        /\ \A i \in 1..Len(gone) - 1 :
              /\ i + 1 \in 1..Len(gone) /\ gone[i + 1] \in Nat
              /\ outbox'[i] = Msg("abortSub", x, gone[i + 1], 0)
    BY <1>1, <2>1, <2>2, AbortMsgsAre, ZenonT(30)
  <2>4. \A i \in 1..Len(gone) - 1 : gone[i + 1] > 0
    <3>1. gone = nest[x][1] /\ 1 \in 1..Len(nest[x])
      BY <1>1
    <3>2. gone[1] = 0
      BY <1>1, <3>1 DEF NestInv
    <3>3. \A i \in 1..Len(gone) - 1 : 1 \in 1..Len(gone) /\ 1 < i + 1
      BY <2>3
    <3>. QED
      BY <1>1, <2>3, <3>1, <3>2, <3>3 DEF NestInv
  <2>5. ASSUME NEW i \in 1..Len(outbox')
        PROVE  /\ outbox'[i].xid = x
               /\ \/ i = Len(outbox') /\ outbox'[i].kind = "abort"
                  \/ i # Len(outbox') /\ outbox'[i].kind = "abortSub" /\ outbox'[i].sub > 0
    <3>1. CASE i = Len(outbox')
      BY <2>1, <2>3, <3>1, Zenon
    <3>2. CASE i # Len(outbox')
      <4>1. i \in 1..Len(gone) - 1
        BY <2>3, <3>2
      <4>2. outbox'[i] = Msg("abortSub", x, gone[i + 1], 0) /\ gone[i + 1] > 0
        BY <2>3, <2>4, <4>1, Zenon
      <4>. QED
        BY <3>2, <4>2 DEF Msg
    <3>. QED
      BY <3>1, <3>2
  <2>6. ASSUME NEW i \in 1..Len(outbox') PROVE MessageInv(i)'
    <3>1. outbox'[Len(outbox')].kind = "abort"
      BY <2>1, <2>3
    <3>. QED
      BY <1>2, <1>6, <2>5, <3>1, Zenon DEF MessageInv
  <2>7. OutboxInv'
    BY <2>5, <2>6 DEF OutboxInv
  <2>8. PublisherType'
    BY <1>1, <1>2, <2>3 DEF PublisherType
  <2>9. ASSUME NEW y \in Xid PROVE NestInv(y)'
    <3>1. CASE y = x
      BY <3>1, <1>3
    <3>2. CASE y # x
      BY <3>2, <1>2, NestStays DEF StreamInv
    <3>. QED
      BY <3>1, <3>2
  <2>. QED
    BY <1>4, <2>7, <2>8, <2>9 DEF StreamInv
<1>. QED
  BY <1>5, <1>6

LEMMA PlainInv ==
    ASSUME StreamInv, NEW x \in Xid, Plain(x)
    PROVE  StreamInv'
<1> DEFINE m == Msg("plain", x, 0, 1)
<1>1. PublisherType /\ NestInv(x) /\ phase[x] = "new" /\ block = {}
  BY DEF StreamInv, Plain
<1>2. m \in StreamMsg /\ m.kind = "plain" /\ m.xid = x
  BY Kinds DEF Msg, StreamMsg
<1>3. Sends(<<m>>)
  BY DEF Plain
<1>4. outbox' \in Seq(StreamMsg) /\ outbox'[1] = m /\ Len(outbox') = 1
  BY <1>2, <1>3, SentAlone
<1>5. /\ phase' \in [Xid -> {"new", "open", "commit", "prepare", "abort"}] /\ phase'[x] = "commit"
      /\ log' \in [Xid -> Seq(Nat)] /\ log'[x] = <<0>>
      /\ \A y \in Xid \ {x} : phase'[y] = phase[y] /\ log'[y] = log[y]
      /\ UNCHANGED <<nest, subs, dead, block>>
  <2>1. <<0>> \in Seq(Nat)
    OBVIOUS
  <2>. QED
    BY <1>1, <2>1 DEF Plain, PublisherType
<1>6. PublisherType'
  BY <1>1, <1>4, <1>5, Zenon DEF PublisherType
<1>7. NestInv(x)'
  <2>1. \A s : Listed(x, s)' <=> Listed(x, s)
    BY <1>5 DEF Listed
  <2>2. \A n \in 1..Len(log'[x]) : log'[x][n] <= subs[x]
    <3>1. subs[x] = 0
      BY <1>1 DEF NestInv
    <3>. QED
      BY <1>5, <3>1
  <2>3. nest'[x] = nest[x] /\ subs'[x] = subs[x] /\ dead'[x] = dead[x] /\ phase'[x] # "new"
    BY <1>5
  <2>. QED
    BY <1>1, <2>1, <2>2, <2>3, Zenon DEF NestInv
<1>8. MessageInv(1)'
  BY <1>2, <1>4, <1>5, Zenon DEF MessageInv
<1>9. \A y \in block' : phase'[y] = "open"
  BY <1>1, <1>5
<1>. QED
  BY <1>2, <1>3, <1>5, <1>6, <1>7, <1>8, <1>9, SendsInv

LEMMA StreamNextInv ==
    ASSUME StreamInv, StreamNext
    PROVE  StreamInv'
BY StreamStartInv, StreamChangeInv, StreamStopInv, SavepointInv, ReleaseInv, RollbackInv,
   StreamEndInv, PlainInv DEF StreamNext

LEMMA StreamInitInv ==
    ASSUME StreamInit
    PROVE  StreamInv
<1>1. PublisherType
  <2>1. <<<<0>>>> \in Seq(Seq(Nat)) /\ <<>> \in Seq(Nat) /\ <<>> \in Seq(StreamMsg)
    OBVIOUS
  <2>. QED
    BY <2>1 DEF StreamInit, PublisherType
<1>2. OutboxInv
  BY DEF StreamInit, OutboxInv
<1>3. ASSUME NEW x \in Xid PROVE NestInv(x)
  <2> DEFINE n == <<<<0>>>>
  <2>1. nest[x] = n /\ subs[x] = 0 /\ dead[x] = {} /\ log[x] = <<>>
    BY DEF StreamInit
  <2>2. Len(n) = 1 /\ n[1] = <<0>> /\ Len(<<0>>) = 1 /\ <<0>>[1] = 0
    OBVIOUS
  <2> HIDE DEF n
  <2>3. /\ \A i \in 1..Len(n) : i = 1 /\ n[i] = <<0>>
        /\ \A i \in 1..Len(n) : \A a \in 1..Len(n[i]) : a = 1 /\ n[i][a] = 0
    <3>1. \A i \in 1..Len(n) : i = 1 /\ n[i] = <<0>>
      BY <2>2
    <3>2. \A a \in 1..Len(<<0>>) : a = 1 /\ <<0>>[a] = 0
      OBVIOUS
    <3>. QED
      BY <3>1, <3>2, Zenon
  <2>4. \A s \in Nat : Listed(x, s) <=> s = 0
    <3>1. 1 \in 1..Len(n) /\ 1 \in 1..Len(n[1]) /\ n[1][1] = 0
      BY <2>2
    <3>. QED
      BY <2>1, <2>3, <3>1 DEF Listed
  <2>5. \A i \in 1..0 : FALSE
    OBVIOUS
  <2>6. /\ Len(n) > 0 /\ \A i \in 1..Len(n) : Len(n[i]) > 0
        /\ n[1][1] = 0
    BY <2>2, <2>3
  <2>7. \A i, j \in 1..Len(n) : \A a \in 1..Len(n[i]), b \in 1..Len(n[j]) :
            ~(i < j \/ (i = j /\ a < b))
    <3>1. ~(1 < 1)
      OBVIOUS
    <3>. QED
      BY <2>3, <3>1, Zenon
  <2>8. \A s \in Nat : Listed(x, s) <=> s <= subs[x] /\ s \notin dead[x]
    BY <2>1, <2>4
  <2>. QED
    BY <2>1, <2>5, <2>6, <2>7, <2>8 DEF NestInv
<1>. QED
  BY <1>1, <1>2, <1>3 DEF StreamInv, StreamInit

SubXactInfo == [xid : Nat, offset : Nat]

-----------------------------------------------------------------------------
(* The file of a transaction                                               *)

FileType ==
    /\ file \in [Xid -> Seq(StreamMsg)]
    /\ subxacts \in [Xid -> Seq(SubXactInfo)]

(* subxacts has the place of the first change of every subtransaction.     *)
SubxactsInv(x) ==
    /\ \A i \in 1..Len(file[x]) : file[x][i].kind = "change" /\ file[x][i].xid = x
    /\ \A k \in 1..Len(subxacts[x]) :
        /\ subxacts[x][k].xid > 0
        /\ subxacts[x][k].offset < Len(file[x])
        /\ file[x][subxacts[x][k].offset + 1].sub = subxacts[x][k].xid
        /\ \A i \in 1..subxacts[x][k].offset : file[x][i].sub # subxacts[x][k].xid
    /\ \A k, l \in 1..Len(subxacts[x]) :
            k < l => subxacts[x][k].offset < subxacts[x][l].offset
    /\ \A i \in 1..Len(file[x]) : file[x][i].sub > 0 => Known(x, file[x][i].sub)

(* A message of x, of one of these kinds, that was not handled.            *)
Waiting(x, kinds) == {i \in 1..Len(outbox) : outbox[i].xid = x /\ outbox[i].kind \in kinds}

(* The file of x is, or will be, replayed.                                 *)
Spooling(x) ==
    \/ phase[x] \in {"new", "open"}
    \/ Waiting(x, {"commit", "prepare", "plain"}) # {}

(* The end of the file from the first change of g, or of a later one, on   *)
(* has none of an earlier one.                                             *)
Closes(x, g) ==
    \A i, j \in 1..Len(file[x]) : (i < j /\ g <= file[x][i].sub) => g <= file[x][j].sub

ContentsInv(x) ==
    /\ \A i \in 1..Len(file[x]) :
        /\ file[x][i].n \in 1..Len(log[x]) /\ file[x][i].sub = log[x][file[x][i].n]
        /\ \A k \in Waiting(x, {"change", "plain"}) : file[x][i].n < outbox[k].n
        /\ file[x][i].sub \in dead[x]
              => \E k \in Waiting(x, {"abortSub"}) : outbox[k].sub = file[x][i].sub
    /\ \A i, j \in 1..Len(file[x]) : i < j => file[x][i].n < file[x][j].n
    /\ \A n \in 1..Len(log[x]) : log[x][n] \notin dead[x] =>
            \/ \E i \in 1..Len(file[x]) : file[x][i].n = n
            \/ \E k \in Waiting(x, {"change", "plain"}) : outbox[k].n = n
    /\ \A g \in Nat : Top(x, g) => Closes(x, g)
    /\ \A k \in Waiting(x, {"abortSub"}) :
            outbox[Len(outbox)].kind = "abortSub" => Closes(x, outbox[Len(outbox)].sub)

FileInv(x) == SubxactsInv(x) /\ (Spooling(x) => ContentsInv(x))

(* The replay of a file.                                                   *)
ReplayInv ==
    /\ replay \in Nat
    /\ replay > 0 => /\ Ends
                     /\ replay <= Len(file[Head(outbox).xid])
                     /\ \A i \in 1..replay : file[Head(outbox).xid][i] \in produced

FlushedInv ==
    \A x \in flushed : /\ x \in Xid /\ phase[x] \in {"commit", "prepare"}
                       /\ Alive(x) \subseteq produced

SpoolInv ==
    /\ StreamInv /\ FileType /\ ReplayInv /\ FlushedInv
    /\ \A x \in Xid : FileInv(x)
    /\ produced \subseteq StreamMsg /\ OnlyCommittedSent

-----------------------------------------------------------------------------
(* The steps of the walsender and the files                                *)

LEMMA SubxactsStay ==
    ASSUME NEW x, SubxactsInv(x), file'[x] = file[x], subxacts'[x] = subxacts[x]
    PROVE  SubxactsInv(x)'
BY ZenonT(30) DEF SubxactsInv, Known

LEMMA ContentsStay ==
    ASSUME NEW x, ContentsInv(x), file'[x] = file[x], log'[x] = log[x], dead'[x] = dead[x],
           \A g \in Nat : Top(x, g)' => Top(x, g),
           \A k \in Waiting(x, {"change", "plain", "abortSub"}) : FALSE,
           \A k \in Waiting(x, {"change", "plain", "abortSub"})' : FALSE
    PROVE  ContentsInv(x)'
<1>1. /\ \A k \in Waiting(x, {"change", "plain"}) : FALSE
      /\ \A k \in Waiting(x, {"abortSub"}) : FALSE
  BY DEF Waiting
<1>2. /\ \A k \in Waiting(x, {"change", "plain"})' : FALSE
      /\ \A k \in Waiting(x, {"abortSub"})' : FALSE
  BY DEF Waiting
<1>3. \A g : Closes(x, g)' <=> Closes(x, g)
  BY DEF Closes
<1>. QED
  BY <1>1, <1>2, <1>3, Zenon DEF ContentsInv

(* No message is about x, before and after the step.                       *)
LEMMA FileStays ==
    ASSUME NEW x, FileInv(x), file'[x] = file[x], subxacts'[x] = subxacts[x],
           phase'[x] = phase[x], nest'[x] = nest[x], log'[x] = log[x], dead'[x] = dead[x],
           \A i \in 1..Len(outbox) : outbox[i].xid # x,
           \A i \in 1..Len(outbox') : outbox'[i].xid # x
    PROVE  FileInv(x)'
<1>1. \A kinds : \A k \in Waiting(x, kinds) : FALSE
  BY DEF Waiting
<1>2. \A kinds : \A k \in Waiting(x, kinds)' : FALSE
  BY DEF Waiting
<1>3. \A g \in Nat : Top(x, g)' => Top(x, g)
  BY DEF Top
<1>4. SubxactsInv(x)'
  BY SubxactsStay DEF FileInv
<1>5. Spooling(x)' => Spooling(x)
  BY <1>2 DEF Spooling
<1>6. Spooling(x)' => ContentsInv(x)'
  BY <1>1, <1>2, <1>3, <1>5, ContentsStay DEF FileInv
<1>. QED
  BY <1>4, <1>6 DEF FileInv

LEMMA NothingWaits ==
    ASSUME outbox = <<>>, NEW x, NEW kinds
    PROVE  \A k \in Waiting(x, kinds) : FALSE
BY DEF Waiting

(* What waits once a message was sent by itself.                           *)
LEMMA OneWaits ==
    ASSUME NEW m \in StreamMsg, Sends(<<m>>), NEW x, NEW kinds
    PROVE  /\ outbox = <<>> /\ outbox'[1] = m
           /\ \A k \in Waiting(x, kinds)' : k = 1 /\ m.xid = x /\ m.kind \in kinds
           /\ m.xid = x /\ m.kind \in kinds => 1 \in Waiting(x, kinds)'
<1>1. /\ outbox = <<>> /\ Len(outbox') = 1 /\ outbox'[1] = m
      /\ \A i \in 1..Len(outbox') : i = 1
  BY SentAlone
<1>. QED
  BY <1>1 DEF Waiting

(* A message that is not of a change and not about a rollback is sent.     *)
LEMMA QuietMessage ==
    ASSUME NEW x, FileInv(x), UNCHANGED <<file, subxacts, nest, log, dead>>,
           NEW m \in StreamMsg, Sends(<<m>>), phase[x] \in {"new", "open"},
           m.kind \notin {"change", "plain", "abortSub"}
    PROVE  FileInv(x)'
<1>1. Spooling(x)
  BY DEF Spooling
<1>2. \A g \in Nat : Top(x, g)' => Top(x, g)
  BY DEF Top
<1>3. \A k \in Waiting(x, {"change", "plain", "abortSub"}) : FALSE
  BY OneWaits, NothingWaits
<1>4. \A k \in Waiting(x, {"change", "plain", "abortSub"})' : FALSE
  BY OneWaits
<1>5. ContentsInv(x)'
  BY <1>1, <1>2, <1>3, <1>4, ContentsStay DEF FileInv
<1>6. SubxactsInv(x)'
  BY SubxactsStay DEF FileInv
<1>. QED
  BY <1>5, <1>6 DEF FileInv

LEMMA StreamChangeFile ==
    ASSUME StreamInv, NEW x \in Xid, StreamChange(x), FileType, FileInv(x),
           UNCHANGED <<file, subxacts>>
    PROVE  FileInv(x)'
<1> DEFINE c == Current(x)
           n == Len(log[x]) + 1
           m == Msg("change", x, c, n)
<1>1. PublisherType /\ NestInv(x) /\ phase[x] = "open"
  BY DEF StreamInv, StreamChange
<1>2. c \in Nat /\ c \notin dead[x] /\ Len(log[x]) \in Nat /\ n \in Nat /\ log[x] \in Seq(Nat)
  BY <1>1, CurrentListed, TypesOf
<1> HIDE DEF c
<1>3. m \in StreamMsg /\ m.kind = "change" /\ m.xid = x /\ m.sub = c /\ m.n = n
  BY <1>2, Kinds DEF Msg, StreamMsg
<1>4. Sends(<<m>>)
  BY DEF StreamChange, c
<1> HIDE DEF m
<1>5. /\ log'[x] = Append(log[x], c) /\ UNCHANGED <<phase, nest, dead>>
  BY <1>1, <1>2 DEF StreamChange, PublisherType, c
<1>6. /\ Len(log'[x]) = n /\ log'[x][n] = c
      /\ \A i \in 1..Len(log[x]) : log'[x][i] = log[x][i] /\ i \in 1..n /\ i < n
      /\ \A i \in 1..n : i \in 1..Len(log[x]) \/ i = n
  BY <1>2, <1>5
<1>7. /\ \A k \in Waiting(x, {"change", "plain"}) : FALSE
      /\ \A k \in Waiting(x, {"abortSub"}) : FALSE
  BY <1>3, <1>4, OneWaits, NothingWaits
<1>8. /\ \A k \in Waiting(x, {"change", "plain"})' : k = 1
      /\ 1 \in Waiting(x, {"change", "plain"})' /\ outbox'[1].n = n
      /\ \A k \in Waiting(x, {"abortSub"})' : FALSE
  BY <1>3, <1>4, OneWaits
<1>9. ContentsInv(x)
  BY <1>1 DEF FileInv, Spooling
<1> HIDE DEF n
<1>10. ContentsInv(x)'
  <2>1. \A g : /\ Closes(x, g)' <=> Closes(x, g)
               /\ Top(x, g)' <=> Top(x, g)
    BY <1>5 DEF Closes, Top
  <2>2. \A i \in 1..Len(file[x]) :
            /\ file[x][i].n \in 1..Len(log'[x]) /\ file[x][i].sub = log'[x][file[x][i].n]
            /\ file[x][i].n < n /\ file[x][i].sub \notin dead[x]
    BY <1>6, <1>7, <1>9, Zenon DEF ContentsInv
  <2>3. \A i \in 1..Len(log'[x]) : log'[x][i] \notin dead[x] =>
            (\E j \in 1..Len(file[x]) : file[x][j].n = i) \/ i = n
    BY <1>6, <1>7, <1>9, Zenon DEF ContentsInv
  <2>. QED
    BY <1>5, <1>8, <1>9, <2>1, <2>2, <2>3, Zenon DEF ContentsInv
<1>11. SubxactsInv(x)'
  BY SubxactsStay DEF FileInv
<1>. QED
  BY <1>10, <1>11 DEF FileInv

LEMMA SavepointFile ==
    ASSUME StreamInv, NEW x \in Xid, Savepoint(x), FileType, FileInv(x),
           UNCHANGED <<file, subxacts>>
    PROVE  FileInv(x)'
<1> DEFINE l == Len(nest[x])
           s1 == subs[x] + 1
<1>1. PublisherType /\ NestInv(x) /\ phase[x] = "open"
  BY DEF StreamInv, Savepoint
<1>2. nest[x] \in Seq(Seq(Nat)) /\ subs[x] \in Nat /\ <<s1>> \in Seq(Nat) /\ <<s1>>[1] = s1
  BY <1>1, TypesOf
<1>3. /\ nest'[x] = Append(nest[x], <<s1>>)
      /\ UNCHANGED <<phase, dead, log, outbox>> /\ outbox = <<>>
  BY <1>1, <1>2 DEF Savepoint, PublisherType
<1>4. \A k \in Waiting(x, {"change", "plain"}) \cup Waiting(x, {"abortSub"}) : FALSE
  BY <1>3, NothingWaits
<1>5. \A k \in Waiting(x, {"change", "plain"})' \cup Waiting(x, {"abortSub"})' : FALSE
  BY <1>3, <1>4 DEF Waiting
<1>6. ContentsInv(x)
  BY <1>1 DEF FileInv, Spooling
<1>7. \A g \in Nat : Top(x, g)' => Top(x, g) \/ g = s1
  <2> DEFINE t == Append(nest[x], <<s1>>)
  <2>1. /\ t[l + 1] = <<s1>> /\ \A i \in 1..l : t[i] = nest[x][i]
        /\ \A i \in 1..Len(t) : i \in 1..l \/ i = l + 1
    BY <1>2, Appended
  <2>2. nest'[x] = t
    BY <1>3
  <2> HIDE DEF t, s1
  <2>. QED
    BY <1>2, <2>1, <2>2, Zenon DEF Top
<1>8. Closes(x, s1)
  <2>1. ASSUME NEW i \in 1..Len(file[x]) PROVE ~(s1 <= file[x][i].sub)
    <3>1. file[x][i].sub <= subs[x] /\ file[x][i].sub \in Nat
      BY <1>1, <1>6, TypesOf, Zenon DEF ContentsInv, NestInv
    <3>. QED
      BY <3>1, <1>2
  <2>. QED
    BY <2>1 DEF Closes
<1>9. \A g : Closes(x, g)' <=> Closes(x, g)
  BY DEF Closes
<1> HIDE DEF s1
<1>10. ContentsInv(x)'
  BY <1>3, <1>4, <1>5, <1>6, <1>7, <1>8, <1>9, Zenon DEF ContentsInv
<1>11. SubxactsInv(x)'
  BY SubxactsStay DEF FileInv
<1>. QED
  BY <1>10, <1>11 DEF FileInv

LEMMA ReleaseFile ==
    ASSUME StreamInv, NEW x \in Xid, Release(x), FileInv(x), UNCHANGED <<file, subxacts>>
    PROVE  FileInv(x)'
<1> DEFINE l == Len(nest[x])
           c == nest[x][l - 1] \o nest[x][l]
<1>1. PublisherType /\ NestInv(x) /\ phase[x] = "open" /\ l > 1
  BY Zenon DEF StreamInv, Release
<1>2. nest[x] \in Seq(Seq(Nat)) /\ l \in Nat
  BY <1>1, TypesOf
<1>3. /\ nest'[x] = Append(SubSeq(nest[x], 1, l - 2), c)
      /\ UNCHANGED <<phase, dead, log, outbox>> /\ outbox = <<>>
  BY <1>1, Zenon DEF Release, PublisherType
<1>4. /\ Len(nest'[x]) = l - 1 /\ nest'[x][l - 1] = c
      /\ \A i \in 1..l - 2 : nest'[x][i] = nest[x][i]
  <2> DEFINE s == nest[x]
             r == Append(SubSeq(s, 1, Len(s) - 2), s[Len(s) - 1] \o s[Len(s)])
  <2>1. s \in Seq(Seq(Nat)) /\ Len(s) > 1 /\ nest'[x] = r
    BY <1>1, <1>2, <1>3, Zenon
  <2> HIDE DEF s
  <2>2. /\ Len(r) = Len(s) - 1 /\ \A i \in 1..Len(s) - 2 : r[i] = s[i]
        /\ r[Len(s) - 1] = s[Len(s) - 1] \o s[Len(s)]
    BY <2>1, Joined, Zenon
  <2> HIDE DEF r
  <2>. QED
    BY <2>1, <2>2, Zenon DEF s
<1>5. /\ l - 1 \in 1..l /\ \A i \in 1..l - 2 : i \in 1..l
      /\ \A i \in 1..l - 1 : i \in 1..l - 2 \/ i = l - 1
  <2> HIDE DEF l
  <2>. QED
    BY <1>1, <1>2
<1>6. nest[x][l - 1] \in Seq(Nat) /\ nest[x][l] \in Seq(Nat) /\ Len(nest[x][l - 1]) > 0
  <2>1. l - 1 \in 1..Len(nest[x]) /\ l \in 1..Len(nest[x])
    BY <1>1, <1>2
  <2>. QED
    BY <1>1, <2>1, TypesOf, Zenon DEF NestInv
<1>7. c[1] = nest[x][l - 1][1]
  <2> DEFINE u == nest[x][l - 1]
             v == nest[x][l]
  <2> HIDE DEF u, v
  <2>1. u \in Seq(Nat) /\ v \in Seq(Nat) /\ Len(u) > 0
    BY <1>6 DEF u, v
  <2>2. (u \o v)[1] = u[1]
    BY <2>1
  <2>. QED
    BY <2>2 DEF u, v
<1> HIDE DEF l, c
<1>8. \A g \in Nat : Top(x, g)' => Top(x, g)
  BY <1>4, <1>5, <1>7, Zenon DEF Top, l
<1>9. \A k \in Waiting(x, {"change", "plain", "abortSub"}) : FALSE
  BY <1>3, NothingWaits
<1>10. \A k \in Waiting(x, {"change", "plain", "abortSub"})' : FALSE
  BY <1>3, <1>9 DEF Waiting
<1>11. ContentsInv(x)
  BY <1>1 DEF FileInv, Spooling
<1>12. ContentsInv(x)'
  BY <1>3, <1>8, <1>9, <1>10, <1>11, ContentsStay, Zenon
<1>13. SubxactsInv(x)'
  BY SubxactsStay DEF FileInv
<1>. QED
  BY <1>12, <1>13 DEF FileInv

LEMMA RollbackFile ==
    ASSUME StreamInv, NEW x \in Xid, Rollback(x), FileInv(x), UNCHANGED <<file, subxacts>>
    PROVE  FileInv(x)'
<1> DEFINE l == Len(nest[x])
           gone == nest[x][l]
           c == Current(x)
           final == Msg("abortSub", x, c, 0)
<1>1. PublisherType /\ NestInv(x) /\ phase[x] = "open" /\ l > 1
  BY DEF StreamInv, Rollback
<1>2. nest[x] \in Seq(Seq(Nat)) /\ l \in Nat
  BY <1>1, TypesOf
<1>3. c \in Nat /\ Top(x, c) /\ c = gone[1]
  BY <1>1, CurrentListed
<1> HIDE DEF c
<1>4. final \in StreamMsg /\ final.kind = "abortSub" /\ final.xid = x /\ final.sub = c
  BY <1>3, Kinds DEF Msg, StreamMsg
<1> HIDE DEF final
<1>5. outbox = <<>> /\ outbox' = AbortMsgs(x, final)
  BY DEF Rollback, Sends, final, c
<1>6. /\ Len(gone) \in Nat /\ Len(gone) > 0
      /\ Len(outbox') = Len(gone) /\ outbox'[Len(outbox')] = final
      /\ \A i \in 1..Len(gone) - 1 :
            outbox'[i] = Msg("abortSub", x, gone[i + 1], 0) /\ gone[i + 1] \in Nat
  BY <1>1, <1>4, <1>5, AbortMsgsAre, ZenonT(30)
<1>7. /\ nest'[x] = SubSeq(nest[x], 1, l - 1)
      /\ dead'[x] = dead[x] \cup {gone[a] : a \in 1..Len(gone)}
      /\ UNCHANGED <<phase, log>>
  BY <1>1 DEF Rollback, PublisherType, Innermost
<1>8. Len(nest'[x]) = l - 1 /\ \A i \in 1..l - 1 : nest'[x][i] = nest[x][i] /\ i \in 1..l
  <2>1. l - 1 \in Nat /\ l - 1 <= l /\ \A i \in 1..l - 1 : i \in 1..l
    BY <1>1, <1>2
  <2>. QED
    BY <1>2, <1>7, <2>1, Initial
<1> HIDE DEF l, gone
<1>9. \A g \in Nat : Top(x, g)' => Top(x, g)
  BY <1>8, Zenon DEF Top, l
<1>10. \A a \in 1..Len(gone) : \E k \in Waiting(x, {"abortSub"})' : outbox'[k].sub = gone[a]
  <2> SUFFICES ASSUME NEW a \in 1..Len(gone)
               PROVE  \E k \in Waiting(x, {"abortSub"})' : outbox'[k].sub = gone[a]
    OBVIOUS
  <2>1. CASE a = 1
    <3>1. Len(outbox') \in Waiting(x, {"abortSub"})'
      BY <1>4, <1>6 DEF Waiting
    <3>. QED
      BY <2>1, <3>1, <1>3, <1>4, <1>6 DEF gone
  <2>2. CASE a # 1
    <3>1. a - 1 \in 1..Len(gone) - 1 /\ (a - 1) + 1 = a /\ a - 1 \in 1..Len(outbox')
      BY <1>6, <2>2
    <3>2. outbox'[a - 1] = Msg("abortSub", x, gone[a], 0)
      BY <1>6, <3>1
    <3>3. outbox'[a - 1].kind = "abortSub" /\ outbox'[a - 1].xid = x /\ outbox'[a - 1].sub = gone[a]
      BY <3>2 DEF Msg
    <3>. QED
      BY <3>1, <3>3 DEF Waiting
  <2>. QED
    BY <2>1, <2>2
<1>11. \A k \in Waiting(x, {"change", "plain"})' : FALSE
  <2>1. ASSUME NEW i \in 1..Len(outbox') PROVE outbox'[i].kind = "abortSub"
    <3>1. CASE i = Len(outbox')
      BY <3>1, <1>4, <1>6
    <3>2. CASE i # Len(outbox')
      <4>1. i \in 1..Len(gone) - 1
        BY <3>2, <1>6
      <4>2. outbox'[i] = Msg("abortSub", x, gone[i + 1], 0)
        BY <4>1, <1>6
      <4>. QED
        BY <4>2 DEF Msg
    <3>. QED
      BY <3>1, <3>2
  <2>. QED
    BY <2>1 DEF Waiting
<1>12. /\ \A k \in Waiting(x, {"change", "plain"}) : FALSE
       /\ \A k \in Waiting(x, {"abortSub"}) : FALSE
  BY <1>5, NothingWaits
<1>13. ContentsInv(x)
  BY <1>1 DEF FileInv, Spooling
<1>14. \A g : Closes(x, g)' <=> Closes(x, g)
  BY DEF Closes
<1>15. ContentsInv(x)'
  <2>1. \A i \in 1..Len(file[x]) : file[x][i].sub \in dead'[x] =>
            \E k \in Waiting(x, {"abortSub"})' : outbox'[k].sub = file[x][i].sub
    <3>1. \A i \in 1..Len(file[x]) : file[x][i].sub \notin dead[x]
      BY <1>12, <1>13, Zenon DEF ContentsInv
    <3>. QED
      BY <1>7, <1>10, <3>1
  <2>2. \A n \in 1..Len(log[x]) : log[x][n] \notin dead'[x] =>
            \E i \in 1..Len(file[x]) : file[x][i].n = n
    BY <1>7, <1>12, <1>13, Zenon DEF ContentsInv
  <2>3. Closes(x, outbox'[Len(outbox')].sub)
    BY <1>3, <1>4, <1>6, <1>13, Zenon DEF ContentsInv
  <2>4. \A g \in Nat : Top(x, g)' => Closes(x, g)'
    BY <1>9, <1>13, <1>14, Zenon DEF ContentsInv
  <2>5. \A k \in Waiting(x, {"abortSub"})' : Closes(x, outbox[Len(outbox)].sub)'
    BY <2>3 DEF Closes
  <2>. QED
    BY <1>7, <1>11, <1>13, <2>1, <2>2, <2>4, <2>5, Zenon DEF ContentsInv
<1>16. SubxactsInv(x)'
  BY SubxactsStay DEF FileInv
<1>. QED
  BY <1>15, <1>16 DEF FileInv

LEMMA StreamEndFile ==
    ASSUME StreamInv, NEW x \in Xid, NEW how \in {"commit", "prepare", "abort"}, StreamEnd(x, how),
           FileInv(x), UNCHANGED <<file, subxacts>>
    PROVE  FileInv(x)'
<1>1. PublisherType /\ NestInv(x) /\ phase[x] = "open"
  BY DEF StreamInv, StreamEnd
<1>2. phase'[x] = how /\ UNCHANGED <<nest, dead, log>>
  BY <1>1 DEF StreamEnd, PublisherType
<1>3. CASE how # "abort"
  <2> DEFINE m == Msg(how, x, 0, 0)
  <2>1. m \in StreamMsg /\ m.kind = how
    BY Kinds DEF Msg, StreamMsg
  <2>2. Sends(<<m>>)
    BY <1>3 DEF StreamEnd
  <2> HIDE DEF m
  <2>. QED
    BY <1>1, <1>2, <1>3, <2>1, <2>2, QuietMessage
<1>4. CASE how = "abort"
  <2> DEFINE final == Msg("abort", x, 0, 0)
  <2>1. final \in StreamMsg /\ final.kind = "abort"
    BY Kinds DEF Msg, StreamMsg
  <2> HIDE DEF final
  <2>2. outbox' = AbortMsgs(x, final)
    BY <1>4 DEF StreamEnd, Sends, final
  <2> DEFINE gone == nest[x][Len(nest[x])]
  <2>3. /\ Len(gone) \in Nat /\ Len(outbox') = Len(gone) /\ outbox'[Len(outbox')] = final
        /\ \A i \in 1..Len(gone) - 1 : outbox'[i] = Msg("abortSub", x, gone[i + 1], 0)
    BY <1>1, <2>1, <2>2, AbortMsgsAre, Zenon
  <2> HIDE DEF gone
  <2>4. ASSUME NEW i \in 1..Len(outbox') PROVE outbox'[i].kind \in {"abort", "abortSub"}
    <3>1. CASE i = Len(outbox')
      BY <3>1, <2>1, <2>3
    <3>2. CASE i # Len(outbox')
      <4>1. i \in 1..Len(gone) - 1
        BY <3>2, <2>3
      <4>2. outbox'[i] = Msg("abortSub", x, gone[i + 1], 0)
        BY <4>1, <2>3
      <4>. QED
        BY <4>2 DEF Msg
    <3>. QED
      BY <3>1, <3>2
  <2>5. \A k \in Waiting(x, {"commit", "prepare", "plain"})' : FALSE
    BY <2>4 DEF Waiting
  <2>6. ~Spooling(x)'
    BY <1>2, <1>4, <2>5 DEF Spooling
  <2>7. SubxactsInv(x)'
    BY SubxactsStay DEF FileInv
  <2>. QED
    BY <2>6, <2>7 DEF FileInv
<1>. QED
  BY <1>3, <1>4

LEMMA PlainFile ==
    ASSUME StreamInv, NEW x \in Xid, Plain(x), FileType, FileInv(x), UNCHANGED <<file, subxacts>>
    PROVE  FileInv(x)'
<1> DEFINE m == Msg("plain", x, 0, 1)
<1>1. PublisherType /\ NestInv(x) /\ phase[x] = "new"
  BY DEF StreamInv, Plain
<1>2. m \in StreamMsg /\ m.kind = "plain" /\ m.xid = x /\ m.n = 1
  BY Kinds DEF Msg, StreamMsg
<1>3. Sends(<<m>>)
  BY DEF Plain
<1> HIDE DEF m
<1>4. log'[x] = <<0>> /\ UNCHANGED <<nest, dead>>
  BY <1>1 DEF Plain, PublisherType
<1>5. log[x] = <<>> /\ 0 \notin dead[x]
  BY <1>1 DEF NestInv
<1>6. /\ \A k \in Waiting(x, {"change", "plain"})' : k = 1
      /\ 1 \in Waiting(x, {"change", "plain"})' /\ outbox'[1].n = 1
      /\ \A k \in Waiting(x, {"abortSub"})' : FALSE
  BY <1>2, <1>3, OneWaits
<1>7. ContentsInv(x)
  BY <1>1 DEF FileInv, Spooling
<1>8. \A i \in 1..Len(file[x]) : FALSE
  <2>1. \A n \in 1..Len(log[x]) : FALSE
    BY <1>5
  <2>. QED
    BY <1>7, <2>1, Zenon DEF ContentsInv
<1>9. \A n \in 1..Len(log'[x]) : n = 1
  BY <1>4
<1>10. \A g : Closes(x, g)'
  BY <1>8, Zenon DEF Closes
<1>11. ContentsInv(x)'
  BY <1>6, <1>8, <1>9, <1>10, Zenon DEF ContentsInv
<1>12. SubxactsInv(x)'
  BY SubxactsStay DEF FileInv
<1>. QED
  BY <1>11, <1>12 DEF FileInv

(* The messages sent by a step of x are about x.                           *)
LEMMA SentAbout ==
    ASSUME StreamInv, NEW x \in Xid, NEW y, y # x,
           \/ StreamStart(x) \/ StreamChange(x) \/ StreamStop(x)
           \/ Savepoint(x) \/ Release(x) \/ Rollback(x) \/ Plain(x)
           \/ \E how \in {"commit", "prepare", "abort"} : StreamEnd(x, how)
    PROVE  /\ outbox = <<>> /\ \A i \in 1..Len(outbox) : outbox[i].xid # y
           /\ \A i \in 1..Len(outbox') : outbox'[i].xid # y
<1>1. ASSUME NEW k, NEW s, NEW n, Sends(<<Msg(k, x, s, n)>>)
      PROVE  outbox = <<>> /\ \A i \in 1..Len(outbox') : outbox'[i].xid # y
  <2> DEFINE m == Msg(k, x, s, n)
  <2>1. m.xid = x
    BY DEF Msg
  <2>2. outbox' = <<m>> /\ outbox = <<>>
    BY <1>1 DEF Sends
  <2> HIDE DEF m
  <2>. QED
    BY <2>1, <2>2
<1>2. ASSUME NEW final \in StreamMsg, final.xid = x, Sends(AbortMsgs(x, final))
      PROVE  outbox = <<>> /\ \A i \in 1..Len(outbox') : outbox'[i].xid # y
  <2> DEFINE gone == nest[x][Len(nest[x])]
  <2>1. /\ Len(gone) \in Nat /\ Len(outbox') = Len(gone) /\ outbox'[Len(outbox')] = final
        /\ \A i \in 1..Len(gone) - 1 : outbox'[i] = Msg("abortSub", x, gone[i + 1], 0)
    BY <1>2, AbortMsgsAre DEF StreamInv, Sends
  <2> HIDE DEF gone
  <2>2. ASSUME NEW i \in 1..Len(outbox') PROVE outbox'[i].xid = x
    <3>1. CASE i = Len(outbox')
      BY <3>1, <1>2, <2>1
    <3>2. CASE i # Len(outbox')
      <4>1. i \in 1..Len(gone) - 1
        BY <3>2, <2>1
      <4>2. outbox'[i] = Msg("abortSub", x, gone[i + 1], 0)
        BY <4>1, <2>1
      <4>. QED
        BY <4>2 DEF Msg
    <3>. QED
      BY <3>1, <3>2
  <2>. QED
    BY <1>2, <2>2 DEF Sends
<1>3. ASSUME outbox = <<>>, outbox' = outbox
      PROVE  outbox = <<>> /\ \A i \in 1..Len(outbox') : outbox'[i].xid # y
  BY <1>3
<1>4. CASE StreamStart(x) \/ StreamChange(x) \/ StreamStop(x) \/ Plain(x)
  BY <1>1, <1>4 DEF StreamStart, StreamChange, StreamStop, Plain
<1>5. CASE Savepoint(x) \/ Release(x)
  BY <1>3, <1>5, Zenon DEF Savepoint, Release
<1>6. CASE Rollback(x)
  <2>1. PublisherType /\ NestInv(x)
    BY DEF StreamInv
  <2>2. Current(x) \in Nat
    BY <2>1, CurrentListed
  <2>3. Msg("abortSub", x, Current(x), 0) \in StreamMsg /\ Msg("abortSub", x, Current(x), 0).xid = x
    BY <2>2, Kinds DEF Msg, StreamMsg
  <2>. QED
    BY <1>2, <1>6, <2>3 DEF Rollback
<1>7. CASE \E how \in {"commit", "prepare", "abort"} : StreamEnd(x, how)
  <2>1. Msg("abort", x, 0, 0) \in StreamMsg /\ Msg("abort", x, 0, 0).xid = x
    BY Kinds DEF Msg, StreamMsg
  <2>. QED
    BY <1>1, <1>2, <1>7, <2>1 DEF StreamEnd
<1>8. outbox = <<>> /\ \A i \in 1..Len(outbox') : outbox'[i].xid # y
  BY <1>4, <1>5, <1>6, <1>7
<1>. QED
  BY <1>8

(* The transactions that a step of the walsender is not about.             *)
LEMMA OthersStay ==
    ASSUME StreamInv, NEW x \in Xid, NEW y \in Xid, y # x,
           \/ StreamStart(x) \/ StreamChange(x) \/ StreamStop(x)
           \/ Savepoint(x) \/ Release(x) \/ Rollback(x) \/ Plain(x)
           \/ \E how \in {"commit", "prepare", "abort"} : StreamEnd(x, how)
    PROVE  /\ phase'[y] = phase[y] /\ nest'[y] = nest[y] /\ log'[y] = log[y] /\ dead'[y] = dead[y]
<1>1. PublisherType
  BY DEF StreamInv
<1>. QED
  BY <1>1, Zenon DEF PublisherType, StreamStart, StreamChange, StreamStop, Savepoint, Release,
     Rollback,
              Plain, StreamEnd

LEMMA StreamNextFile ==
    ASSUME StreamInv, StreamNext, FileType, UNCHANGED <<file, subxacts>>, NEW y \in Xid, FileInv(y)
    PROVE  FileInv(y)'
<1>1. PICK x \in Xid :
          \/ StreamStart(x) \/ StreamChange(x) \/ StreamStop(x)
          \/ Savepoint(x) \/ Release(x) \/ Rollback(x) \/ Plain(x)
          \/ \E how \in {"commit", "prepare", "abort"} : StreamEnd(x, how)
  BY DEF StreamNext
<1>2. CASE y # x
  BY <1>1, <1>2, SentAbout, OthersStay, FileStays, Zenon
<1>3. CASE y = x
  <2>1. CASE StreamStart(x)
    <3> DEFINE m == Msg(IF phase[x] = "new" THEN "first" ELSE "start", x, 0, 0)
    <3>1. m \in StreamMsg /\ m.kind \in {"first", "start"}
      BY DEF Msg, StreamMsg, Kind
    <3>2. Sends(<<m>>) /\ phase[x] \in {"new", "open"} /\ UNCHANGED <<nest, log, dead>>
      BY <2>1 DEF StreamStart
    <3> HIDE DEF m
    <3>. QED
      BY <1>3, <3>1, <3>2, QuietMessage
  <2>2. CASE StreamStop(x)
    <3> DEFINE m == Msg("stop", x, 0, 0)
    <3>1. m \in StreamMsg /\ m.kind = "stop"
      BY DEF Msg, StreamMsg, Kind
    <3>2. Sends(<<m>>) /\ phase[x] = "open" /\ UNCHANGED <<nest, log, dead>>
      BY <2>2 DEF StreamStop, StreamInv
    <3> HIDE DEF m
    <3>. QED
      BY <1>3, <3>1, <3>2, QuietMessage
  <2>. QED
    BY <1>1, <1>3, <2>1, <2>2, StreamChangeFile, SavepointFile, ReleaseFile, RollbackFile,
       StreamEndFile, PlainFile
<1>. QED
  BY <1>2, <1>3

-----------------------------------------------------------------------------
(* The steps of the leader and the files                                   *)

(* The first message, and what is left when it was handled.                *)
LEMMA HeadFacts ==
    ASSUME StreamInv, outbox # <<>>
    PROVE  /\ outbox \in Seq(StreamMsg) /\ Len(outbox) \in Nat /\ 1 \in 1..Len(outbox)
           /\ Head(outbox) = outbox[1] /\ outbox[1] \in StreamMsg /\ MessageInv(1)
           /\ \A i \in 1..Len(outbox) : outbox[i].xid = outbox[1].xid /\ MessageInv(i)
<1>1. outbox \in Seq(StreamMsg)
  BY DEF StreamInv, PublisherType
<1>2. Len(outbox) \in Nat /\ 1 \in 1..Len(outbox) /\ Head(outbox) = outbox[1] /\ outbox[1] \in StreamMsg
  BY <1>1
<1>. QED
  BY <1>1, <1>2 DEF StreamInv, OutboxInv

LEMMA TailFacts ==
    ASSUME StreamInv, outbox # <<>>, Handled
    PROVE  /\ UNCHANGED <<phase, nest, subs, dead, log, block>>
           /\ Len(outbox') \in Nat /\ Len(outbox) = Len(outbox') + 1
           /\ \A i \in 1..Len(outbox') : outbox'[i] = outbox[i + 1] /\ i + 1 \in 1..Len(outbox)
           /\ \A i \in 1..Len(outbox) : i = 1 \/ (i - 1 \in 1..Len(outbox') /\ outbox'[i - 1] = outbox[i])
<1>1. UNCHANGED <<phase, nest, subs, dead, log, block>> /\ outbox' = Tail(outbox)
  BY DEF Handled, publisherVars
<1>2. outbox \in Seq(StreamMsg)
  BY DEF StreamInv, PublisherType
<1>3. /\ Len(outbox') \in Nat /\ Len(outbox) = Len(outbox') + 1
      /\ \A i \in 1..Len(outbox') : outbox'[i] = outbox[i + 1] /\ i + 1 \in 1..Len(outbox)
  BY <1>1, <1>2
<1>4. \A i \in 1..Len(outbox) : i = 1 \/ i - 1 \in 1..Len(outbox')
  BY <1>3
<1>5. \A i \in 1..Len(outbox) : i - 1 \in 1..Len(outbox') => outbox'[i - 1] = outbox[i]
  <2> SUFFICES ASSUME NEW i \in 1..Len(outbox), i - 1 \in 1..Len(outbox')
               PROVE  outbox'[i - 1] = outbox[i]
    OBVIOUS
  <2>1. (i - 1) + 1 = i
    OBVIOUS
  <2>. QED
    BY <1>3, <2>1
<1>. QED
  BY <1>1, <1>3, <1>4, <1>5

(* The file of another transaction.                                        *)
LEMMA HandledOther ==
    ASSUME StreamInv, outbox # <<>>, Handled, NEW y \in Xid, y # Head(outbox).xid, FileInv(y),
           file'[y] = file[y], subxacts'[y] = subxacts[y]
    PROVE  FileInv(y)'
<1>1. \A i \in 1..Len(outbox) : outbox[i].xid # y
  BY HeadFacts
<1>2. \A i \in 1..Len(outbox') : outbox'[i].xid # y
  BY <1>1, TailFacts
<1>. QED
  BY <1>1, <1>2, TailFacts, FileStays

(* A message that was alone is handled.                                    *)
LEMMA NoneLeft ==
    ASSUME StreamInv, outbox # <<>>, Handled, Head(outbox).kind \notin {"abortSub", "abort"},
           NEW x, NEW kinds
    PROVE  /\ \A k \in Waiting(x, kinds) : k = 1 /\ Head(outbox).kind \in kinds
           /\ \A k \in Waiting(x, kinds)' : FALSE
<1>1. Head(outbox) = outbox[1] /\ Len(outbox) = 1
  BY HeadFacts, Zenon DEF MessageInv
<1>2. Len(outbox') = 0
  BY <1>1, TailFacts
<1>3. \A i \in 1..Len(outbox) : i = 1
  BY <1>1
<1>4. \A i \in 1..Len(outbox') : FALSE
  BY <1>2
<1>. QED
  BY <1>1, <1>3, <1>4, Zenon DEF Waiting

LEMMA HandledQuietly ==
    ASSUME StreamInv, outbox # <<>>, Handled, NEW x, FileInv(x),
           Head(outbox).kind \in {"first", "start", "stop"}, phase[x] = "open",
           file'[x] = file[x], subxacts'[x] = subxacts[x]
    PROVE  FileInv(x)'
<1>1. /\ \A k \in Waiting(x, {"change", "plain", "abortSub"}) : FALSE
      /\ \A k \in Waiting(x, {"change", "plain", "abortSub"})' : FALSE
  BY NoneLeft
<1>2. \A g \in Nat : Top(x, g)' => Top(x, g)
  BY TailFacts DEF Top
<1>3. ContentsInv(x)'
  BY <1>1, <1>2, TailFacts, ContentsStay DEF FileInv, Spooling
<1>4. SubxactsInv(x)'
  BY SubxactsStay DEF FileInv
<1>. QED
  BY <1>3, <1>4 DEF FileInv

(* What the file holds of a transaction that is first heard of.            *)
LEMMA FirstEmpty ==
    ASSUME StreamInv, FileType, NEW x \in Xid, FileInv(x), Gets("first"), Head(outbox).xid = x
    PROVE  file[x] = <<>>
<1>1. phase[x] = "open" /\ log[x] = <<>>
  BY HeadFacts, Zenon DEF Gets, MessageInv
<1>2. ContentsInv(x)
  BY <1>1 DEF FileInv, Spooling
<1>3. \A i \in 1..Len(file[x]) : FALSE
  <2>1. \A n \in 1..Len(log[x]) : FALSE
    BY <1>1
  <2>. QED
    BY <1>2, <2>1, Zenon DEF ContentsInv
<1>4. file[x] \in Seq(StreamMsg)
  BY DEF FileType
<1>. QED
  BY <1>3, <1>4

LEMMA SerializeStartFile ==
    ASSUME StreamInv, FileType, NEW x \in Xid, FileInv(x), SerializeStart(x) \/ SerializeStop(x)
    PROVE  FileInv(x)' /\ FileType' /\ \A y \in Xid : file'[y] = file[y] /\ subxacts'[y] = subxacts[y]
<1>1. /\ outbox # <<>> /\ Handled /\ Head(outbox).kind \in {"first", "start", "stop"}
      /\ Head(outbox).xid = x /\ subxacts' = subxacts
  BY DEF SerializeStart, SerializeStop, Gets
<1>2. phase[x] = "open"
  BY <1>1, HeadFacts, Zenon DEF MessageInv
<1>3. file' = file
  <2>1. CASE file' = file
    BY <2>1
  <2>2. CASE Gets("first") /\ file' = [file EXCEPT ![x] = <<>>]
    <3>1. file[x] = <<>>
      BY <1>1, <2>2, FirstEmpty
    <3>. QED
      BY <2>2, <3>1 DEF FileType
  <2>. QED
    BY <2>1, <2>2 DEF SerializeStart, SerializeStop
<1>. QED
  BY <1>1, <1>2, <1>3, HandledQuietly DEF FileType

(* subxact_info_add(): the array keeps the first change of every           *)
(* subtransaction.                                                         *)
LEMMA AppendSubxacts ==
    ASSUME FileType, NEW x \in Xid, SubxactsInv(x), NEW m \in StreamMsg, m.kind = "change", m.xid = x,
           subxacts' = SubxactInfoAdd(x, m.sub), file'[x] = Append(file[x], m)
    PROVE  SubxactsInv(x)' /\ subxacts' \in [Xid -> Seq(SubXactInfo)]
           /\ \A y \in Xid \ {x} : subxacts'[y] = subxacts[y]
<1> DEFINE l == Len(file[x])
           s == m.sub
           f == Append(file[x], m)
<1>1. file[x] \in Seq(StreamMsg) /\ subxacts[x] \in Seq(SubXactInfo) /\ s \in Nat /\ l \in Nat
  <2>1. file[x] \in Seq(StreamMsg) /\ subxacts[x] \in Seq(SubXactInfo)
    BY DEF FileType
  <2>2. s \in Nat
    BY DEF StreamMsg
  <2>. QED
    BY <2>1, <2>2
<1>2. /\ Len(f) = l + 1 /\ f[l + 1] = m /\ \A i \in 1..l : f[i] = file[x][i] /\ i \in 1..Len(f)
      /\ \A i \in 1..Len(f) : i \in 1..l \/ i = l + 1
  BY <1>1, Appended
<1>3. file'[x] = f
  OBVIOUS
<1> HIDE DEF f, s
<1>4. \A i \in 1..Len(f) : f[i].kind = "change" /\ f[i].xid = x
  <2>1. \A i \in 1..l : file[x][i].kind = "change" /\ file[x][i].xid = x
    BY Zenon DEF SubxactsInv
  <2>. QED
    BY <1>2, <2>1, Zenon
<1>5. \A k \in 1..Len(subxacts[x]) :
        /\ subxacts[x][k].offset \in Nat /\ subxacts[x][k].xid > 0
        /\ subxacts[x][k].offset < l /\ subxacts[x][k].offset < Len(f)
        /\ f[subxacts[x][k].offset + 1].sub = subxacts[x][k].xid
        /\ \A i \in 1..subxacts[x][k].offset : f[i].sub # subxacts[x][k].xid
  <2> SUFFICES ASSUME NEW k \in 1..Len(subxacts[x])
               PROVE  /\ subxacts[x][k].offset \in Nat /\ subxacts[x][k].xid > 0
                      /\ subxacts[x][k].offset < l /\ subxacts[x][k].offset < Len(f)
                      /\ f[subxacts[x][k].offset + 1].sub = subxacts[x][k].xid
                      /\ \A i \in 1..subxacts[x][k].offset : f[i].sub # subxacts[x][k].xid
    BY Zenon
  <2> DEFINE o == subxacts[x][k].offset
  <2>1. subxacts[x][k] \in SubXactInfo
    BY <1>1
  <2>2. o \in Nat /\ o < l /\ subxacts[x][k].xid > 0
    BY <2>1, Zenon DEF SubXactInfo, SubxactsInv
  <2>3. file[x][o + 1].sub = subxacts[x][k].xid /\ \A i \in 1..o : file[x][i].sub # subxacts[x][k].xid
    BY Zenon DEF SubxactsInv
  <2> HIDE DEF o
  <2>4. o + 1 \in 1..l /\ o < Len(f) /\ \A i \in 1..o : i \in 1..l
    BY <1>1, <1>2, <2>2
  <2>. QED
    BY <1>2, <2>2, <2>3, <2>4, Zenon DEF o
<1>6. CASE s = 0 \/ Known(x, s)
  <2>1. subxacts' = subxacts
    BY <1>6 DEF SubxactInfoAdd, s
  <2>2. \A i \in 1..Len(f) : f[i].sub > 0 => Known(x, f[i].sub)
    <3>1. \A i \in 1..l : file[x][i].sub > 0 => Known(x, file[x][i].sub)
      BY Zenon DEF SubxactsInv
    <3>2. s > 0 => Known(x, s)
      BY <1>1, <1>6
    <3>. QED
      BY <1>2, <3>1, <3>2, Zenon DEF s
  <2>3. \A i \in 1..Len(file'[x]) : file'[x][i].sub > 0 => Known(x, file[x][i].sub)'
    BY <1>3, <2>1, <2>2 DEF Known
  <2>4. \A j, k \in 1..Len(subxacts[x]) :
            j < k => subxacts[x][j].offset < subxacts[x][k].offset
    BY Zenon DEF SubxactsInv
  <2>5. SubxactsInv(x)'
    <3>1. \A i \in 1..Len(file'[x]) : file'[x][i].kind = "change" /\ file'[x][i].xid = x
      BY <1>3, <1>4, Zenon
    <3>2. \A k \in 1..Len(subxacts'[x]) :
            /\ subxacts'[x][k].xid > 0
            /\ subxacts'[x][k].offset < Len(file'[x])
            /\ file'[x][subxacts'[x][k].offset + 1].sub = subxacts'[x][k].xid
            /\ \A i \in 1..subxacts'[x][k].offset : file'[x][i].sub # subxacts'[x][k].xid
      BY <1>3, <1>5, <2>1
    <3>. QED
      BY <2>1, <2>3, <2>4, <3>1, <3>2, Zenon DEF SubxactsInv
  <2>. QED
    BY <2>1, <2>5 DEF FileType
<1>7. CASE ~(s = 0 \/ Known(x, s))
  <2> DEFINE e == [xid |-> s, offset |-> l]
             n == Len(subxacts[x])
             t == Append(subxacts[x], e)
  <2>1. e \in SubXactInfo /\ e.xid = s /\ e.offset = l
    BY <1>1 DEF SubXactInfo
  <2>2. subxacts' = [subxacts EXCEPT ![x] = t]
    BY <1>7 DEF SubxactInfoAdd, s
  <2> HIDE DEF e
  <2>3. /\ t \in Seq(SubXactInfo) /\ n \in Nat /\ Len(t) = n + 1 /\ t[n + 1] = e
        /\ \A k \in 1..n : t[k] = subxacts[x][k] /\ k \in 1..Len(t)
        /\ \A k \in 1..Len(t) : k \in 1..n \/ k = n + 1
        /\ n + 1 \in 1..Len(t)
    BY <1>1, <2>1, Appended
  <2> HIDE DEF t
  <2>4. /\ subxacts'[x] = t /\ subxacts' \in [Xid -> Seq(SubXactInfo)]
        /\ \A y \in Xid \ {x} : subxacts'[y] = subxacts[y]
    BY <2>2, <2>3 DEF FileType
  <2>5. \A i \in 1..l : f[i].sub # s
    <3>1. \A i \in 1..l : file[x][i].sub > 0 => Known(x, file[x][i].sub)
      BY Zenon DEF SubxactsInv
    <3>2. s > 0
      BY <1>1, <1>7
    <3>. QED
      BY <1>2, <1>7, <3>1, <3>2
  <2>6. \A k \in 1..Len(t) :
            /\ t[k].xid > 0 /\ t[k].offset < Len(f)
            /\ f[t[k].offset + 1].sub = t[k].xid
            /\ \A i \in 1..t[k].offset : f[i].sub # t[k].xid
    <3> SUFFICES ASSUME NEW k \in 1..Len(t)
                 PROVE  /\ t[k].xid > 0 /\ t[k].offset < Len(f)
                        /\ f[t[k].offset + 1].sub = t[k].xid
                        /\ \A i \in 1..t[k].offset : f[i].sub # t[k].xid
      OBVIOUS
    <3>1. CASE k \in 1..n
      <4>1. t[k] = subxacts[x][k]
        BY <3>1, <2>3
      <4>. QED
        BY <3>1, <4>1, <1>5, Zenon
    <3>2. CASE k = n + 1
      <4>1. t[k] = e /\ s > 0 /\ l < Len(f) /\ f[l + 1].sub = s
        BY <3>2, <1>1, <1>2, <1>7, <2>3 DEF s
      <4>. QED
        BY <4>1, <2>1, <2>5
    <3>. QED
      BY <2>3, <3>1, <3>2, Zenon
  <2>7. \A j, k \in 1..Len(t) : j < k => t[j].offset < t[k].offset
    <3> SUFFICES ASSUME NEW j \in 1..Len(t), NEW k \in 1..Len(t), j < k
                 PROVE  t[j].offset < t[k].offset
      OBVIOUS
    <3>1. j \in 1..n
      BY <2>3
    <3>2. CASE k \in 1..n
      BY <3>1, <3>2, <2>3, Zenon DEF SubxactsInv
    <3>3. CASE k = n + 1
      BY <3>1, <3>3, <1>5, <2>1, <2>3, Zenon
    <3>. QED
      BY <2>3, <3>2, <3>3
  <2>8. \A i \in 1..Len(f) : f[i].sub > 0 => \E k \in 1..Len(t) : t[k].xid = f[i].sub
    <3> SUFFICES ASSUME NEW i \in 1..Len(f), f[i].sub > 0
                 PROVE  \E k \in 1..Len(t) : t[k].xid = f[i].sub
      OBVIOUS
    <3>1. CASE i \in 1..l
      <4>1. Known(x, f[i].sub)
        BY <3>1, <1>2, Zenon DEF SubxactsInv
      <4>. QED
        BY <4>1, <2>3 DEF Known
    <3>2. CASE i = l + 1
      BY <3>2, <1>2, <2>1, <2>3 DEF s
    <3>. QED
      BY <1>2, <3>1, <3>2
  <2>9. \A i \in 1..Len(file'[x]) : file'[x][i].sub > 0 => Known(x, file[x][i].sub)'
    BY <1>3, <2>4, <2>8 DEF Known
  <2>. QED
    <3>1. \A i \in 1..Len(file'[x]) : file'[x][i].kind = "change" /\ file'[x][i].xid = x
      BY <1>3, <1>4, Zenon
    <3>2. \A k \in 1..Len(subxacts'[x]) :
            /\ subxacts'[x][k].xid > 0
            /\ subxacts'[x][k].offset < Len(file'[x])
            /\ file'[x][subxacts'[x][k].offset + 1].sub = subxacts'[x][k].xid
            /\ \A i \in 1..subxacts'[x][k].offset : file'[x][i].sub # subxacts'[x][k].xid
      BY <1>3, <2>4, <2>6
    <3>3. \A j, k \in 1..Len(subxacts'[x]) :
            j < k => subxacts'[x][j].offset < subxacts'[x][k].offset
      BY <2>4, <2>7
    <3>. QED
      BY <2>4, <2>9, <3>1, <3>2, <3>3, Zenon DEF SubxactsInv
<1>. QED
  BY <1>6, <1>7

LEMMA SerializeChangeFile ==
    ASSUME StreamInv, FileType, NEW x \in Xid, FileInv(x), SerializeChange(x)
    PROVE  FileInv(x)' /\ FileType' /\ \A y \in Xid \ {x} : file'[y] = file[y] /\ subxacts'[y] = subxacts[y]
<1> DEFINE m == Head(outbox)
           l == Len(file[x])
           f == Append(file[x], m)
<1>1. /\ outbox # <<>> /\ Handled /\ m.kind = "change" /\ m.xid = x
      /\ subxacts' = SubxactInfoAdd(x, m.sub) /\ file' = [file EXCEPT ![x] = f]
  BY DEF SerializeChange, Gets
<1>2. m = outbox[1] /\ m \in StreamMsg /\ MessageInv(1) /\ 1 \in 1..Len(outbox)
  BY <1>1, HeadFacts
<1>3. PublisherType /\ NestInv(x)
  BY DEF StreamInv
<1>4. /\ phase[x] = "open" /\ Len(log[x]) > 0 /\ m.n = Len(log[x]) /\ m.sub = log[x][m.n]
      /\ m.sub = Current(x)
  BY <1>1, <1>2, Zenon DEF MessageInv
<1>5. /\ \A k \in Waiting(x, {"change", "plain"}) : k = 1
      /\ \A k \in Waiting(x, {"abortSub"}) : FALSE
      /\ \A k \in Waiting(x, {"change", "plain"})' : FALSE
      /\ \A k \in Waiting(x, {"abortSub"})' : FALSE
  BY <1>1, NoneLeft
<1>6. 1 \in Waiting(x, {"change", "plain"})
  BY <1>1, <1>2 DEF Waiting
<1>7. UNCHANGED <<phase, nest, subs, dead, log, block>>
  BY <1>1, TailFacts
<1> HIDE DEF m
<1>8. file[x] \in Seq(StreamMsg) /\ l \in Nat
  BY DEF FileType
<1>9. /\ f \in Seq(StreamMsg) /\ Len(f) = l + 1 /\ f[l + 1] = m
      /\ \A i \in 1..l : f[i] = file[x][i] /\ i \in 1..Len(f)
      /\ \A i \in 1..Len(f) : i \in 1..l \/ i = l + 1
      /\ l + 1 \in 1..Len(f)
  BY <1>2, <1>8, Appended
<1> HIDE DEF f
<1>10. file'[x] = f /\ file' \in [Xid -> Seq(StreamMsg)] /\ \A y \in Xid \ {x} : file'[y] = file[y]
  BY <1>1, <1>9, Zenon DEF FileType
<1>11. /\ SubxactsInv(x)' /\ subxacts' \in [Xid -> Seq(SubXactInfo)]
       /\ \A y \in Xid \ {x} : subxacts'[y] = subxacts[y]
  BY <1>1, <1>2, <1>10, AppendSubxacts, Zenon DEF f, FileInv
<1>12. ContentsInv(x)
  BY <1>4, Zenon DEF FileInv, Spooling
<1>13. \A i \in 1..l : file[x][i].n < m.n /\ file[x][i].sub \notin dead[x]
  BY <1>2, <1>5, <1>6, <1>12, Zenon DEF ContentsInv
<1>14. ContentsInv(x)'
  <2>1. \A i \in 1..Len(f) : /\ f[i].n \in 1..Len(log[x]) /\ f[i].sub = log[x][f[i].n]
                             /\ f[i].sub \notin dead[x]
    <3>1. m.sub \notin dead[x]
      BY <1>3, <1>4, CurrentListed
    <3>2. m.n \in 1..Len(log[x])
      BY <1>3, <1>4, TypesOf
    <3>. QED
      BY <1>4, <1>9, <1>12, <1>13, <3>1, <3>2, Zenon DEF ContentsInv
  <2>2. \A i, j \in 1..Len(f) : i < j => f[i].n < f[j].n
    <3> SUFFICES ASSUME NEW i \in 1..Len(f), NEW j \in 1..Len(f), i < j
                 PROVE  f[i].n < f[j].n
      OBVIOUS
    <3>1. i \in 1..l
      BY <1>8, <1>9
    <3>. QED
      BY <3>1, <1>9, <1>12, <1>13, Zenon DEF ContentsInv
  <2>3. \A n \in 1..Len(log[x]) : log[x][n] \notin dead[x] => \E i \in 1..Len(f) : f[i].n = n
    <3> SUFFICES ASSUME NEW n \in 1..Len(log[x]), log[x][n] \notin dead[x]
                 PROVE  \E i \in 1..Len(f) : f[i].n = n
      OBVIOUS
    <3>1. CASE \E i \in 1..l : file[x][i].n = n
      BY <3>1, <1>9
    <3>2. CASE \E k \in Waiting(x, {"change", "plain"}) : outbox[k].n = n
      <4>1. m.n = n
        BY <3>2, <1>2, <1>5
      <4>. QED
        BY <4>1, <1>9
    <3>. QED
      BY <3>1, <3>2, <1>12, Zenon DEF ContentsInv
  <2>4. \A g \in Nat : Top(x, g)' => Closes(x, g)'
    <3> SUFFICES ASSUME NEW g \in Nat, Top(x, g),
                        NEW i \in 1..Len(f), NEW j \in 1..Len(f), i < j, g <= f[i].sub
                 PROVE  g <= f[j].sub
      BY <1>7, <1>10 DEF Top, Closes
    <3>1. i \in 1..l
      BY <1>8, <1>9
    <3>2. CASE j \in 1..l
      BY <3>1, <3>2, <1>9, <1>12, ZenonT(30) DEF ContentsInv, Closes
    <3>3. CASE j = l + 1
      BY <3>3, <1>3, <1>4, <1>9, CurrentListed
    <3>. QED
      BY <1>9, <3>2, <3>3
  <2>. QED
    BY <1>5, <1>7, <1>10, <2>1, <2>2, <2>3, <2>4, Zenon DEF ContentsInv
<1>. QED
  BY <1>10, <1>11, <1>14 DEF FileInv, FileType

(* The array after the file is cut at the first change of one.             *)
LEMMA CutSubxacts ==
    ASSUME FileType, NEW x \in Xid, SubxactsInv(x), NEW i \in 1..Len(subxacts[x]),
           Cut(x, i), ForgetFrom(x, i)
    PROVE  /\ SubxactsInv(x)' /\ FileType'
           /\ \A y \in Xid \ {x} : file'[y] = file[y] /\ subxacts'[y] = subxacts[y]
           /\ Len(file'[x]) = subxacts[x][i].offset /\ subxacts[x][i].offset \in Nat
           /\ \A j \in 1..subxacts[x][i].offset : file'[x][j] = file[x][j] /\ j \in 1..Len(file[x])
<1> DEFINE o == subxacts[x][i].offset
           f == SubSeq(file[x], 1, o)
           t == SubSeq(subxacts[x], 1, i - 1)
           n == Len(subxacts[x])
<1>1. file[x] \in Seq(StreamMsg) /\ subxacts[x] \in Seq(SubXactInfo) /\ n \in Nat
  BY DEF FileType
<1>2. \A k \in 1..n : subxacts[x][k].offset \in Nat /\ subxacts[x][k].xid \in Nat
  <2>1. \A k \in 1..n : subxacts[x][k] \in SubXactInfo
    BY <1>1
  <2>. QED
    BY <2>1 DEF SubXactInfo
<1>3. o \in Nat /\ o < Len(file[x]) /\ Len(file[x]) \in Nat
  <2>1. o < Len(file[x])
    BY Zenon DEF SubxactsInv
  <2>. QED
    BY <1>1, <1>2, <2>1
<1>4. /\ f \in Seq(StreamMsg) /\ Len(f) = o /\ \A j \in 1..o : f[j] = file[x][j] /\ j \in 1..Len(file[x])
  <2> HIDE DEF o
  <2>1. o <= Len(file[x])
    BY <1>3
  <2>. QED
    BY <1>1, <1>3, <2>1, Initial
<1>5. /\ t \in Seq(SubXactInfo) /\ Len(t) = i - 1
      /\ \A k \in 1..i - 1 : t[k] = subxacts[x][k] /\ k \in 1..n /\ k < i
  <2> DEFINE j == i - 1
  <2>1. j \in Nat /\ j <= n /\ \A k \in 1..j : k < i
    BY <1>1
  <2> HIDE DEF j
  <2>2. /\ SubSeq(subxacts[x], 1, j) \in Seq(SubXactInfo) /\ Len(SubSeq(subxacts[x], 1, j)) = j
        /\ \A k \in 1..j : SubSeq(subxacts[x], 1, j)[k] = subxacts[x][k] /\ k \in 1..n
    BY <1>1, <2>1, Initial
  <2>. QED
    BY <2>1, <2>2 DEF j
<1> HIDE DEF f, t
<1>6. /\ file'[x] = f /\ subxacts'[x] = t /\ FileType'
      /\ \A y \in Xid \ {x} : file'[y] = file[y] /\ subxacts'[y] = subxacts[y]
  BY <1>4, <1>5, Zenon DEF Cut, ForgetFrom, FileType, f, t
<1>7. \A k \in 1..i - 1 : subxacts[x][k].offset < o
  BY <1>5, Zenon DEF SubxactsInv
<1>8. \A j \in 1..Len(f) : f[j].kind = "change" /\ f[j].xid = x
  <2>1. \A j \in 1..Len(file[x]) : file[x][j].kind = "change" /\ file[x][j].xid = x
    BY Zenon DEF SubxactsInv
  <2>. QED
    BY <1>4, <2>1, Zenon
<1>9. \A k \in 1..Len(t) :
        /\ t[k].xid > 0 /\ t[k].offset < Len(f)
        /\ f[t[k].offset + 1].sub = t[k].xid
        /\ \A j \in 1..t[k].offset : f[j].sub # t[k].xid
  <2> SUFFICES ASSUME NEW k \in 1..i - 1
               PROVE  /\ t[k].xid > 0 /\ t[k].offset < Len(f)
                      /\ f[t[k].offset + 1].sub = t[k].xid
                      /\ \A j \in 1..t[k].offset : f[j].sub # t[k].xid
    BY <1>5
  <2> DEFINE p == subxacts[x][k].offset
  <2>1. t[k] = subxacts[x][k] /\ k \in 1..n /\ p \in Nat /\ p < o
    BY <1>2, <1>5, <1>7
  <2>2. /\ subxacts[x][k].xid > 0 /\ file[x][p + 1].sub = subxacts[x][k].xid
        /\ \A j \in 1..p : file[x][j].sub # subxacts[x][k].xid
    BY <2>1, Zenon DEF SubxactsInv
  <2> HIDE DEF p, o
  <2>3. p + 1 \in 1..o /\ \A j \in 1..p : j \in 1..o
    BY <1>3, <2>1
  <2>4. t[k].offset = p
    BY <2>1, Zenon DEF p
  <2>. QED
    BY <1>4, <2>1, <2>2, <2>3, <2>4, Zenon
<1>10. \A j, k \in 1..Len(t) : j < k => t[j].offset < t[k].offset
  BY <1>5, Zenon DEF SubxactsInv
<1>11. \A j \in 1..Len(f) : f[j].sub > 0 => \E k \in 1..Len(t) : t[k].xid = f[j].sub
  <2> SUFFICES ASSUME NEW j \in 1..o, file[x][j].sub > 0
               PROVE  \E k \in 1..Len(t) : t[k].xid = file[x][j].sub
    BY <1>4, Zenon
  <2>1. PICK k \in 1..n : subxacts[x][k].xid = file[x][j].sub
    BY <1>4, Zenon DEF SubxactsInv, Known
  <2>2. j \notin 1..subxacts[x][k].offset
    BY <2>1, Zenon DEF SubxactsInv
  <2>3. subxacts[x][k].offset < o
    <3> HIDE DEF o
    <3>. QED
      BY <1>2, <1>3, <2>2
  <2>4. k < i
    <3>1. CASE i < k
      <4>1. o < subxacts[x][k].offset
        BY <3>1, <1>1, Zenon DEF SubxactsInv
      <4>. QED
        BY <4>1, <2>3, <1>2, <1>3
    <3>2. CASE i = k
      BY <3>2, <2>3, <1>3
    <3>. QED
      BY <3>1, <3>2
  <2>5. k \in 1..i - 1
    BY <2>4, <1>1
  <2>. QED
    BY <2>1, <2>5, <1>5
<1>12. \A j \in 1..Len(file'[x]) : file'[x][j].sub > 0 => Known(x, file[x][j].sub)'
  BY <1>6, <1>11, Zenon DEF Known
<1>13. SubxactsInv(x)'
  BY <1>6, <1>8, <1>9, <1>10, <1>12, Zenon DEF SubxactsInv
<1>. QED
  BY <1>3, <1>4, <1>6, <1>13

LEMMA AbortSubFile ==
    ASSUME StreamInv, FileType, NEW x \in Xid, FileInv(x), SerializeAbortSub(x)
    PROVE  FileInv(x)' /\ FileType' /\ \A y \in Xid \ {x} : file'[y] = file[y] /\ subxacts'[y] = subxacts[y]
<1> DEFINE s == Head(outbox).sub
           final == outbox[Len(outbox)]
<1>1. outbox # <<>> /\ Handled /\ Head(outbox).kind = "abortSub" /\ Head(outbox).xid = x
  BY DEF SerializeAbortSub, Gets
<1>2. /\ outbox \in Seq(StreamMsg) /\ Len(outbox) \in Nat /\ 1 \in 1..Len(outbox)
      /\ Head(outbox) = outbox[1] /\ outbox[1] \in StreamMsg /\ MessageInv(1)
      /\ \A i \in 1..Len(outbox) : outbox[i].xid = x /\ MessageInv(i)
  BY <1>1, HeadFacts
<1>3. /\ s \in Nat /\ s > 0 /\ final.kind \in {"abort", "abortSub"}
      /\ final.kind = "abortSub" =>
            /\ phase[x] = "open" /\ s \in dead[x] /\ final.sub <= s
            /\ \A r \in Nat : Listed(x, r) => r < final.sub
  BY <1>1, <1>2, Zenon DEF MessageInv, StreamMsg
<1>4. PublisherType /\ NestInv(x) /\ final \in StreamMsg
  BY <1>2 DEF StreamInv
<1>5. /\ UNCHANGED <<phase, nest, subs, dead, log, block>>
      /\ \A i \in 1..Len(outbox') : outbox'[i] = outbox[i + 1] /\ i + 1 \in 1..Len(outbox)
      /\ \A i \in 1..Len(outbox) : i = 1 \/ (i - 1 \in 1..Len(outbox') /\ outbox'[i - 1] = outbox[i])
      /\ Len(outbox') \in Nat /\ Len(outbox) = Len(outbox') + 1
  BY <1>1, TailFacts, Zenon
<1> HIDE DEF s, final
(* The file is a beginning of what it was, without the changes of s.       *)
<1>6. \E o \in Nat :
        /\ SubxactsInv(x)' /\ FileType' /\ Len(file'[x]) = o
        /\ \A y \in Xid \ {x} : file'[y] = file[y] /\ subxacts'[y] = subxacts[y]
        /\ \A j \in 1..o : file'[x][j] = file[x][j] /\ j \in 1..Len(file[x]) /\ file[x][j].sub # s
        /\ o < Len(file[x]) => file[x][o + 1].sub = s
  <2>1. CASE \E i \in 1..Len(subxacts[x]) : subxacts[x][i].xid = s /\ Cut(x, i) /\ ForgetFrom(x, i)
    <3>1. PICK i \in 1..Len(subxacts[x]) : subxacts[x][i].xid = s /\ Cut(x, i) /\ ForgetFrom(x, i)
      BY <2>1, Zenon
    <3> DEFINE o == subxacts[x][i].offset
    <3>2. /\ SubxactsInv(x)' /\ FileType' /\ Len(file'[x]) = o /\ o \in Nat
          /\ \A y \in Xid \ {x} : file'[y] = file[y] /\ subxacts'[y] = subxacts[y]
          /\ \A j \in 1..o : file'[x][j] = file[x][j] /\ j \in 1..Len(file[x])
      BY <3>1, CutSubxacts, Zenon DEF FileInv
    <3>3. file[x][o + 1].sub = s /\ \A j \in 1..o : file[x][j].sub # s
      BY <3>1, Zenon DEF FileInv, SubxactsInv
    <3> HIDE DEF o
    <3>. QED
      BY <3>2, <3>3
  <2>2. CASE ~Known(x, s) /\ UNCHANGED <<file, subxacts>>
    <3>1. file[x] \in Seq(StreamMsg) /\ FileType' /\ SubxactsInv(x)'
      BY <2>2, SubxactsStay DEF FileType, FileInv
    <3>2. Len(file[x]) \in Nat /\ ~(Len(file[x]) < Len(file[x]))
      BY <3>1
    <3>3. \A j \in 1..Len(file[x]) : file[x][j].sub # s
      BY <2>2, <1>3, Zenon DEF FileInv, SubxactsInv
    <3>. QED
      BY <2>2, <3>1, <3>2, <3>3
  <2>. QED
    BY <2>1, <2>2, Zenon DEF SerializeAbortSub, s
<1>7. PICK o \in Nat :
        /\ SubxactsInv(x)' /\ FileType' /\ Len(file'[x]) = o
        /\ \A y \in Xid \ {x} : file'[y] = file[y] /\ subxacts'[y] = subxacts[y]
        /\ \A j \in 1..o : file'[x][j] = file[x][j] /\ j \in 1..Len(file[x]) /\ file[x][j].sub # s
        /\ o < Len(file[x]) => file[x][o + 1].sub = s
  BY <1>6
<1>8. CASE final.kind = "abort"
  <2>1. phase[x] = "abort"
    <3>1. MessageInv(Len(outbox)) /\ outbox[Len(outbox)].xid = x
      BY <1>2
    <3>. QED
      BY <1>8, <3>1, Zenon DEF MessageInv, final
  <2>2. ASSUME NEW i \in 1..Len(outbox') PROVE outbox'[i].kind \in {"abortSub", "abort"}
    <3>1. Len(outbox) # 1
      BY <1>1, <1>2, <1>8 DEF final
    <3>2. outbox'[i] = outbox[i + 1] /\ MessageInv(i + 1) /\ i + 1 \in 1..Len(outbox)
      BY <1>2, <1>5
    <3>. QED
      BY <3>1, <3>2, Zenon DEF MessageInv
  <2>3. \A k \in Waiting(x, {"commit", "prepare", "plain"})' : FALSE
    BY <2>2 DEF Waiting
  <2>4. ~Spooling(x)'
    BY <1>5, <2>1, <2>3 DEF Spooling
  <2>. QED
    BY <1>7, <2>4, Zenon DEF FileInv
<1>9. CASE final.kind = "abortSub"
  <2>1. ContentsInv(x)
    BY <1>3, <1>9, Zenon DEF FileInv, Spooling
  <2>2. ASSUME NEW i \in 1..Len(outbox) PROVE outbox[i].kind = "abortSub"
    BY <1>2, <1>9, Zenon DEF MessageInv, final
  <2>3. /\ \A k \in Waiting(x, {"change", "plain"}) : FALSE
        /\ \A k \in Waiting(x, {"change", "plain"})' : FALSE
    BY <1>5, <2>2, Zenon DEF Waiting
  <2>4. ASSUME NEW j \in 1..o, file[x][j].sub \in dead[x]
        PROVE  \E k \in Waiting(x, {"abortSub"})' : outbox'[k].sub = file[x][j].sub
    <3>1. PICK k \in Waiting(x, {"abortSub"}) : outbox[k].sub = file[x][j].sub
      BY <2>1, <2>4, <1>7, Zenon DEF ContentsInv
    <3>2. k \in 1..Len(outbox) /\ k # 1
      BY <3>1, <1>2, <1>7, Zenon DEF Waiting, s
    <3>3. k - 1 \in 1..Len(outbox') /\ outbox'[k - 1] = outbox[k]
      BY <3>2, <1>5
    <3>4. k - 1 \in Waiting(x, {"abortSub"})'
      BY <3>1, <3>3 DEF Waiting
    <3>. QED
      BY <3>1, <3>3, <3>4
  <2>5. ASSUME NEW n \in 1..Len(log[x]), log[x][n] \notin dead[x]
        PROVE  \E j \in 1..o : file[x][j].n = n
    <3>1. PICK j \in 1..Len(file[x]) : file[x][j].n = n
      BY <2>1, <2>3, <2>5, Zenon DEF ContentsInv
    <3>2. file[x][j].sub = log[x][n]
      BY <2>1, <3>1, Zenon DEF ContentsInv
    <3>3. log[x][n] \in Nat /\ log[x][n] < final.sub
      <4>1. log[x][n] \in Nat /\ log[x][n] <= subs[x]
        BY <1>4, TypesOf DEF NestInv
      <4>2. Listed(x, log[x][n])
        BY <1>4, <2>5, <4>1 DEF NestInv
      <4>. QED
        BY <1>3, <1>9, <4>1, <4>2
    <3>4. final.sub \in Nat
      BY <1>4, Zenon DEF StreamMsg
    <3>5. Closes(x, final.sub)
      <4>1. 1 \in Waiting(x, {"abortSub"})
        BY <1>2, <2>2 DEF Waiting
      <4>. QED
        BY <2>1, <4>1, <1>9, Zenon DEF ContentsInv, final
    <3>6. j <= o
      <4>1. SUFFICES ASSUME o < j PROVE FALSE
        OBVIOUS
      <4>2. o < Len(file[x]) /\ o + 1 \in 1..Len(file[x]) /\ (o + 1 = j \/ o + 1 < j)
        BY <4>1
      <4>3. file[x][o + 1].sub = s /\ final.sub <= file[x][o + 1].sub
        BY <4>2, <1>3, <1>7, <1>9
      <4>4. final.sub <= file[x][j].sub
        BY <4>2, <4>3, <3>5, Zenon DEF Closes
      <4>. QED
        BY <4>4, <3>2, <3>3, <3>4
    <3>. QED
      BY <3>1, <3>6
  <2>6. \A g : Closes(x, g) => Closes(x, g)'
    BY <1>7, Zenon DEF Closes
  <2>7. \A g \in Nat : Top(x, g)' => Closes(x, g)'
    BY <1>5, <2>1, <2>6, Zenon DEF ContentsInv, Top
  <2>8. ASSUME NEW k \in Waiting(x, {"abortSub"})' PROVE Closes(x, outbox[Len(outbox)].sub)'
    <3>1. Len(outbox') \in 1..Len(outbox')
      BY <1>5 DEF Waiting
    <3>2. outbox'[Len(outbox')] = final
      BY <3>1, <1>5 DEF final
    <3>3. Closes(x, final.sub)
      <4>1. 1 \in Waiting(x, {"abortSub"})
        BY <1>2, <2>2 DEF Waiting
      <4>. QED
        BY <2>1, <4>1, <1>9, Zenon DEF ContentsInv, final
    <3>4. \A g : g = final.sub => Closes(x, g)'
      BY <2>6, <3>3
    <3>. QED
      BY <3>2, <3>4, Zenon DEF Closes
  <2>9. ContentsInv(x)'
    <3>1. ASSUME NEW i \in 1..Len(file'[x])
          PROVE  /\ file'[x][i].n \in 1..Len(log'[x]) /\ file'[x][i].sub = log'[x][file'[x][i].n]
                 /\ file'[x][i].sub \in dead'[x]
                       => \E k \in Waiting(x, {"abortSub"})' : outbox'[k].sub = file'[x][i].sub
      <4>1. i \in 1..o /\ i \in 1..Len(file[x]) /\ file'[x][i] = file[x][i]
        BY <1>7, Zenon
      <4>2. file[x][i].n \in 1..Len(log[x]) /\ file[x][i].sub = log[x][file[x][i].n]
        BY <2>1, <4>1, Zenon DEF ContentsInv
      <4>3. log'[x] = log[x] /\ dead'[x] = dead[x]
        BY <1>5
      <4>. QED
        BY <2>4, <4>1, <4>2, <4>3, Zenon
    <3>2. \A i, j \in 1..Len(file'[x]) : i < j => file'[x][i].n < file'[x][j].n
      BY <1>7, <2>1, Zenon DEF ContentsInv
    <3>3. ASSUME NEW n \in 1..Len(log'[x]), log'[x][n] \notin dead'[x]
          PROVE  \E i \in 1..Len(file'[x]) : file'[x][i].n = n
      <4>1. PICK i \in 1..o : file[x][i].n = n
        BY <1>5, <2>5, <3>3, Zenon
      <4>2. i \in 1..Len(file'[x]) /\ file'[x][i] = file[x][i]
        BY <1>7
      <4>. QED
        BY <4>1, <4>2
    <3>. QED
      BY <2>3, <2>7, <2>8, <3>1, <3>2, <3>3, Zenon DEF ContentsInv
  <2>. QED
    BY <1>7, <2>9 DEF FileInv
<1>. QED
  BY <1>3, <1>7, <1>8, <1>9, Zenon

(* The end of a transaction that has no file, or whose file is removed.    *)
LEMMA EndFile ==
    ASSUME StreamInv, FileType, NEW x \in Xid, FileInv(x),
           outbox # <<>>, Handled, Head(outbox).xid = x,
           \/ Head(outbox).kind \in {"abort", "commit", "prepare"} /\ CleanupFiles(x)
           \/ Head(outbox).kind = "plain" /\ UNCHANGED <<file, subxacts>>
    PROVE  FileInv(x)' /\ FileType' /\ \A y \in Xid \ {x} : file'[y] = file[y] /\ subxacts'[y] = subxacts[y]
<1>1. Head(outbox) = outbox[1] /\ MessageInv(1) /\ Len(outbox) \in Nat
  BY HeadFacts
<1>2. phase'[x] \in {"abort", "commit", "prepare"} /\ Len(outbox') = 0
  <2>1. Len(outbox) = 1
    BY <1>1, Zenon DEF MessageInv
  <2>2. phase[x] \in {"abort", "commit", "prepare"}
    BY <1>1, Zenon DEF MessageInv
  <2>. QED
    BY <2>1, <2>2, TailFacts
<1>3. \A i \in 1..Len(outbox') : FALSE
  BY <1>2
<1>4. ~Spooling(x)'
  BY <1>2, <1>3 DEF Spooling, Waiting
<1>5. CASE CleanupFiles(x)
  <2>1. file'[x] = <<>> /\ subxacts'[x] = <<>> /\ FileType'
    <3>1. <<>> \in Seq(StreamMsg) /\ <<>> \in Seq(SubXactInfo)
      OBVIOUS
    <3>. QED
      BY <1>5, <3>1 DEF CleanupFiles, FileType
  <2>2. (\A i \in 1..Len(file'[x]) : FALSE) /\ (\A i \in 1..Len(subxacts'[x]) : FALSE)
    BY <2>1
  <2>3. SubxactsInv(x)'
    BY <2>2, Zenon DEF SubxactsInv
  <2>. QED
    BY <1>4, <1>5, <2>1, <2>3 DEF FileInv, CleanupFiles, FileType
<1>6. CASE UNCHANGED <<file, subxacts>>
  <2>1. SubxactsInv(x)'
    BY <1>6, SubxactsStay DEF FileInv
  <2>. QED
    BY <1>4, <1>6, <2>1, Zenon DEF FileInv, FileType
<1>. QED
  BY <1>5, <1>6

(* The file of a transaction that ends holds what it did not roll back.    *)
LEMMA EndsExact ==
    ASSUME StreamInv, FileType, NEW x \in Xid, FileInv(x), Ends, Head(outbox).xid = x
    PROVE  /\ phase[x] \in {"commit", "prepare"}
           /\ \A i \in 1..Len(file[x]) : /\ file[x][i] \in StreamMsg
                                         /\ file[x][i].xid = x /\ file[x][i].sub \notin dead[x]
           /\ \A m \in Alive(x) : \E i \in 1..Len(file[x]) : file[x][i] = m
<1>1. /\ outbox # <<>> /\ Head(outbox) = outbox[1] /\ MessageInv(1) /\ 1 \in 1..Len(outbox)
      /\ Head(outbox).kind \in {"commit", "prepare"}
  BY HeadFacts DEF Ends, Gets
<1>2. phase[x] \in {"commit", "prepare"} /\ Len(outbox) = 1
  BY <1>1, Zenon DEF MessageInv
<1>3. \A i \in 1..Len(outbox) : i = 1
  BY <1>2
<1>4. /\ \A k \in Waiting(x, {"change", "plain"}) : FALSE
      /\ \A k \in Waiting(x, {"abortSub"}) : FALSE
  BY <1>1, <1>3 DEF Waiting
<1>5. 1 \in Waiting(x, {"commit", "prepare", "plain"})
  BY <1>1 DEF Waiting
<1>6. ContentsInv(x)
  BY <1>5 DEF FileInv, Spooling
<1>7. file[x] \in Seq(StreamMsg)
  BY Zenon DEF FileType
<1>8. \A i \in 1..Len(file[x]) : file[x][i] \in StreamMsg /\ file[x][i].xid = x /\ file[x][i].kind = "change"
  <2>1. \A i \in 1..Len(file[x]) : file[x][i].xid = x /\ file[x][i].kind = "change"
    BY Zenon DEF FileInv, SubxactsInv
  <2>. QED
    BY <1>7, <2>1
<1>9. ASSUME NEW m \in Alive(x) PROVE \E i \in 1..Len(file[x]) : file[x][i] = m
  <2>1. PICK n \in 1..Len(log[x]) : log[x][n] \notin dead[x] /\ m = Msg("change", x, log[x][n], n)
    BY Zenon DEF Alive
  <2>2. PICK i \in 1..Len(file[x]) : file[x][i].n = n
    BY <1>4, <1>6, <2>1, Zenon DEF ContentsInv
  <2>3. /\ file[x][i] \in StreamMsg /\ file[x][i].kind = "change" /\ file[x][i].xid = x
        /\ file[x][i].sub = log[x][n]
    BY <1>6, <1>8, <2>2, Zenon DEF ContentsInv
  <2>4. file[x][i] = Msg("change", x, log[x][n], n)
    BY <2>2, <2>3 DEF Msg, StreamMsg
  <2>. QED
    BY <2>1, <2>4
<1>. QED
  BY <1>2, <1>4, <1>6, <1>8, <1>9, Zenon DEF ContentsInv

(* The fate of a transaction that has ended does not change.               *)
LEMMA EndedStays ==
    ASSUME StreamInv, StreamNext, NEW y \in Xid, phase[y] \in {"commit", "prepare", "abort"}
    PROVE  phase'[y] = phase[y] /\ log'[y] = log[y] /\ dead'[y] = dead[y]
<1>1. PublisherType
  BY DEF StreamInv
<1>2. PICK x \in Xid :
          \/ StreamStart(x) \/ StreamChange(x) \/ StreamStop(x)
          \/ Savepoint(x) \/ Release(x) \/ Rollback(x) \/ Plain(x)
          \/ \E how \in {"commit", "prepare", "abort"} : StreamEnd(x, how)
  BY DEF StreamNext
<1>3. CASE y # x
  BY <1>2, <1>3, OthersStay, Zenon
<1>4. CASE y = x
  <2>1. ~StreamStart(x) /\ ~Savepoint(x) /\ ~Release(x) /\ ~Rollback(x) /\ ~Plain(x)
    BY <1>4, Zenon DEF StreamStart, Savepoint, Release, Rollback, Plain
  <2>2. ~StreamChange(x) /\ ~StreamStop(x)
    BY <1>4 DEF StreamInv, StreamChange, StreamStop
  <2>3. \A how : ~StreamEnd(x, how)
    BY <1>4 DEF StreamEnd
  <2>. QED
    BY <1>2, <2>1, <2>2, <2>3
<1>. QED
  BY <1>3, <1>4

LEMMA ProducedStays ==
    ASSUME SpoolInv, StreamNext, UNCHANGED <<produced, flushed>>
    PROVE  OnlyCommittedSent' /\ FlushedInv'
<1>1. StreamInv /\ OnlyCommittedSent /\ FlushedInv /\ produced \subseteq StreamMsg
  BY DEF SpoolInv
<1>2. OnlyCommittedSent'
  <2> SUFFICES ASSUME NEW m \in produced
               PROVE  phase'[m.xid] \in {"commit", "prepare"} /\ m.sub \notin dead'[m.xid]
    BY DEF OnlyCommittedSent
  <2>1. m.xid \in Xid /\ phase[m.xid] \in {"commit", "prepare"} /\ m.sub \notin dead[m.xid]
    BY <1>1 DEF OnlyCommittedSent, StreamMsg
  <2>. QED
    BY <1>1, <2>1, EndedStays
<1>3. FlushedInv'
  <2> SUFFICES ASSUME NEW x \in flushed
               PROVE  /\ x \in Xid /\ phase'[x] \in {"commit", "prepare"}
                      /\ Alive(x)' \subseteq produced'
    BY DEF FlushedInv
  <2>1. x \in Xid /\ phase[x] \in {"commit", "prepare"} /\ Alive(x) \subseteq produced
    BY <1>1 DEF FlushedInv
  <2>2. phase'[x] = phase[x] /\ log'[x] = log[x] /\ dead'[x] = dead[x]
    BY <1>1, <2>1, EndedStays
  <2>3. Alive(x)' = Alive(x)
    BY <2>2 DEF Alive
  <2>. QED
    BY <2>1, <2>2, <2>3
<1>. QED
  BY <1>2, <1>3

-----------------------------------------------------------------------------
(* The invariant                                                           *)

LEMMA SpoolInvInit ==
    ASSUME SpooledInit
    PROVE  SpoolInv
<1>1. StreamInv
  BY StreamInitInv DEF SpooledInit
<1>2. FileType
  <2>1. <<>> \in Seq(StreamMsg) /\ <<>> \in Seq(SubXactInfo)
    OBVIOUS
  <2>. QED
    BY <2>1 DEF SpooledInit, SpoolInit, FileType
<1>3. ASSUME NEW x \in Xid PROVE FileInv(x)
  <2>1. file[x] = <<>> /\ subxacts[x] = <<>> /\ log[x] = <<>>
    BY DEF SpooledInit, SpoolInit, StreamInit
  <2>2. /\ \A i \in 1..Len(file[x]) : FALSE
        /\ \A i \in 1..Len(subxacts[x]) : FALSE
        /\ \A i \in 1..Len(log[x]) : FALSE
    BY <2>1
  <2>3. SubxactsInv(x)
    BY <2>2, Zenon DEF SubxactsInv
  <2>4. ContentsInv(x)
    BY <2>2, Zenon DEF ContentsInv, Closes
  <2>. QED
    BY <2>3, <2>4 DEF FileInv
<1>4. ReplayInv /\ FlushedInv /\ produced \subseteq StreamMsg /\ OnlyCommittedSent
  BY DEF SpooledInit, SpoolInit, ReplayInv, FlushedInv, OnlyCommittedSent
<1>. QED
  BY <1>1, <1>2, <1>3, <1>4 DEF SpoolInv

(* A message is handled and nothing is sent.                               *)
LEMMA NothingSentInv ==
    ASSUME SpoolInv, outbox # <<>>, Handled, ~Ends, NEW x \in Xid, Head(outbox).xid = x,
           FileInv(x)', FileType',
           \A y \in Xid \ {x} : file'[y] = file[y] /\ subxacts'[y] = subxacts[y],
           UNCHANGED <<replay, produced, flushed>>
    PROVE  SpoolInv'
<1>1. /\ StreamInv /\ FileType /\ ReplayInv /\ FlushedInv /\ produced \subseteq StreamMsg
      /\ OnlyCommittedSent /\ \A y \in Xid : FileInv(y)
  BY DEF SpoolInv
<1>2. StreamInv'
  BY <1>1, HandledInv DEF Handled
<1>3. UNCHANGED <<phase, nest, subs, dead, log, block>>
  BY <1>1, TailFacts
<1>4. replay = 0
  BY <1>1 DEF ReplayInv
<1>5. ReplayInv'
  BY <1>4 DEF ReplayInv
<1>6. OnlyCommittedSent'
  BY <1>1, <1>3, Zenon DEF OnlyCommittedSent
<1>7. FlushedInv'
  BY <1>1, <1>3 DEF FlushedInv, Alive
<1>8. ASSUME NEW y \in Xid PROVE FileInv(y)'
  BY <1>1, HandledOther
<1>. QED
  BY <1>1, <1>2, <1>5, <1>6, <1>7, <1>8 DEF SpoolInv

LEMMA StreamStutters ==
    ASSUME StreamInv, UNCHANGED <<phase, nest, subs, dead, log, block, outbox>>
    PROVE  StreamInv'
<1>1. PublisherType' /\ \A x \in block' : phase'[x] = "open"
  BY DEF StreamInv, PublisherType
<1>2. ASSUME NEW x \in Xid PROVE NestInv(x)'
  BY NestStays DEF StreamInv
<1>3. ASSUME NEW i \in 1..Len(outbox) PROVE MessageInv(i)'
  <2>1. MessageInv(i)
    BY DEF StreamInv, OutboxInv
  <2>2. \A x, s : (Listed(x, s)' <=> Listed(x, s)) /\ Current(x)' = Current(x)
    BY DEF Listed, Current, Innermost
  <2>. QED
    BY <2>1, <2>2, Zenon DEF MessageInv
<1>4. OutboxInv'
  BY <1>3 DEF StreamInv, OutboxInv
<1>. QED
  BY <1>1, <1>2, <1>4 DEF StreamInv

LEMMA FileStutters ==
    ASSUME NEW x, FileInv(x), UNCHANGED <<phase, nest, dead, log, outbox, file, subxacts>>
    PROVE  FileInv(x)'
<1>1. \A kinds : Waiting(x, kinds)' = Waiting(x, kinds)
  BY DEF Waiting
<1>2. \A g : (Closes(x, g)' <=> Closes(x, g)) /\ (Top(x, g)' <=> Top(x, g))
  BY DEF Closes, Top
<1>3. SubxactsInv(x)'
  BY SubxactsStay DEF FileInv
<1>4. Spooling(x)' => Spooling(x)
  BY <1>1 DEF Spooling
<1>5. ASSUME ContentsInv(x) PROVE ContentsInv(x)'
  <2> DEFINE w == Waiting(x, {"change", "plain"})
             a == Waiting(x, {"abortSub"})
  <2>1. w' = w /\ a' = a
    BY <1>1
  <2>2. /\ \A i \in 1..Len(file[x]) :
            /\ file[x][i].n \in 1..Len(log[x]) /\ file[x][i].sub = log[x][file[x][i].n]
            /\ \A k \in w : file[x][i].n < outbox[k].n
            /\ file[x][i].sub \in dead[x] => \E k \in a : outbox[k].sub = file[x][i].sub
        /\ \A i, j \in 1..Len(file[x]) : i < j => file[x][i].n < file[x][j].n
        /\ \A n \in 1..Len(log[x]) : log[x][n] \notin dead[x] =>
              (\E i \in 1..Len(file[x]) : file[x][i].n = n) \/ \E k \in w : outbox[k].n = n
    BY <1>5, Zenon DEF ContentsInv
  <2>3. /\ \A g \in Nat : Top(x, g) => Closes(x, g)
        /\ \A k \in a : outbox[Len(outbox)].kind = "abortSub" => Closes(x, outbox[Len(outbox)].sub)
    BY <1>5, Zenon DEF ContentsInv
  <2> HIDE DEF w, a
  <2>4. /\ \A g \in Nat : Top(x, g)' => Closes(x, g)'
        /\ \A k \in a : outbox[Len(outbox)].kind = "abortSub" => Closes(x, outbox[Len(outbox)].sub)'
    BY <1>2, <2>3
  <2>. QED
    BY <2>1, <2>2, <2>4, ZenonT(30) DEF ContentsInv, w, a
<1>. QED
  BY <1>3, <1>4, <1>5 DEF FileInv

LEMMA SpoolReplayInv ==
    ASSUME SpoolInv, NEW x \in Xid, SpoolReplay(x)
    PROVE  SpoolInv'
<1>1. /\ StreamInv /\ FileType /\ ReplayInv /\ FlushedInv /\ produced \subseteq StreamMsg
      /\ OnlyCommittedSent /\ FileInv(x) /\ \A y \in Xid : FileInv(y)
  BY DEF SpoolInv
<1>2. /\ Ends /\ Head(outbox).xid = x /\ replay < Len(file[x]) /\ replay' = replay + 1
      /\ produced' = produced \cup {file[x][replay + 1]}
      /\ UNCHANGED <<phase, nest, subs, dead, log, blocks, block, outbox, file, subxacts, flushed>>
  BY Zenon DEF SpoolReplay, streamVars, publisherVars
<1>3. /\ phase[x] \in {"commit", "prepare"}
      /\ \A i \in 1..Len(file[x]) : /\ file[x][i] \in StreamMsg
                                    /\ file[x][i].xid = x /\ file[x][i].sub \notin dead[x]
  BY <1>1, <1>2, EndsExact
<1>4. file[x] \in Seq(StreamMsg) /\ replay \in Nat
  BY <1>1 DEF FileType, ReplayInv
<1>5. Len(file[x]) \in Nat /\ replay + 1 \in 1..Len(file[x])
  BY <1>2, <1>4
<1>6. produced' \subseteq StreamMsg /\ OnlyCommittedSent'
  BY <1>1, <1>2, <1>3, <1>5, Zenon DEF OnlyCommittedSent
<1>7. FlushedInv'
  BY <1>1, <1>2 DEF FlushedInv, Alive
<1>8. ReplayInv'
  <2>1. \A i \in 1..replay : file[x][i] \in produced
    <3>1. replay = 0 => \A i \in 1..replay : FALSE
      OBVIOUS
    <3>2. replay = 0 \/ replay > 0
      BY <1>4
    <3>. QED
      BY <1>1, <1>2, <3>1, <3>2 DEF ReplayInv
  <2>2. \A i \in 1..replay + 1 : i \in 1..replay \/ i = replay + 1
    BY <1>4
  <2>3. \A i \in 1..replay' : file[x][i] \in produced'
    BY <1>2, <2>1, <2>2
  <2>4. Ends' /\ Head(outbox') = Head(outbox) /\ replay' \in Nat /\ replay' <= Len(file[x])
    BY <1>2, <1>4, <1>5 DEF Ends, Gets
  <2>. QED
    BY <1>2, <2>3, <2>4 DEF ReplayInv
<1>9. StreamInv'
  BY <1>1, <1>2, StreamStutters
<1>10. ASSUME NEW y \in Xid PROVE FileInv(y)'
  BY <1>1, <1>2, FileStutters, Zenon
<1>. QED
  BY <1>1, <1>2, <1>6, <1>7, <1>8, <1>9, <1>10 DEF SpoolInv, FileType

LEMMA SpoolEndInv ==
    ASSUME SpoolInv, NEW x \in Xid, SpoolEnd(x)
    PROVE  SpoolInv'
<1>1. /\ StreamInv /\ FileType /\ ReplayInv /\ FlushedInv /\ produced \subseteq StreamMsg
      /\ OnlyCommittedSent /\ FileInv(x) /\ \A y \in Xid : FileInv(y)
  BY DEF SpoolInv
<1>2. /\ Ends /\ Head(outbox).xid = x /\ replay = Len(file[x]) /\ replay' = 0
      /\ flushed' = flushed \cup {x} /\ CleanupFiles(x) /\ Handled /\ produced' = produced
      /\ outbox # <<>> /\ Head(outbox).kind \in {"commit", "prepare"}
  BY DEF SpoolEnd, Ends, Gets
<1>3. StreamInv'
  BY <1>1, <1>2, HandledInv DEF Handled
<1>4. UNCHANGED <<phase, nest, subs, dead, log, block>>
  BY <1>1, <1>2, TailFacts
<1>5. FileInv(x)' /\ FileType' /\ \A y \in Xid \ {x} : file'[y] = file[y] /\ subxacts'[y] = subxacts[y]
  BY <1>1, <1>2, EndFile, Zenon
<1>6. ASSUME NEW y \in Xid PROVE FileInv(y)'
  BY <1>1, <1>2, <1>5, HandledOther, Zenon
<1>7. \A i \in 1..Len(file[x]) : file[x][i] \in produced
  <2>1. replay \in Nat /\ (replay = 0 => \A i \in 1..replay : FALSE) /\ (replay = 0 \/ replay > 0)
    BY <1>1 DEF ReplayInv
  <2>. QED
    BY <1>1, <1>2, <2>1 DEF ReplayInv
<1>8. phase[x] \in {"commit", "prepare"} /\ Alive(x) \subseteq produced
  BY <1>1, <1>2, <1>7, EndsExact
<1>9. \A y : Alive(y)' = Alive(y)
  BY <1>4, Zenon DEF Alive
<1>10. FlushedInv'
  BY <1>1, <1>2, <1>4, <1>8, <1>9, Zenon DEF FlushedInv
<1>11. ReplayInv' /\ OnlyCommittedSent'
  BY <1>1, <1>2, <1>4 DEF ReplayInv, OnlyCommittedSent
<1>. QED
  BY <1>1, <1>2, <1>3, <1>5, <1>6, <1>10, <1>11 DEF SpoolInv

LEMMA ApplyPlainInv ==
    ASSUME SpoolInv, NEW x \in Xid, ApplyPlain(x)
    PROVE  SpoolInv'
<1> DEFINE c == Msg("change", x, 0, 1)
<1>1. /\ StreamInv /\ FileType /\ ReplayInv /\ FlushedInv /\ produced \subseteq StreamMsg
      /\ OnlyCommittedSent /\ FileInv(x) /\ \A y \in Xid : FileInv(y)
  BY DEF SpoolInv
<1>2. /\ outbox # <<>> /\ Head(outbox).kind = "plain" /\ Head(outbox).xid = x
      /\ produced' = produced \cup {c} /\ flushed' = flushed \cup {x} /\ Handled
      /\ UNCHANGED <<file, subxacts, replay>>
  BY DEF ApplyPlain, Gets
<1>3. StreamInv'
  BY <1>1, <1>2, HandledInv DEF Handled
<1>4. UNCHANGED <<phase, nest, subs, dead, log, block>>
  BY <1>1, <1>2, TailFacts, Zenon
<1>5. FileInv(x)' /\ FileType' /\ \A y \in Xid \ {x} : file'[y] = file[y] /\ subxacts'[y] = subxacts[y]
  BY <1>1, <1>2, EndFile, Zenon
<1>6. ASSUME NEW y \in Xid PROVE FileInv(y)'
  BY <1>1, <1>2, <1>5, HandledOther, Zenon
<1>7. phase[x] = "commit" /\ log[x] = <<0>> /\ 0 \notin dead[x]
  <2>1. phase[x] = "commit" /\ log[x] = <<0>>
    BY <1>1, <1>2, HeadFacts, Zenon DEF MessageInv
  <2>2. 0 \notin dead[x]
    BY <1>1 DEF StreamInv, NestInv
  <2>. QED
    BY <2>1, <2>2, Zenon
<1>8. c \in StreamMsg /\ c.xid = x /\ c.sub = 0
  BY Kinds DEF Msg, StreamMsg
<1>9. \A n \in 1..Len(log[x]) : n = 1 /\ log[x][n] = 0
  BY <1>7
<1>10. Alive(x) \subseteq {c}
  BY <1>9, Zenon DEF Alive
<1> HIDE DEF c
<1>11. \A y : Alive(y)' = Alive(y)
  BY <1>4 DEF Alive
<1>12. FlushedInv'
  BY <1>1, <1>2, <1>4, <1>7, <1>10, <1>11, Zenon DEF FlushedInv
<1>13. produced' \subseteq StreamMsg /\ OnlyCommittedSent'
  BY <1>1, <1>2, <1>4, <1>7, <1>8, Zenon DEF OnlyCommittedSent
<1>14. ReplayInv'
  BY <1>1, <1>2 DEF ReplayInv, Ends, Gets
<1>. QED
  BY <1>3, <1>5, <1>6, <1>12, <1>13, <1>14, Zenon DEF SpoolInv

LEMMA SpoolInvNext ==
    ASSUME SpoolInv, [SpooledNext]_spooledVars
    PROVE  SpoolInv'
<1>1. /\ StreamInv /\ FileType /\ ReplayInv /\ FlushedInv /\ produced \subseteq StreamMsg
      /\ OnlyCommittedSent /\ \A y \in Xid : FileInv(y)
  BY DEF SpoolInv
<1>2. CASE StreamNext /\ UNCHANGED spoolVars
  <2>1. UNCHANGED <<file, subxacts, replay, produced, flushed>>
    BY <1>2 DEF spoolVars
  <2>2. StreamInv'
    BY <1>1, <1>2, StreamNextInv
  <2>3. ASSUME NEW y \in Xid PROVE FileInv(y)'
    BY <1>1, <1>2, <2>1, StreamNextFile
  <2>4. OnlyCommittedSent' /\ FlushedInv'
    BY <1>2, <2>1, ProducedStays
  <2>5. ReplayInv'
    <3>1. outbox = <<>>
      BY <1>2, Zenon DEF StreamNext, StreamStart, StreamChange, StreamStop, Savepoint, Release,
         Rollback,
                  Plain, StreamEnd, Sends
    <3>2. replay = 0
      BY <1>1, <3>1 DEF ReplayInv, Ends, Gets
    <3>. QED
      BY <2>1, <3>2 DEF ReplayInv
  <2>. QED
    BY <1>1, <2>1, <2>2, <2>3, <2>4, <2>5 DEF SpoolInv, FileType
<1>3. ASSUME NEW x \in Xid, SerializeStart(x) \/ SerializeStop(x) PROVE SpoolInv'
  <2>1. /\ outbox # <<>> /\ Handled /\ ~Ends /\ Head(outbox).xid = x
        /\ UNCHANGED <<replay, produced, flushed>>
    BY <1>3, Zenon DEF SerializeStart, SerializeStop, Gets, Ends
  <2>. QED
    BY <1>1, <1>3, <2>1, SerializeStartFile, NothingSentInv, Zenon
<1>4. ASSUME NEW x \in Xid, SerializeChange(x) PROVE SpoolInv'
  <2>1. /\ outbox # <<>> /\ Handled /\ ~Ends /\ Head(outbox).xid = x
        /\ UNCHANGED <<replay, produced, flushed>>
    BY <1>4 DEF SerializeChange, Gets, Ends
  <2>. QED
    BY <1>1, <1>4, <2>1, SerializeChangeFile, NothingSentInv, Zenon
<1>5. ASSUME NEW x \in Xid, SerializeAbortSub(x) PROVE SpoolInv'
  <2>1. /\ outbox # <<>> /\ Handled /\ ~Ends /\ Head(outbox).xid = x
        /\ UNCHANGED <<replay, produced, flushed>>
    BY <1>5, Zenon DEF SerializeAbortSub, Gets, Ends
  <2>. QED
    BY <1>1, <1>5, <2>1, AbortSubFile, NothingSentInv, Zenon
<1>6. ASSUME NEW x \in Xid, SerializeAbort(x) PROVE SpoolInv'
  <2>1. /\ outbox # <<>> /\ Handled /\ ~Ends /\ Head(outbox).xid = x
        /\ Head(outbox).kind = "abort" /\ CleanupFiles(x)
        /\ UNCHANGED <<replay, produced, flushed>>
    BY <1>6, Zenon DEF SerializeAbort, Gets, Ends
  <2>2. FileInv(x)' /\ FileType' /\ \A y \in Xid \ {x} : file'[y] = file[y] /\ subxacts'[y] = subxacts[y]
    BY <1>1, <2>1, EndFile
  <2>. QED
    BY <2>1, <2>2, NothingSentInv, Zenon
<1>7. CASE UNCHANGED spooledVars
  <2>1. UNCHANGED <<phase, nest, subs, dead, log, block, outbox,
                    file, subxacts, replay, produced, flushed>>
    BY <1>7 DEF spooledVars, streamVars, publisherVars, spoolVars
  <2>2. StreamInv'
    BY <1>1, <2>1, StreamStutters, Zenon
  <2>3. FileType' /\ OnlyCommittedSent' /\ FlushedInv' /\ ReplayInv'
    BY <1>1, <2>1, ZenonT(30)
       DEF FileType, OnlyCommittedSent, FlushedInv, Alive, ReplayInv, Ends, Gets
  <2>4. ASSUME NEW y \in Xid PROVE FileInv(y)'
    BY <1>1, <2>1, FileStutters
  <2>. QED
    BY <1>1, <2>1, <2>2, <2>3, <2>4 DEF SpoolInv
<1>. QED
  BY <1>2, <1>3, <1>4, <1>5, <1>6, <1>7, SpoolReplayInv, SpoolEndInv, ApplyPlainInv
     DEF SpooledNext, SerializeStep, Idle

-----------------------------------------------------------------------------
(* The results                                                             *)

LEMMA SpoolInvariant == SpooledSpec => []SpoolInv
<1>1. SpooledInit => SpoolInv
  BY SpoolInvInit
<1>2. SpoolInv /\ [SpooledNext]_spooledVars => SpoolInv'
  BY SpoolInvNext, Zenon
<1>. QED
  BY <1>1, <1>2, PTL DEF SpooledSpec

LEMMA ExactInvariant == SpoolInv => SpoolExact
<1> SUFFICES ASSUME SpoolInv, NEW x \in Xid, outbox = <<>>, phase[x] = "open"
             PROVE  /\ {file[x][i] : i \in 1..Len(file[x])} = Alive(x)
                    /\ \A i, j \in 1..Len(file[x]) : i < j => file[x][i].n < file[x][j].n
  BY DEF SpoolExact
<1>1. FileInv(x) /\ FileType
  BY DEF SpoolInv
<1>2. /\ \A k \in Waiting(x, {"change", "plain"}) : FALSE
      /\ \A k \in Waiting(x, {"abortSub"}) : FALSE
  BY NothingWaits
<1>3. ContentsInv(x)
  BY <1>1 DEF FileInv, Spooling
<1>4. file[x] \in Seq(StreamMsg)
  BY <1>1, Zenon DEF FileType
<1>5. ASSUME NEW i \in 1..Len(file[x])
      PROVE  /\ file[x][i].n \in 1..Len(log[x]) /\ log[x][file[x][i].n] \notin dead[x]
             /\ file[x][i] = Msg("change", x, log[x][file[x][i].n], file[x][i].n)
  <2>1. file[x][i] \in StreamMsg
    BY <1>4
  <2>2. file[x][i].kind = "change" /\ file[x][i].xid = x
    BY <1>1, Zenon DEF FileInv, SubxactsInv
  <2>3. /\ file[x][i].n \in 1..Len(log[x]) /\ file[x][i].sub = log[x][file[x][i].n]
        /\ file[x][i].sub \notin dead[x]
    BY <1>2, <1>3, Zenon DEF ContentsInv
  <2>4. \A m \in StreamMsg : m = Msg(m.kind, m.xid, m.sub, m.n)
    BY DEF Msg, StreamMsg
  <2>5. file[x][i] = Msg("change", x, log[x][file[x][i].n], file[x][i].n)
    BY <2>1, <2>2, <2>3, <2>4, Zenon
  <2>. QED
    BY <2>3, <2>5, Zenon
<1>6. ASSUME NEW m \in Alive(x) PROVE \E i \in 1..Len(file[x]) : m = file[x][i]
  <2>1. PICK n \in 1..Len(log[x]) : log[x][n] \notin dead[x] /\ m = Msg("change", x, log[x][n], n)
    BY Zenon DEF Alive
  <2>2. PICK i \in 1..Len(file[x]) : file[x][i].n = n
    BY <1>2, <1>3, <2>1, Zenon DEF ContentsInv
  <2>. QED
    BY <1>5, <2>1, <2>2, Zenon
<1>7. \A i \in 1..Len(file[x]) : file[x][i] \in Alive(x)
  BY <1>5, Zenon DEF Alive
<1>8. {file[x][i] : i \in 1..Len(file[x])} = Alive(x)
  BY <1>6, <1>7
<1>. QED
  BY <1>3, <1>8, Zenon DEF ContentsInv

(* However savepoints are nested, released and rolled back, cutting the    *)
(* changes file at the first change of what aborts (stream_abort_internal) *)
(* leaves what has not been rolled back, in order, for any number of       *)
(* transactions, changes, savepoints and blocks.                           *)
THEOREM SpoolExactCorrect == SpooledSpec => []SpoolExact
BY SpoolInvariant, ExactInvariant, PTL

(* The leader sends no change of a streamed transaction that aborts, and   *)
(* none that was rolled back to a savepoint (apply_spooled_messages).      *)
THEOREM OnlyCommittedSentCorrect == SpooledSpec => []OnlyCommittedSent
<1>1. SpoolInv => OnlyCommittedSent
  BY DEF SpoolInv
<1>. QED
  BY <1>1, SpoolInvariant, PTL

(* When store_flush_position() is told of the end of a transaction, all    *)
(* its changes that were not rolled back have been handed to the producer. *)
THEOREM FlushedMeansSentCorrect == SpooledSpec => []FlushedMeansSent
<1>1. SpoolInv => FlushedMeansSent
  BY Zenon DEF SpoolInv, FlushedInv, FlushedMeansSent
<1>. QED
  BY <1>1, SpoolInvariant, PTL
=============================================================================
