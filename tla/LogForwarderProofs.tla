-------------------------- MODULE LogForwarderProofs --------------------------
(***************************************************************************)
(* Nothing is lost: for any number of records, any size of body, and       *)
(* whatever is rejected, swallowed, lost, deleted or crashes, the cursor   *)
(* passes a record only when it is stored, deleted or given up.            *)
(*                                                                         *)
(* The windows of deliverAll are enough: no id is on its way or queued     *)
(* twice, whatever may still be stored is on record, and an event is given *)
(* up for a reason of its own, for any number of records, launches and     *)
(* troubles.                                                               *)
(***************************************************************************)
EXTENDS LogForwarder, TLAPS, FiniteSetTheorems

-----------------------------------------------------------------------------
(* Sequences of sets of ids.                                               *)

LEMMA InIdsOf ==
  ASSUME NEW s \in Seq(Ids), NEW e
  PROVE  e \in IdsOf(s) <=> \E i \in 1..Len(s) : e \in s[i]
<1>1. DOMAIN s = 1..Len(s)
  OBVIOUS
<1> QED
  BY <1>1, Zenon DEF IdsOf

LEMMA HalvesSplit ==
  ASSUME NEW ids \in Ids
  PROVE  Halves(ids) \in Seq(Ids) /\ IdsOf(Halves(ids)) = ids
<1>1. FirstHalf(ids) \subseteq ids
  BY DEF FirstHalf
<1>2. CASE FirstHalf(ids) = ids
  <2> DEFINE one == <<ids>>
  <2>1. Halves(ids) = one
    BY <1>2 DEF Halves
  <2>2. one \in Seq(Ids) /\ Len(one) = 1 /\ one[1] = ids
    OBVIOUS
  <2> HIDE DEF one
  <2>3. \A e : e \in IdsOf(one) <=> e \in ids
    BY <2>2, InIdsOf
  <2> QED
    BY <2>1, <2>2, <2>3
<1>3. CASE FirstHalf(ids) # ids
  <2> DEFINE half == FirstHalf(ids)
             rest == ids \ half
             both == <<half, rest>>
  <2>1. Halves(ids) = both /\ half \in Ids /\ rest \in Ids
    BY <1>1, <1>3 DEF Halves, Ids
  <2>2. both \in Seq(Ids) /\ Len(both) = 2 /\ both[1] = half /\ both[2] = rest
    BY <2>1
  <2>3. half \union rest = ids
    BY <1>1
  <2> HIDE DEF half, rest, both
  <2>4. \A e : e \in IdsOf(both) <=> e \in half \/ e \in rest
    BY <2>2, InIdsOf
  <2> QED
    BY <2>1, <2>2, <2>3, <2>4
<1> QED
  BY <1>2, <1>3

LEMMA IdsOfConcat ==
  ASSUME NEW s \in Seq(Ids), NEW t \in Seq(Ids)
  PROVE  s \o t \in Seq(Ids) /\ IdsOf(s \o t) = IdsOf(s) \union IdsOf(t)
<1> DEFINE both == s \o t
<1>1. /\ both \in Seq(Ids)
      /\ Len(s) \in Nat /\ Len(t) \in Nat /\ Len(both) = Len(s) + Len(t)
      /\ \A i \in 1..Len(s) : both[i] = s[i]
      /\ \A i \in 1..Len(t) : both[Len(s) + i] = t[i]
  OBVIOUS
<1> HIDE DEF both
<1>2. ASSUME NEW e \in IdsOf(both)
      PROVE  e \in IdsOf(s) \/ e \in IdsOf(t)
  <2>1. PICK i \in 1..Len(both) : e \in both[i]
    BY <1>1, <1>2, InIdsOf
  <2>2. CASE i <= Len(s)
    BY <1>1, <2>1, <2>2, InIdsOf
  <2>3. CASE i > Len(s)
    <3>1. i - Len(s) \in 1..Len(t) /\ i = Len(s) + (i - Len(s))
      BY <1>1, <2>3
    <3>2. e \in t[i - Len(s)]
      BY <1>1, <2>1, <3>1
    <3> QED
      BY <3>1, <3>2, InIdsOf
  <2> QED
    BY <1>1, <2>2, <2>3
<1>3. ASSUME NEW e \in IdsOf(s)
      PROVE  e \in IdsOf(both)
  <2>1. PICK i \in 1..Len(s) : e \in s[i]
    BY <1>3, InIdsOf
  <2>2. i \in 1..Len(both) /\ e \in both[i]
    BY <1>1, <2>1
  <2> QED
    BY <1>1, <2>2, InIdsOf
<1>4. ASSUME NEW e \in IdsOf(t)
      PROVE  e \in IdsOf(both)
  <2>1. PICK i \in 1..Len(t) : e \in t[i]
    BY <1>4, InIdsOf
  <2>2. Len(s) + i \in 1..Len(both) /\ e \in both[Len(s) + i]
    BY <1>1, <2>1
  <2> QED
    BY <1>1, <2>2, InIdsOf
<1>5. IdsOf(both) = IdsOf(s) \union IdsOf(t)
  BY <1>2, <1>3, <1>4
<1> QED
  BY <1>1, <1>5 DEF both

LEMMA IdsOfAppend ==
  ASSUME NEW s \in Seq(Ids), NEW ids \in Ids
  PROVE  /\ Append(s, ids) \in Seq(Ids) /\ Len(Append(s, ids)) = Len(s) + 1
         /\ IdsOf(Append(s, ids)) = IdsOf(s) \union ids
<1> DEFINE all == Append(s, ids)
<1>1. /\ all \in Seq(Ids) /\ Len(s) \in Nat /\ Len(all) = Len(s) + 1
      /\ \A i \in 1..Len(s) : all[i] = s[i]
      /\ all[Len(s) + 1] = ids
  OBVIOUS
<1> HIDE DEF all
<1>2. ASSUME NEW e
      PROVE  e \in IdsOf(all) <=> e \in IdsOf(s) \/ e \in ids
  <2>1. e \in IdsOf(all) <=> \E i \in 1..(Len(s) + 1) : e \in all[i]
    BY <1>1, InIdsOf
  <2>2. e \in IdsOf(s) <=> \E i \in 1..Len(s) : e \in s[i]
    BY InIdsOf
  <2> QED
    BY <1>1, <2>1, <2>2
<1>3. IdsOf(all) = IdsOf(s) \union ids
  BY <1>2
<1> QED
  BY <1>1, <1>3 DEF all

LEMMA IdsOfTail ==
  ASSUME NEW s \in Seq(Ids), s # <<>>
  PROVE  /\ Head(s) \in Ids /\ Tail(s) \in Seq(Ids)
         /\ IdsOf(s) \subseteq Head(s) \union IdsOf(Tail(s))
<1> DEFINE rest == Tail(s)
<1>1. /\ Head(s) \in Ids /\ rest \in Seq(Ids)
      /\ Len(s) \in Nat /\ Len(rest) = Len(s) - 1
      /\ Head(s) = s[1]
      /\ \A i \in 1..Len(rest) : rest[i] = s[i + 1]
  OBVIOUS
<1> HIDE DEF rest
<1>2. ASSUME NEW e \in IdsOf(s), e \notin Head(s)
      PROVE  e \in IdsOf(rest)
  <2>1. PICK i \in 1..Len(s) : e \in s[i]
    BY <1>2, InIdsOf
  <2>2. i # 1
    BY <1>1, <1>2, <2>1
  <2>3. i - 1 \in 1..Len(rest) /\ (i - 1) + 1 = i
    BY <1>1, <2>2
  <2>4. e \in rest[i - 1]
    BY <1>1, <2>1, <2>3
  <2> QED
    BY <1>1, <2>3, <2>4, InIdsOf
<1>3. IdsOf(s) \subseteq Head(s) \union IdsOf(rest)
  BY <1>2
<1> QED
  BY <1>1, <1>3 DEF rest

\* A prefix of the suspects and what comes after it.
LEMMA SuspectsSplit ==
  ASSUME session.suspects \in Seq(Ids), NEW n \in 0..Len(session.suspects)
  PROVE  LET again == SubSeq(session.suspects, n + 1, Len(session.suspects))
         IN  /\ again \in Seq(Ids)
             /\ Suspected(n) \in Ids
             /\ IdsOf(session.suspects) \subseteq Suspected(n) \union IdsOf(again)
<1> DEFINE s == session.suspects
           again == SubSeq(s, n + 1, Len(s))
<1>1. /\ again \in Seq(Ids) /\ Len(s) \in Nat /\ Len(again) = Len(s) - n
      /\ \A i \in 1..Len(again) : again[i] = s[n + i]
  OBVIOUS
<1>2. \A e : e \in Suspected(n) <=> \E i \in 1..n : e \in s[i]
  BY Zenon DEF Suspected
<1>3. \A i \in 1..Len(s) : s[i] \subseteq Events
  BY DEF Ids
<1> HIDE DEF again
<1>4. Suspected(n) \in Ids
  <2>1. \A i \in 1..n : i \in 1..Len(s)
    BY <1>1
  <2>2. \A e : e \in Suspected(n) => e \in Events
    BY <1>2, <1>3, <2>1
  <2> QED
    BY <2>2 DEF Ids
<1>5. ASSUME NEW e \in IdsOf(s), e \notin Suspected(n)
      PROVE  e \in IdsOf(again)
  <2>1. PICK i \in 1..Len(s) : e \in s[i]
    BY <1>5, InIdsOf
  <2>2. i \notin 1..n
    BY <1>2, <1>5, <2>1
  <2>3. i - n \in 1..Len(again) /\ n + (i - n) = i
    BY <1>1, <2>2
  <2>4. e \in again[i - n]
    BY <1>1, <2>1, <2>3
  <2> QED
    BY <1>1, <2>3, <2>4, InIdsOf
<1>6. IdsOf(s) \subseteq Suspected(n) \union IdsOf(again)
  BY <1>5
<1> QED
  BY <1>1, <1>4, <1>6 DEF again

-----------------------------------------------------------------------------
(* Types.                                                                  *)

LEMMA AsleepTyped ==
  /\ Asleep \in Session
  /\ Asleep.missing = {} /\ Asleep.wanted = {} /\ Asleep.proved = 0 /\ Asleep.suspects = <<>>
<1>1. <<>> \in Seq(Ids)
  OBVIOUS
<1>2. {} \in Ids /\ 0 \in 0..NumEvents
  BY LogForwarderAssumption DEF Ids
<1> QED
  BY <1>1, <1>2 DEF Asleep, Session, Stages

\* What deliverAll returns only changes where the session is and what isolate works on.
LEMMA ReturnsTyped ==
  ASSUME LogForwarderTypeOK, NEW left \in Ids, NEW rejected \in BOOLEAN
  PROVE  LET next == Returns(left, rejected)
         IN  /\ next \in Session
             /\ next = [session EXCEPT !.at = next.at, !.isolating = next.isolating,
                          !.groups = next.groups, !.suspects = next.suspects, !.out = next.out]
             /\ next.at \in {"confirm", "next"}
             /\ Len(session.suspects) <= Len(next.suspects)
             /\ next.suspects = session.suspects \/ (~rejected /\ left # {})
<1> DEFINE next == Returns(left, rejected)
           split == IF rejected THEN session.group ELSE left
<1>1. /\ session \in Session
      /\ session.group \in Ids /\ session.posted \in Ids /\ session.groups \in Seq(Ids)
      /\ session.suspects \in Seq(Ids) /\ session.out \in Ids
  BY DEF LogForwarderTypeOK, SessionTypeOK, Session
<1>2. /\ Halves(left) \in Seq(Ids) /\ Halves(session.posted) \in Seq(Ids)
      /\ Halves(split) \in Seq(Ids) /\ Halves(split) \o session.groups \in Seq(Ids)
  BY <1>1, HalvesSplit, IdsOfConcat
<1>3. /\ Append(session.suspects, session.group) \in Seq(Ids)
      /\ Len(session.suspects) <= Len(Append(session.suspects, session.group))
      /\ Len(session.suspects) <= Len(session.suspects)
  <2>1. Len(session.suspects) \in Nat
    BY <1>1
  <2> QED
    BY <1>1, <2>1, IdsOfAppend
<1>4. session.out \union session.group \in Ids
  BY <1>1 DEF Ids
<1> HIDE DEF split
<1>5. CASE ~session.isolating /\ ~rejected /\ left = {}
  <2>1. next = [session EXCEPT !.at = "confirm"]
    BY <1>5 DEF Returns
  <2> QED
    BY <1>1, <1>3, <2>1 DEF Session, Stages
<1>6. CASE ~session.isolating /\ (rejected \/ left # {})
  <2> DEFINE halves == Halves(IF rejected THEN session.posted ELSE left)
  <2>1. next = [session EXCEPT !.at = "next", !.isolating = TRUE, !.groups = halves]
    BY <1>6 DEF Returns
  <2>2. halves \in Seq(Ids)
    BY <1>2
  <2> HIDE DEF halves
  <2> QED
    BY ZenonT(60), <1>1, <1>3, <2>1, <2>2 DEF Session, Stages
<1>7. CASE session.isolating
  <2> DEFINE single == Cardinality(session.group) = 1
             out == IF rejected /\ single THEN session.out \union session.group ELSE session.out
             suspects == IF ~rejected /\ left # {} /\ single THEN Append(session.suspects, session.group)
                         ELSE session.suspects
             groups == IF single \/ (~rejected /\ left = {}) THEN session.groups
                       ELSE Halves(split) \o session.groups
  <2>1. next = [session EXCEPT !.at = "next", !.out = out, !.suspects = suspects, !.groups = groups]
    BY <1>7 DEF Returns, split
  <2>2. out \in Ids /\ suspects \in Seq(Ids) /\ groups \in Seq(Ids)
    BY <1>1, <1>2, <1>3, <1>4
  <2>3. Len(session.suspects) <= Len(suspects) /\ (suspects = session.suspects \/ (~rejected /\ left # {}))
    BY <1>3
  <2> HIDE DEF out, suspects, groups, single
  <2> QED
    BY ZenonT(60), <1>1, <2>1, <2>2, <2>3 DEF Session, Stages
<1> QED
  BY <1>5, <1>6, <1>7

LEMMA SessionTypeStep ==
  ASSUME LogForwarderTypeOK, LogForwarderNext
  PROVE  SessionTypeOK'
<1> USE DEF SessionTypeOK
<1>1. /\ SessionTypeOK /\ session.proved \in Nat /\ session.suspects \in Seq(Ids)
      /\ cursor \in [confirmed : 0..NumEvents, pending : Shipment]
      /\ session.missing \in Ids /\ session.wanted \in Ids
  BY DEF LogForwarderTypeOK, Session
<1>2. /\ {} \in Ids /\ {} \subseteq {} /\ 0 \in 0..NumEvents /\ 0 \in Nat
      /\ <<>> \in Seq(Ids) /\ 0 <= Len(<<>>)
  BY LogForwarderAssumption DEF Ids
<1>3. CASE session' = session
  BY <1>1, <1>3
<1>4. ASSUME NEW l \in Launches \union {None}, NEW stale \in BOOLEAN, NEW at \in Stages,
             \/ session' = Asleep
             \/ session' = [Asleep EXCEPT !.at = at, !.launch = l]
             \/ session' = [Asleep EXCEPT !.at = at, !.stale = stale]
             \/ session' = [Asleep EXCEPT !.at = at, !.launch = l, !.stale = stale]
      PROVE  SessionTypeOK'
  <2>1. /\ session' \in Session
        /\ session'.missing = Asleep.missing /\ session'.wanted = Asleep.wanted
        /\ session'.proved = Asleep.proved /\ session'.suspects = Asleep.suspects
    <3>1. CASE session' = Asleep
      BY <3>1, AsleepTyped
    <3>2. CASE session' = [Asleep EXCEPT !.at = at, !.launch = l]
      BY <3>2, AsleepTyped DEF Session
    <3>3. CASE session' = [Asleep EXCEPT !.at = at, !.stale = stale]
      BY <3>3, AsleepTyped DEF Session
    <3>4. CASE session' = [Asleep EXCEPT !.at = at, !.launch = l, !.stale = stale]
      BY <3>4, AsleepTyped DEF Session
    <3> QED
      BY <1>4, <3>1, <3>2, <3>3, <3>4
  <2> QED
    BY <1>2, <2>1, AsleepTyped
<1>5. ASSUME NEW at \in Stages, session' = [session EXCEPT !.at = at]
      PROVE  SessionTypeOK'
  BY <1>1, <1>5 DEF Session
<1>6. ASSUME NEW ids \in Ids, NEW end \in 0..NumEvents, NEW known \in Ids,
             NEW latest \in Launches \union {0, None}, Settle(ids, end, known, latest)
      PROVE  SessionTypeOK'
  BY ZenonT(60), <1>1, <1>2, <1>6 DEF Settle, Asleep, Session, Stages
<1>7. ASSUME NEW left \in Ids, NEW rejected \in BOOLEAN, NEW s \in Session,
             s = Returns(left, rejected)
      PROVE  /\ s.missing = session.missing /\ s.wanted = session.wanted
             /\ s.proved = session.proved /\ Len(session.suspects) <= Len(s.suspects)
             /\ Len(s.suspects) \in Nat
  <2>1. /\ s = [session EXCEPT !.at = s.at, !.isolating = s.isolating, !.groups = s.groups,
                              !.suspects = s.suspects, !.out = s.out]
        /\ Len(session.suspects) <= Len(s.suspects)
    BY <1>7, ReturnsTyped
  <2>2. s.missing = session.missing /\ s.wanted = session.wanted /\ s.proved = session.proved
    BY <1>1, <2>1 DEF Session
  <2>3. s.suspects \in Seq(Ids)
    BY DEF Session
  <2> QED
    BY <2>1, <2>2, <2>3
<1>8. /\ FALSE \in BOOLEAN /\ None \in Launches \union {None}
      /\ "open" \in Stages /\ "paused" \in Stages /\ "check" \in Stages /\ "prepare" \in Stages
      /\ "unpend" \in Stages /\ "post" \in Stages /\ "posting" \in Stages /\ "wait" \in Stages
  BY DEF Asleep, Stages
<1>9. /\ target \in Launches \union {0} /\ session.stale \in BOOLEAN
      /\ session.launch \in Launches \union {None}
  BY <1>1 DEF LogForwarderTypeOK, Session
<1>10. CASE Open
  <2>1. target \in Launches /\ session' = [Asleep EXCEPT !.at = "open", !.launch = target]
    BY <1>9, <1>10 DEF Open
  <2> QED
    BY <1>4, <1>8, <2>1
<1>11. CASE Reconcile
  <2>1. /\ cursor.pending.ids \in Ids /\ cursor.pending.ids \ gone \in Ids
        /\ cursor.pending.end \in 0..NumEvents
        /\ cursor.pending.launch \in Launches \union {0, None}
    BY <1>1 DEF Shipment, Ids
  <2> QED
    BY <1>6, <1>11, <2>1 DEF Reconcile
<1>12. CASE NextBody
  <2>1. PICK ids \in SUBSET Events, end \in Events : Settle(ids, end, ids, None)
    BY <1>12 DEF NextBody
  <2>2. ids \in Ids /\ end \in 0..NumEvents
    BY LogForwarderAssumption DEF Ids, Events
  <2> QED
    BY <1>6, <2>1, <2>2
<1>13. CASE Interrupt
  BY <1>4, <1>8, <1>13 DEF Interrupt
<1>14. CASE Check
  <2> DEFINE missing == session.wanted \ stored
             proof == session.posted \intersect session.wanted \intersect stored # {}
             n == IF proof THEN Len(session.suspects) ELSE session.proved
             next == Returns({}, FALSE)
  <2>1. Len(session.suspects) \in Nat /\ n \in Nat /\ n <= Len(session.suspects)
    BY <1>1
  <2>2. missing \in Ids /\ missing \subseteq session.wanted
    BY <1>1 DEF Ids
  <2>3. CASE missing = {}
    <3>1. session' = [next EXCEPT !.proved = n]
      BY <1>14, <2>3 DEF Check, Session
    <3>2. next \in Session
      BY <1>1, <1>2, ReturnsTyped
    <3>3. /\ next.missing = session.missing /\ next.wanted = session.wanted
          /\ Len(session.suspects) <= Len(next.suspects) /\ Len(next.suspects) \in Nat
      BY <1>2, <1>7, <3>2
    <3> HIDE DEF next, n
    <3>4. session' \in Session
      BY <2>1, <3>1, <3>2 DEF Session
    <3>5. /\ session'.missing = next.missing /\ session'.wanted = next.wanted
          /\ session'.proved = n /\ session'.suspects = next.suspects
      BY <3>1, <3>2 DEF Session
    <3> QED
      BY <1>1, <2>1, <3>3, <3>4, <3>5
  <2>4. CASE missing # {}
    <3> DEFINE at == IF session.latest = None THEN "prepare" ELSE "wait"
    <3>1. session' = [session EXCEPT !.missing = missing, !.proved = n, !.at = at]
      BY <1>1, <1>14, <2>4 DEF Check, Session
    <3>2. at \in Stages
      BY <1>8
    <3> HIDE DEF at, n, missing
    <3> QED
      BY <1>1, <2>1, <2>2, <3>1, <3>2 DEF Session
  <2> QED
    BY <2>3, <2>4
<1>15. CASE Poll \/ Elapse \/ SlowWrite
  BY <1>5, <1>8, <1>15 DEF Poll, Elapse, SlowWrite, Goes
<1>16. ASSUME NEW left \in Ids, NEW rejected \in BOOLEAN, session' = Returns(left, rejected)
       PROVE  SessionTypeOK'
  <2>1. session' \in Session
    BY <1>16, ReturnsTyped
  <2> QED
    BY <1>1, <1>7, <1>16, <2>1
<1>17. CASE Stuck
  BY <1>1, <1>16, <1>17 DEF Stuck
<1>18. CASE Prepare
  <2> DEFINE deleted == session.missing \ session.known
             ids == session.ids \ deleted
             wanted == session.wanted \ deleted
             missing == session.missing \ deleted
             next == Returns({}, FALSE)
  <2>1. ids \in Ids /\ wanted \in Ids /\ missing \in Ids /\ missing \subseteq wanted
    BY <1>1 DEF Ids, Session
  <2>2. CASE session.missing = deleted
    <3>1. session' = [next EXCEPT !.ids = ids, !.missing = {}]
      BY <1>1, <1>18, <2>2 DEF Prepare, Session
    <3>2. next \in Session
      BY <1>1, <1>2, ReturnsTyped
    <3>3. /\ next.wanted = session.wanted /\ next.proved = session.proved
          /\ Len(session.suspects) <= Len(next.suspects) /\ Len(next.suspects) \in Nat
      BY <1>2, <1>7, <3>2
    <3>4. Len(session.suspects) \in Nat
      BY <1>1
    <3> HIDE DEF next, ids
    <3>5. session' \in Session
      BY <1>2, <2>1, <3>1, <3>2 DEF Session
    <3>6. /\ session'.missing = {} /\ session'.proved = next.proved /\ session'.suspects = next.suspects
      BY <3>1, <3>2 DEF Session
    <3> QED
      BY <1>1, <3>3, <3>4, <3>5, <3>6
  <2>3. CASE session.missing # deleted
    <3>1. session' = [session EXCEPT !.wanted = wanted, !.ids = ids, !.missing = missing, !.at = "post"]
      BY <1>1, <1>18, <2>3 DEF Prepare, Session
    <3> HIDE DEF ids, wanted, missing
    <3> QED
      BY <1>1, <1>8, <2>1, <3>1 DEF Session
  <2> QED
    BY <2>2, <2>3
<1>19. CASE Post
  <2>1. CASE session' = Asleep
    BY <1>4, <1>8, <2>1
  <2>2. CASE session' # Asleep
    <3>1. session' = [session EXCEPT !.at = "posting", !.posted = session.missing]
      BY <1>19, <2>2 DEF Post
    <3> QED
      BY <1>1, <1>8, <3>1 DEF Session
  <2> QED
    BY <2>1, <2>2
<1>20. CASE Answer
  <2>1. CASE net.answer \in {"sent", "unsettled"}
    <3>1. session' = [session EXCEPT !.at = "check", !.latest = session.launch]
      BY <1>20, <2>1 DEF Answer
    <3> QED
      BY <1>1, <1>8, <1>9, <3>1 DEF Session
  <2>2. CASE net.answer = "failed"
    <3>1. session' = [session EXCEPT !.at = "check", !.latest = 0]
      BY <1>20, <2>2 DEF Answer
    <3> QED
      BY <1>1, <1>8, <3>1 DEF Session
  <2>3. CASE net.answer = "refused"
    BY <1>5, <1>8, <1>20, <2>3 DEF Answer
  <2>4. CASE net.answer = "rejected"
    BY <1>2, <1>16, <1>20, <2>4 DEF Answer
  <2> QED
    BY <1>20, <2>1, <2>2, <2>3, <2>4 DEF Answer, LogForwarderTypeOK
<1>21. CASE Unpend
  <2>1. session' = [Asleep EXCEPT !.at = "paused", !.stale = session.stale]
    BY <1>21 DEF Unpend
  <2> QED
    BY <1>4, <1>8, <1>9, <2>1
<1>22. CASE NextGroup
  <2> DEFINE group == Head(session.groups)
             rest == Tail(session.groups)
  <2>1. session' = [session EXCEPT !.at = "check", !.group = group, !.wanted = group,
                                   !.missing = {}, !.latest = None, !.groups = rest]
    BY <1>1, <1>22 DEF NextGroup, Session
  <2>2. group \in Ids /\ rest \in Seq(Ids)
    BY <1>1, <1>22, IdsOfTail DEF NextGroup, Session
  <2> HIDE DEF group, rest
  <2> QED
    BY <1>1, <1>2, <1>8, <2>1, <2>2 DEF Session
<1>23. CASE RoundEnds
  <2> DEFINE again == SubSeq(session.suspects, session.proved + 1, Len(session.suspects))
             ids == session.ids \ GivenUp
             at == IF again = <<>> THEN "confirm" ELSE "next"
  <2>1. session' = [session EXCEPT !.at = at, !.ids = ids, !.groups = again,
                                   !.out = {}, !.suspects = <<>>, !.proved = 0]
    BY <1>1, <1>23 DEF RoundEnds, Session
  <2>2. session.proved \in 0..Len(session.suspects)
    BY <1>1
  <2>3. again \in Seq(Ids)
    BY <1>1, <2>2, SuspectsSplit
  <2>4. ids \in Ids /\ at \in Stages
    BY <1>1 DEF Ids, Session, Stages
  <2> HIDE DEF again, ids, at
  <2> QED
    BY <1>1, <1>2, <2>1, <2>3, <2>4 DEF Session
<1>24. CASE Confirm
  BY <1>4, <1>8, <1>9, <1>24 DEF Confirm
<1>25. ASSUME NEW l, Retarget(l)
       PROVE  SessionTypeOK'
  <2>1. CASE session' = session \/ session' = Asleep
    BY <1>3, <1>4, <1>8, <2>1
  <2>2. CASE session' = [session EXCEPT !.stale = TRUE]
    BY <1>1, <2>2 DEF Session
  <2> QED
    BY <1>25, <2>1, <2>2 DEF Retarget
<1>26. CASE Serves \/ Unhealthy \/ Noticed
  BY <1>25, <1>26 DEF Serves, Unhealthy, Noticed
<1>27. CASE OwnerCrashes
  BY <1>4, <1>8, <1>27 DEF OwnerCrashes
<1>28. CASE Carries \/ Stores \/ Relaunch \/ OwnerStarts \/ TurnedAway \/ AnswerLost \/ Vanish
            \/ Retire \/ \E l \in alive : Exit(l)
  BY <1>3, <1>28 DEF Carries, Arrive, Vanish, Unheard, Stores, Store, Drop, Relaunch, OwnerStarts,
                     TurnedAway, AnswerLost, Exit, Retire
<1> QED
  BY <1>10, <1>11, <1>12, <1>13, <1>14, <1>15, <1>17, <1>18, <1>19, <1>20, <1>21, <1>22, <1>23,
     <1>24, <1>26, <1>27, <1>28 DEF LogForwarderNext, Forward, Owns, Troubles

LEMMA TypeStep ==
  ASSUME LogForwarderTypeOK, LogForwarderNext
  PROVE  LogForwarderTypeOK'
<1> USE LogForwarderAssumption DEF LogForwarderTypeOK
<1>1. SessionTypeOK'
  BY SessionTypeStep
<1>2. /\ session.end \in 0..NumEvents /\ session.ids \in Ids /\ session.missing \in Ids
      /\ session.launch \in Launches \union {None} /\ session.out \in Ids
  BY DEF SessionTypeOK, Session
<1>3. NoPending \in Shipment /\ NoPost \in [launch : Launches \union {None}, ids : Ids, answer : {"none"}]
  BY DEF NoPending, NoPost, Shipment, Ids
<1> DEFINE Cursor == [confirmed : 0..NumEvents, pending : Shipment]
           Net == [launch : Launches \union {None}, ids : Ids,
                   answer : {"none", "sent", "unsettled", "failed", "refused", "rejected"}]
           Rest == /\ target \in Launches \union {0} /\ launch \in Launches
                   /\ own \in 1..(MaxLaunches + 1) /\ alive \subseteq Launches
                   /\ ownerUp \in BOOLEAN /\ troubles \in 0..MaxTroubles
           Taken == queue \subseteq [launch : Launches, ids : Ids] /\ stored \union lost \subseteq Events
           Kept == gone \union skipped \subseteq Events
<1>4. cursor' \in Cursor
  <2>1. CASE cursor' = cursor
    BY <2>1
  <2>2. CASE Prepare
    <3> DEFINE ids == session.ids \ (session.missing \ session.known)
    <3>1. cursor' = cursor \/ cursor' = [cursor EXCEPT !.pending = [end |-> session.end, ids |-> ids,
                                                                  launch |-> session.launch]]
      BY <2>2 DEF Prepare, Record, SessionTypeOK, Session
    <3>2. ids \in Ids
      BY <1>2 DEF Ids
    <3>3. [end |-> session.end, ids |-> ids, launch |-> session.launch] \in Shipment
      BY <1>2, <3>2 DEF Shipment
    <3> QED
      BY <3>1, <3>3
  <2>3. CASE Unpend
    BY <1>3, <2>3 DEF Unpend
  <2>4. CASE Confirm
    BY <1>2, <1>3, <2>4 DEF Confirm
  <2> QED
    BY <2>1, <2>2, <2>3, <2>4
       DEF LogForwarderNext, Forward, Carries, Stores, Owns, Troubles, Open, Reconcile, NextBody,
           Interrupt, Check, Poll, Stuck, Elapse, Post, Answer, NextGroup, RoundEnds, Arrive, Vanish,
           Unheard, Store, Drop, Serves, Noticed, Relaunch, OwnerStarts, SlowWrite, TurnedAway,
           AnswerLost, Unhealthy, Exit, OwnerCrashes, Retire
<1>5. net' \in Net
  <2>1. CASE net' = net \/ net' = NoPost
    BY <1>3, <2>1
  <2>2. CASE Post
    BY <1>2, <1>3, <2>2 DEF Post
  <2>3. CASE Arrive \/ TurnedAway \/ AnswerLost \/ Vanish
    BY <2>3 DEF Arrive, TurnedAway, AnswerLost, Vanish
  <2> QED
    BY <2>1, <2>2, <2>3
       DEF LogForwarderNext, Forward, Carries, Stores, Owns, Troubles, Open, Reconcile, NextBody,
           Interrupt, Check, Poll, Stuck, Elapse, Prepare, Answer, Unpend, NextGroup, RoundEnds, Confirm,
           Unheard, Store, Drop, Serves, Noticed, Relaunch, OwnerStarts, SlowWrite,
           Unhealthy, Exit, OwnerCrashes, Retire
<1>6. Taken'
  <2>1. CASE UNCHANGED taken
    BY <2>1 DEF taken
  <2>2. CASE Arrive
    <3>1. Batch(net) \in [launch : Launches, ids : Ids]
      BY <2>2 DEF Arrive, Batch
    <3> QED
      BY <2>2, <3>1 DEF Arrive
  <2>3. CASE Vanish
    <3>1. Alone(net.ids) \subseteq Events
      BY DEF Alone, Ids
    <3> QED
      BY <2>3, <3>1 DEF Vanish
  <2>4. CASE \E b \in queue : Store(b) \/ Drop(b)
    BY <2>4 DEF Store, Drop, Ids
  <2> QED
    BY <2>1, <2>2, <2>3, <2>4
       DEF LogForwarderNext, Forward, Carries, Stores, Owns, Troubles, Open, Reconcile, NextBody,
           Interrupt, Check, Poll, Stuck, Elapse, Prepare, Post, Answer, Unpend, NextGroup, RoundEnds,
           Confirm, Unheard, Serves, Noticed, Relaunch, OwnerStarts, SlowWrite, TurnedAway, AnswerLost,
           Unhealthy, Exit, OwnerCrashes, Retire
<1>7. Kept'
  <2>1. CASE UNCHANGED <<gone, skipped>>
    BY <2>1
  <2>2. CASE RoundEnds
    <3>1. session.suspects \in Seq(Ids) /\ session.proved \in 0..Len(session.suspects)
      BY DEF SessionTypeOK, Session
    <3>2. GivenUp \subseteq Events
      BY <1>2, <3>1, SuspectsSplit DEF GivenUp, Ids
    <3> QED
      BY <2>2, <3>2 DEF RoundEnds
  <2>3. CASE Retire
    BY <2>3 DEF Retire
  <2> QED
    BY <2>1, <2>2, <2>3
       DEF LogForwarderNext, Forward, Carries, Stores, Owns, Troubles, Open, Reconcile, NextBody,
           Interrupt, Check, Poll, Stuck, Elapse, Prepare, Post, Answer, Unpend, NextGroup, Confirm,
           Arrive, Vanish, Unheard, Store, Drop, Serves, Noticed, Relaunch, OwnerStarts, SlowWrite,
           TurnedAway, AnswerLost, Unhealthy, Exit, OwnerCrashes
<1>8. Rest'
  <2> USE DEF Launches
  <2>1. CASE UNCHANGED <<target, analytics, ownerUp, troubles>>
    BY <2>1 DEF analytics
  <2>2. CASE SlowWrite \/ TurnedAway \/ AnswerLost \/ Vanish \/ Retire
    BY <2>2 DEF SlowWrite, TurnedAway, AnswerLost, Vanish, Retire, Trouble, analytics
  <2>3. CASE Serves \/ Unhealthy \/ Noticed
    BY <2>3 DEF Serves, Unhealthy, Noticed, Retarget, Trouble, analytics
  <2>4. CASE Relaunch
    BY <2>4 DEF Relaunch
  <2>5. CASE OwnerStarts
    <3>1. /\ ownerUp' = TRUE /\ own' = launch + 1
          /\ UNCHANGED <<target, launch, alive, troubles>>
      BY <2>5 DEF OwnerStarts
    <3> QED
      BY <3>1
  <2>7. CASE OwnerCrashes
    <3>1. /\ ownerUp' = FALSE /\ target' = 0 /\ troubles < MaxTroubles /\ troubles' = troubles + 1
          /\ UNCHANGED <<launch, own, alive>>
      BY <2>7 DEF OwnerCrashes, Trouble, analytics
    <3>2. troubles' \in 0..MaxTroubles
      BY <3>1
    <3>3. ownerUp' \in BOOLEAN
      BY <3>1, Zenon
    <3> QED
      BY <3>1, <3>2, <3>3
  <2>6. CASE \E l \in alive : Exit(l)
    BY <2>6 DEF Exit, Trouble
  <2> QED
    BY <2>1, <2>2, <2>3, <2>4, <2>5, <2>6, <2>7
       DEF LogForwarderNext, Forward, Carries, Stores, Owns, Troubles, Open, Reconcile, NextBody,
           Interrupt, Check, Poll, Stuck, Elapse, Prepare, Post, Answer, Unpend, NextGroup, RoundEnds,
           Confirm, Arrive, Unheard, Store, Drop
<1> QED
  BY <1>1, <1>4, <1>5, <1>6, <1>7, <1>8
-----------------------------------------------------------------------------
(* Nothing of a shipment is forgotten.                                     *)

LEMMA IdsOfNone == <<>> \in Seq(Ids) /\ IdsOf(<<>>) = {}
<1> DEFINE none == <<>>
<1>1. none \in Seq(Ids) /\ Len(none) = 0
  OBVIOUS
<1> HIDE DEF none
<1>2. ASSUME NEW e
      PROVE  e \notin IdsOf(none)
  <2>1. \A i \in 1..Len(none) : FALSE
    BY <1>1
  <2> QED
    BY <1>1, <2>1, InIdsOf
<1>3. IdsOf(none) = {}
  BY <1>2
<1> QED
  BY <1>1, <1>3 DEF none

\* What isolate has set aside and has yet to deliver.
Aside(s) == IdsOf(s.groups) \union IdsOf(s.suspects) \union s.out

\* What deliverAll was given and left, or was rejected with, stays ahead.
LEMMA ReturnsKeep ==
  ASSUME LogForwarderTypeOK, DeliveryIsComplete,
         NEW left \in Ids, NEW rejected \in BOOLEAN, NEW kept \in Ids, NEW given \in Ids,
         given = IF ~rejected THEN left ELSE IF session.isolating THEN session.group ELSE session.posted,
         session.isolating => left \subseteq session.group,
         kept \subseteq Settled \union Aside(session) \union given
  PROVE  LET next == Returns(left, rejected)
         IN  /\ next.at = "confirm" => kept \subseteq Settled
             /\ kept \subseteq Settled \union Aside(next)
             /\ ~next.isolating => next.groups = <<>> /\ next.suspects = <<>> /\ next.out = {}
<1> DEFINE next == Returns(left, rejected)
<1>1. /\ session \in Session
      /\ session.group \in Ids /\ session.posted \in Ids /\ session.groups \in Seq(Ids)
      /\ session.suspects \in Seq(Ids) /\ session.out \in Ids
  BY DEF LogForwarderTypeOK, SessionTypeOK, Session
<1>2. ~session.isolating => Aside(session) = {}
  BY IdsOfNone DEF Aside, DeliveryIsComplete
<1>3. CASE ~session.isolating /\ ~rejected /\ left = {}
  <2>1. next = [session EXCEPT !.at = "confirm"]
    BY <1>3 DEF Returns
  <2>2. next.groups = session.groups /\ next.suspects = session.suspects /\ next.out = session.out
    BY <1>1, <2>1 DEF Session
  <2>3. kept \subseteq Settled
    BY <1>2, <1>3
  <2> QED
    BY <1>3, <2>2, <2>3 DEF DeliveryIsComplete
<1>4. CASE ~session.isolating /\ (rejected \/ left # {})
  <2>1. next = [session EXCEPT !.at = "next", !.isolating = TRUE, !.groups = Halves(given)]
    BY <1>4 DEF Returns
  <2>2. next.at = "next" /\ next.isolating = TRUE /\ next.groups = Halves(given)
    BY <1>1, <2>1 DEF Session
  <2>3. IdsOf(Halves(given)) = given
    BY HalvesSplit
  <2>4. given \subseteq Aside(next)
    BY <2>2, <2>3 DEF Aside
  <2> QED
    BY <1>2, <1>4, <2>2, <2>4
<1>5. CASE session.isolating
  <2> DEFINE single == Cardinality(session.group) = 1
             out == IF rejected /\ single THEN session.out \union session.group ELSE session.out
             suspects == IF ~rejected /\ left # {} /\ single THEN Append(session.suspects, session.group)
                         ELSE session.suspects
             groups == IF single \/ (~rejected /\ left = {}) THEN session.groups
                       ELSE Halves(given) \o session.groups
  <2>1. next = [session EXCEPT !.at = "next", !.out = out, !.suspects = suspects, !.groups = groups]
    BY <1>5 DEF Returns
  <2>2. /\ next.at = "next" /\ next.isolating = session.isolating /\ next.groups = groups
        /\ next.suspects = suspects /\ next.out = out
    <3> HIDE DEF out, suspects, groups
    <3> QED
      BY <1>1, <2>1 DEF Session
  <2>3. /\ IdsOf(Append(session.suspects, session.group)) = IdsOf(session.suspects) \union session.group
        /\ Halves(given) \in Seq(Ids) /\ IdsOf(Halves(given)) = given
    BY <1>1, IdsOfAppend, HalvesSplit
  <2>4. IdsOf(Halves(given) \o session.groups) = given \union IdsOf(session.groups)
    BY <1>1, <2>3, IdsOfConcat
  <2>5. given \subseteq session.group
    BY <1>5
  <2>6. given \union Aside(session) \subseteq IdsOf(groups) \union IdsOf(suspects) \union out
    <3>1. CASE ~rejected /\ left = {}
      BY <3>1 DEF Aside
    <3>2. CASE single /\ rejected
      BY <2>5, <3>2 DEF Aside
    <3>3. CASE single /\ ~rejected /\ left # {}
      BY <2>3, <2>5, <3>3 DEF Aside
    <3>4. CASE ~single /\ (rejected \/ left # {})
      BY <2>4, <3>4 DEF Aside
    <3> QED
      BY <3>1, <3>2, <3>3, <3>4
  <2>7. given \union Aside(session) \subseteq Aside(next)
    <3> HIDE DEF out, suspects, groups
    <3> QED
      BY <2>2, <2>6 DEF Aside
  <2> QED
    BY <1>5, <2>2, <2>7
<1> QED
  BY <1>3, <1>4, <1>5

\* Records are only ever settled, and what has no session to complete is complete.
LEMMA Keeps ==
  ASSUME LogForwarderInv, cursor' = cursor,
         stored \subseteq stored', gone \subseteq gone', skipped \subseteq skipped'
  PROVE  /\ NothingIsLost' /\ PendingIsComplete'
         /\ session' = session => SessionIsComplete' /\ DeliveryIsComplete'
<1>1. Settled \subseteq Settled'
  BY DEF Settled
<1>2. NothingIsLost'
  BY DEF LogForwarderInv, NothingIsLost
<1>3. PendingIsComplete'
  BY <1>1 DEF LogForwarderInv, PendingIsComplete, Covers
<1>4. ASSUME session' = session
      PROVE  SessionIsComplete' /\ DeliveryIsComplete'
  <2>1. SessionIsComplete'
    BY <1>1, <1>4 DEF LogForwarderInv, SessionIsComplete, Covers, Shipping, Delivering, Ahead
  <2>2. DeliveryIsComplete'
    BY <1>4 DEF LogForwarderInv, DeliveryIsComplete, Delivering
  <2> QED
    BY <2>1, <2>2
<1> QED
  BY <1>2, <1>3, <1>4

\* A session that ships nothing yet.
LEMMA Idle ==
  ASSUME NEW at \in {"off", "open", "paused"}, session'.at = at, session'.isolating = FALSE,
         session'.groups = <<>>, session'.suspects = <<>>, session'.out = {}
  PROVE  SessionIsComplete' /\ DeliveryIsComplete'
BY DEF SessionIsComplete, DeliveryIsComplete, Shipping, Delivering

LEMMA AsleepIdle ==
  ASSUME NEW at \in {"off", "open", "paused"}, NEW l, NEW stale,
         \/ session' = Asleep
         \/ session' = [Asleep EXCEPT !.at = at, !.launch = l]
         \/ session' = [Asleep EXCEPT !.at = at, !.stale = stale]
         \/ session' = [Asleep EXCEPT !.at = at, !.launch = l, !.stale = stale]
  PROVE  SessionIsComplete' /\ DeliveryIsComplete'
<1>1. /\ session'.at \in {"off", "open", "paused"} /\ session'.isolating = FALSE
      /\ session'.groups = <<>> /\ session'.suspects = <<>> /\ session'.out = {}
  <2>1. CASE session' = Asleep
    BY <2>1 DEF Asleep
  <2>2. CASE session' = [Asleep EXCEPT !.at = at, !.launch = l]
    BY <2>2 DEF Asleep
  <2>3. CASE session' = [Asleep EXCEPT !.at = at, !.stale = stale]
    BY <2>3 DEF Asleep
  <2>4. CASE session' = [Asleep EXCEPT !.at = at, !.launch = l, !.stale = stale]
    BY <2>4 DEF Asleep
  <2> QED
    BY <2>1, <2>2, <2>3, <2>4
<1> QED
  BY <1>1, Idle

\* A shipment that settle begins with.
LEMMA SettleCompletes ==
  ASSUME LogForwarderTypeOK, NEW ids \in Ids, NEW end, NEW known, NEW latest,
         Settle(ids, end, known, latest), UNCHANGED <<cursor, taken, gone, skipped>>,
         Covers(ids, end), ids \ gone \subseteq known
  PROVE  SessionIsComplete' /\ DeliveryIsComplete'
<1>1. /\ session'.at = "check" /\ session'.ids = ids /\ session'.end = end
      /\ session'.known = known /\ session'.wanted = ids /\ session'.isolating = FALSE
      /\ session'.groups = <<>> /\ session'.suspects = <<>> /\ session'.out = {}
  BY DEF Settle, Asleep
<1>2. UNCHANGED <<stored, gone, skipped, cursor>>
  BY DEF taken
<1>3. SessionIsComplete'
  BY <1>1, <1>2 DEF SessionIsComplete, Shipping, Delivering, Covers, Settled, Ahead
<1>4. DeliveryIsComplete'
  BY <1>1 DEF DeliveryIsComplete, Delivering
<1> QED
  BY <1>3, <1>4

\* What deliverAll returns leaves the session complete.
LEMMA ReturnsComplete ==
  ASSUME LogForwarderTypeOK, DeliveryIsComplete,
         NEW left \in Ids, NEW rejected \in BOOLEAN, NEW kept \in Ids, NEW given \in Ids,
         given = IF ~rejected THEN left ELSE IF session.isolating THEN session.group ELSE session.posted,
         session.isolating => left \subseteq session.group,
         kept \subseteq Settled \union Aside(session) \union given,
         Covers(kept, session.end), kept \ gone \subseteq session.known,
         UNCHANGED <<stored, gone, skipped>>, cursor'.confirmed = cursor.confirmed,
         NEW next, next = Returns(left, rejected),
         session'.at = next.at, session'.isolating = next.isolating, session'.groups = next.groups,
         session'.suspects = next.suspects, session'.out = next.out,
         session'.ids = kept, session'.end = session.end, session'.known = session.known
  PROVE  SessionIsComplete' /\ DeliveryIsComplete'
<1>1. /\ next.at = "confirm" => kept \subseteq Settled
      /\ kept \subseteq Settled \union Aside(next)
      /\ ~next.isolating => next.groups = <<>> /\ next.suspects = <<>> /\ next.out = {}
  BY ReturnsKeep
<1>2. next.at \in {"confirm", "next"}
  BY ReturnsTyped
<1>3. Settled' = Settled
  BY DEF Settled
<1>4. ~Delivering' /\ session'.at \notin {"wait", "prepare", "post", "posting"}
  BY <1>2 DEF Delivering
<1>5. Ahead' = Aside(next)
  BY <1>4 DEF Ahead, Aside
<1>6. Covers(kept, session.end)'
  BY <1>3 DEF Covers
<1>7. SessionIsComplete'
  BY <1>1, <1>3, <1>4, <1>5, <1>6 DEF SessionIsComplete, Covers
<1>8. DeliveryIsComplete'
  BY <1>1, <1>4 DEF DeliveryIsComplete
<1> QED
  BY <1>7, <1>8

LEMMA InvStep ==
  ASSUME LogForwarderInv, LogForwarderNext
  PROVE  LogForwarderInv'
<1>1. LogForwarderTypeOK /\ NothingIsLost /\ PendingIsComplete /\ SessionIsComplete /\ DeliveryIsComplete
  BY DEF LogForwarderInv
<1>2. LogForwarderTypeOK'
  BY <1>1, TypeStep
<1>3. /\ session \in Session /\ session.missing \subseteq session.wanted
      /\ session.ids \in Ids /\ session.missing \in Ids /\ session.wanted \in Ids
      /\ session.posted \in Ids /\ session.group \in Ids /\ {} \in Ids
      /\ session.groups \in Seq(Ids) /\ session.suspects \in Seq(Ids)
      /\ session.proved \in 0..Len(session.suspects)
      /\ TRUE \in BOOLEAN /\ FALSE \in BOOLEAN
  BY <1>1 DEF LogForwarderTypeOK, SessionTypeOK, Session, Ids
<1> DEFINE Complete == SessionIsComplete /\ DeliveryIsComplete
           Still == UNCHANGED <<cursor, taken, gone, skipped>>
<1>4. ASSUME Still, Complete'
      PROVE  LogForwarderInv'
  BY <1>2, <1>4, Keeps DEF LogForwarderInv, taken
<1>5. ASSUME session' = session, cursor' = cursor,
             stored \subseteq stored', gone \subseteq gone', skipped \subseteq skipped'
      PROVE  LogForwarderInv'
  BY <1>2, <1>5, Keeps DEF LogForwarderInv
<1>6. CASE Carries \/ Stores \/ Relaunch \/ OwnerStarts \/ TurnedAway \/ AnswerLost \/ Vanish
           \/ Retire \/ \E l \in alive : Exit(l)
  BY <1>5, <1>6 DEF Carries, Arrive, Vanish, Unheard, Stores, Store, Drop, Relaunch, OwnerStarts,
                    TurnedAway, AnswerLost, Exit, Retire, taken
<1>7. CASE Serves \/ Unhealthy \/ Noticed
  <2>1. Still /\ \E l : Retarget(l)
    BY <1>7 DEF Serves, Unhealthy, Noticed
  <2>2. CASE session' = session
    BY <1>5, <2>1, <2>2 DEF taken
  <2>3. CASE session' = Asleep
    BY <1>4, <2>1, <2>3, AsleepIdle
  <2>4. CASE session' = [session EXCEPT !.stale = TRUE]
    <3>1. /\ session'.at = session.at /\ session'.ids = session.ids /\ session'.end = session.end
          /\ session'.known = session.known /\ session'.wanted = session.wanted
          /\ session'.missing = session.missing /\ session'.posted = session.posted
          /\ session'.isolating = session.isolating /\ session'.group = session.group
          /\ session'.groups = session.groups /\ session'.suspects = session.suspects
          /\ session'.out = session.out
      BY <1>3, <2>4 DEF Session
    <3>2. UNCHANGED <<cursor, stored, gone, skipped>>
      BY <2>1 DEF taken
    <3>3. Complete'
      BY <1>1, <3>1, <3>2 DEF SessionIsComplete, DeliveryIsComplete, Covers, Shipping, Delivering,
                              Settled, Ahead
    <3> QED
      BY <1>4, <2>1, <3>3
  <2> QED
    BY <2>1, <2>2, <2>3, <2>4 DEF Retarget
<1>8. CASE Open \/ Interrupt \/ OwnerCrashes
  <2>1. Still /\ (session' = Asleep \/ session' = [Asleep EXCEPT !.at = "open", !.launch = target])
    BY <1>8 DEF Open, Interrupt, OwnerCrashes
  <2> QED
    BY <1>4, <2>1, AsleepIdle
<1>9. CASE Reconcile
  <2> DEFINE ids == cursor.pending.ids
  <2>1. ids \in Ids /\ Covers(ids, cursor.pending.end)
    BY <1>1, <1>9 DEF Reconcile, PendingIsComplete, LogForwarderTypeOK, Shipment
  <2>2. Still /\ Settle(ids, cursor.pending.end, ids \ gone, cursor.pending.launch)
    BY <1>9 DEF Reconcile
  <2>3. Complete'
    BY <1>1, <2>1, <2>2, SettleCompletes
  <2> QED
    BY <1>4, <2>2, <2>3
<1>10. CASE NextBody
  <2>1. PICK ids \in SUBSET Events, end \in Events :
          Fresh(ids) /\ end \in ids /\ Settle(ids, end, ids, None)
    BY <1>10 DEF NextBody
  <2>2. Covers(ids, end)
    <3> SUFFICES ASSUME NEW e \in Events, cursor.confirmed < e, e <= end, e \notin gone
                 PROVE  e \in ids
      BY DEF Covers, Settled
    <3> QED
      BY <2>1, LogForwarderAssumption DEF Fresh, Events
  <2>3. Still
    BY <1>10 DEF NextBody
  <2>4. Complete'
    BY <1>1, <2>1, <2>2, <2>3, SettleCompletes DEF Ids
  <2> QED
    BY <1>4, <2>3, <2>4
<1>11. CASE Poll \/ Elapse \/ SlowWrite
  <2>1. Still /\ session.at \in {"wait", "post"}
    BY <1>11 DEF Poll, Elapse, SlowWrite, SessionStep
  <2>2. PICK at \in {"check", "prepare"} :
          session' = [session EXCEPT !.at = at] /\ (at = "prepare" => session.at = "wait")
    BY <1>11 DEF Poll, Elapse, SlowWrite, Goes, SessionStep
  <2>3. /\ session'.at = at /\ session'.ids = session.ids /\ session'.end = session.end
        /\ session'.known = session.known /\ session'.wanted = session.wanted
        /\ session'.missing = session.missing /\ session'.isolating = session.isolating
        /\ session'.group = session.group /\ session'.groups = session.groups
        /\ session'.suspects = session.suspects /\ session'.out = session.out
    BY <1>3, <2>2 DEF Session
  <2>4. UNCHANGED <<cursor, stored, gone, skipped>>
    BY <2>1 DEF taken
  <2>5. Complete'
    BY <1>1, <2>1, <2>3, <2>4
       DEF SessionIsComplete, DeliveryIsComplete, Covers, Shipping, Delivering, Settled, Ahead
  <2> QED
    BY <1>4, <2>1, <2>5
<1>12. ASSUME Delivering
       PROVE  /\ session.ids \subseteq Settled \union Aside(session) \union session.wanted
              /\ Covers(session.ids, session.end) /\ session.ids \ gone \subseteq session.known
              /\ session.isolating => session.wanted \subseteq session.group
  BY <1>1, <1>12 DEF SessionIsComplete, DeliveryIsComplete, Delivering, Shipping, Ahead, Aside
<1>13. CASE Check
  <2> DEFINE missing == session.wanted \ stored
  <2>1. Still /\ Delivering /\ UNCHANGED <<cursor, stored, gone, skipped>>
    BY <1>13 DEF Check, SessionStep, Delivering, taken
  <2>2. CASE missing = {}
    <3> DEFINE next == Returns({}, FALSE)
    <3>1. PICK n : session' = [next EXCEPT !.proved = n]
      BY <1>13, <2>2 DEF Check
    <3>2. /\ next \in Session /\ next.ids = session.ids /\ next.end = session.end
          /\ next.known = session.known
      <4>1. /\ next \in Session
            /\ next = [session EXCEPT !.at = next.at, !.isolating = next.isolating,
                         !.groups = next.groups, !.suspects = next.suspects, !.out = next.out]
        BY <1>1, <1>3, ReturnsTyped
      <4> HIDE DEF next
      <4> QED
        BY <1>3, <4>1 DEF Session
    <3>3. /\ session'.at = next.at /\ session'.isolating = next.isolating
          /\ session'.groups = next.groups /\ session'.suspects = next.suspects
          /\ session'.out = next.out /\ session'.ids = session.ids /\ session'.end = session.end
          /\ session'.known = session.known
      <4> HIDE DEF next
      <4> QED
        BY <3>1, <3>2 DEF Session
    <3>4. session.ids \subseteq Settled \union Aside(session) \union {}
      BY <1>12, <2>1, <2>2 DEF Settled
    <3>5. Complete'
      <4> HIDE DEF next
      <4>1. next = Returns({}, FALSE)
        BY DEF next
      <4> QED
        BY <1>1, <1>3, <1>12, <2>1, <3>3, <3>4, <4>1, ReturnsComplete
    <3> QED
      BY <1>4, <2>1, <3>5
  <2>3. CASE missing # {}
    <3>0. PICK at \in {"prepare", "wait"} : \E n : session' = [session EXCEPT !.missing = missing, !.proved = n, !.at = at]
      <4> DEFINE proof == session.posted \intersect session.wanted \intersect stored # {}
                 m == IF proof THEN Len(session.suspects) ELSE session.proved
                 to == IF session.latest = None THEN "prepare" ELSE "wait"
      <4>1. session' = [session EXCEPT !.missing = missing, !.proved = m, !.at = to]
        BY <1>3, <1>13, <2>3 DEF Check, Session
      <4> QED
        BY <4>1
    <3>1. PICK n : session' = [session EXCEPT !.missing = missing, !.proved = n, !.at = at]
      BY <3>0
    <3>2. /\ session'.at = at /\ session'.ids = session.ids /\ session'.end = session.end
          /\ session'.known = session.known /\ session'.wanted = session.wanted
          /\ session'.missing = missing /\ session'.isolating = session.isolating
          /\ session'.group = session.group /\ session'.groups = session.groups
          /\ session'.suspects = session.suspects /\ session'.out = session.out
      <4> HIDE DEF missing
      <4> QED
        BY <1>3, <3>1 DEF Session
    <3>3. SessionIsComplete'
      BY <1>1, <2>1, <3>2 DEF SessionIsComplete, Covers, Shipping, Delivering, Settled, Ahead
    <3>4. DeliveryIsComplete'
      BY <1>1, <2>1, <3>2 DEF DeliveryIsComplete, Delivering
    <3> QED
      BY <1>4, <2>1, <3>3, <3>4
  <2> QED
    BY <2>2, <2>3
<1>14. ASSUME NEW left \in Ids, NEW rejected \in BOOLEAN, NEW given \in Ids, Delivering, Still,
              session' = Returns(left, rejected),
              given = IF ~rejected THEN left ELSE IF session.isolating THEN session.group ELSE session.posted,
              session.isolating => left \subseteq session.group,
              session.wanted \subseteq given \union stored
       PROVE  LogForwarderInv'
  <2> DEFINE next == Returns(left, rejected)
  <2>1. /\ next \in Session
        /\ next = [session EXCEPT !.at = next.at, !.isolating = next.isolating,
                     !.groups = next.groups, !.suspects = next.suspects, !.out = next.out]
    BY <1>1, <1>14, ReturnsTyped
  <2>2. next = Returns(left, rejected) /\ session' = next
    BY <1>14
  <2> HIDE DEF next
  <2>3. next.ids = session.ids /\ next.end = session.end /\ next.known = session.known
    BY <1>3, <2>1 DEF Session
  <2>4. session.ids \subseteq Settled \union Aside(session) \union given
    BY <1>12, <1>14 DEF Settled
  <2>5. UNCHANGED <<cursor, stored, gone, skipped>>
    BY <1>14 DEF taken
  <2>6. Complete'
    BY <1>1, <1>3, <1>12, <1>14, <2>2, <2>3, <2>4, <2>5, ReturnsComplete
  <2> QED
    BY <1>4, <1>14, <2>6
<1>15. CASE Stuck
  <2>1. /\ session.at = "wait" /\ Delivering /\ Still
        /\ session' = Returns(session.missing, FALSE)
    BY <1>15 DEF Stuck, SessionStep, Delivering
  <2>2. session.wanted \subseteq session.missing \union stored
    BY <1>1, <2>1 DEF DeliveryIsComplete
  <2>3. session.isolating => session.missing \subseteq session.group
    BY <1>3, <1>12, <2>1
  <2> QED
    BY <1>3, <1>14, <2>1, <2>2, <2>3
<1>16. CASE Prepare
  <2> DEFINE deleted == session.missing \ session.known
             ids == session.ids \ deleted
             wanted == session.wanted \ deleted
             missing == session.missing \ deleted
  <2>1. /\ session.at = "prepare" /\ Delivering
        /\ UNCHANGED <<stored, gone, skipped>> /\ cursor'.confirmed = cursor.confirmed
    BY <1>1, <1>16 DEF Prepare, SessionStep, Delivering, taken, Record, LogForwarderTypeOK
  <2>2. /\ ids \in Ids /\ wanted \in Ids /\ missing \in Ids
        /\ ids \gone \subseteq session.known
    BY <1>3, <1>12, <2>1 DEF Ids
  <2>3. Covers(ids, session.end)
    BY <1>12, <2>1 DEF Covers, Settled
  <2>4. session.wanted \subseteq session.missing \union stored
    BY <1>1, <2>1 DEF DeliveryIsComplete
  <2>5. NothingIsLost'
    BY <1>1, <2>1 DEF NothingIsLost
  <2>6. Settled' = Settled
    BY <2>1 DEF Settled
  <2>7. CASE session.missing = deleted
    <3> DEFINE next == Returns({}, FALSE)
    <3>1. session' = [next EXCEPT !.ids = ids, !.missing = {}] /\ cursor' = cursor
      BY <1>3, <1>16, <2>7 DEF Prepare, Session
    <3>2. /\ next \in Session
          /\ next = [session EXCEPT !.at = next.at, !.isolating = next.isolating,
                       !.groups = next.groups, !.suspects = next.suspects, !.out = next.out]
      BY <1>1, <1>3, ReturnsTyped
    <3>3. next = Returns({}, FALSE)
      OBVIOUS
    <3>4. ids \subseteq Settled \union Aside(session) \union {}
      BY <1>12, <2>1, <2>4, <2>7 DEF Settled
    <3> HIDE DEF next, ids
    <3>5. /\ session'.at = next.at /\ session'.isolating = next.isolating
          /\ session'.groups = next.groups /\ session'.suspects = next.suspects
          /\ session'.out = next.out /\ session'.ids = ids /\ session'.end = session.end
          /\ session'.known = session.known
      BY <1>3, <3>1, <3>2 DEF Session
    <3>6. Complete'
      BY <1>1, <1>3, <2>1, <2>2, <2>3, <3>3, <3>4, <3>5, ReturnsComplete
    <3>7. PendingIsComplete'
      BY <1>1, <2>6, <3>1 DEF PendingIsComplete, Covers
    <3> QED
      BY <1>2, <2>5, <3>6, <3>7 DEF LogForwarderInv
  <2>8. CASE session.missing # deleted
    <3>1. /\ session' = [session EXCEPT !.wanted = wanted, !.ids = ids, !.missing = missing, !.at = "post"]
          /\ cursor' = [cursor EXCEPT !.pending = [end |-> session.end, ids |-> ids,
                                                   launch |-> session.launch]]
      BY <1>3, <1>16, <2>8 DEF Prepare, Record, Session
    <3>2. /\ session'.at = "post" /\ session'.ids = ids /\ session'.end = session.end
          /\ session'.known = session.known /\ session'.wanted = wanted
          /\ session'.missing = missing /\ session'.isolating = session.isolating
          /\ session'.group = session.group /\ session'.groups = session.groups
          /\ session'.suspects = session.suspects /\ session'.out = session.out
      <4> HIDE DEF ids, wanted, missing
      <4> QED
        BY <1>3, <3>1 DEF Session
    <3>3. \A e \in Events : cursor'.confirmed < e /\ e <= session.end => e \in ids \union Settled'
      BY <2>1, <2>3, <2>6 DEF Covers
    <3>4. SessionIsComplete'
      <4>1. ids \subseteq Settled \union Aside(session) \union wanted
        BY <1>12, <2>1
      <4>2. Ahead' = Aside(session) \union wanted
        BY <3>2 DEF Ahead, Aside, Delivering
      <4> HIDE DEF ids, wanted, missing
      <4> QED
        BY <2>1, <2>2, <2>6, <3>2, <3>3, <4>1, <4>2 DEF SessionIsComplete, Covers
    <3>5. DeliveryIsComplete'
      BY <1>1, <1>12, <2>1, <2>4, <3>2 DEF DeliveryIsComplete, Delivering
    <3>6. PendingIsComplete'
      <4>1. cursor'.pending.ids = ids /\ cursor'.pending.end = session.end
        <5> HIDE DEF ids
        <5> QED
          BY <1>1, <3>1 DEF LogForwarderTypeOK
      <4> QED
        BY <3>3, <4>1 DEF PendingIsComplete, Covers
    <3> QED
      BY <1>2, <2>5, <3>4, <3>5, <3>6 DEF LogForwarderInv
  <2> QED
    BY <2>7, <2>8
<1>17. CASE Post
  <2>1. Still /\ session.at = "post" /\ Delivering
    BY <1>17 DEF Post, SessionStep, Delivering
  <2>2. CASE session' = Asleep
    BY <1>4, <2>1, <2>2, AsleepIdle
  <2>3. CASE session' # Asleep
    <3>1. session' = [session EXCEPT !.at = "posting", !.posted = session.missing]
      BY <1>17, <2>3 DEF Post
    <3>2. /\ session'.at = "posting" /\ session'.ids = session.ids /\ session'.end = session.end
          /\ session'.known = session.known /\ session'.wanted = session.wanted
          /\ session'.missing = session.missing /\ session'.posted = session.missing
          /\ session'.isolating = session.isolating
          /\ session'.group = session.group /\ session'.groups = session.groups
          /\ session'.suspects = session.suspects /\ session'.out = session.out
      BY <1>3, <3>1 DEF Session
    <3>3. UNCHANGED <<cursor, stored, gone, skipped>>
      BY <2>1 DEF taken
    <3>4. Complete'
      BY <1>1, <2>1, <3>2, <3>3
         DEF SessionIsComplete, DeliveryIsComplete, Covers, Shipping, Delivering, Settled, Ahead
    <3> QED
      BY <1>4, <2>1, <3>4
  <2> QED
    BY <2>2, <2>3
<1>18. CASE Answer
  <2>1. /\ Still /\ session.at = "posting" /\ Delivering /\ UNCHANGED <<cursor, stored, gone, skipped>>
    BY <1>18 DEF Answer, SessionStep, Delivering, taken
  <2>2. CASE net.answer = "rejected"
    <3> DEFINE given == IF session.isolating THEN session.group ELSE session.posted
    <3>1. session' = Returns({}, TRUE)
      BY <1>18, <2>2 DEF Answer
    <3>2. session.wanted \subseteq given \union stored
      BY <1>1, <1>12, <2>1 DEF DeliveryIsComplete
    <3>3. given \in Ids
      BY <1>3
    <3> HIDE DEF Still
    <3>4. given = IF ~TRUE THEN {} ELSE IF session.isolating THEN session.group ELSE session.posted
      OBVIOUS
    <3> HIDE DEF given
    <3> QED
      BY <1>3, <1>14, <2>1, <3>1, <3>2, <3>3, <3>4
  <2>3. CASE net.answer # "rejected"
    <3>0. PICK at \in {"check", "unpend"} : \E l : session' = [session EXCEPT !.at = at, !.latest = l]
      <4>1. CASE net.answer \in {"sent", "unsettled"}
        BY <1>18, <4>1 DEF Answer
      <4>2. CASE net.answer = "failed"
        BY <1>18, <4>2 DEF Answer
      <4>3. CASE net.answer = "refused"
        <5>1. session' = [session EXCEPT !.at = "unpend"]
          BY <1>18, <4>3 DEF Answer
        <5>2. session' = [session EXCEPT !.at = "unpend", !.latest = session.latest]
          BY <1>3, <5>1 DEF Session
        <5> QED
          BY <5>2
      <4> QED
        BY <1>1, <1>18, <2>3, <4>1, <4>2, <4>3 DEF Answer, LogForwarderTypeOK
    <3>1. PICK l : session' = [session EXCEPT !.at = at, !.latest = l]
      BY <3>0
    <3>2. /\ session'.at = at /\ session'.ids = session.ids /\ session'.end = session.end
          /\ session'.known = session.known /\ session'.wanted = session.wanted
          /\ session'.missing = session.missing /\ session'.isolating = session.isolating
          /\ session'.group = session.group /\ session'.groups = session.groups
          /\ session'.suspects = session.suspects /\ session'.out = session.out
      BY <1>3, <3>1 DEF Session
    <3>3. SessionIsComplete'
      BY <1>1, <2>1, <3>2 DEF SessionIsComplete, Covers, Shipping, Delivering, Settled, Ahead
    <3>4. DeliveryIsComplete'
      BY <1>1, <2>1, <3>2 DEF DeliveryIsComplete, Delivering
    <3> QED
      BY <1>4, <2>1, <3>3, <3>4
  <2> QED
    BY <2>2, <2>3
<1>19. CASE Unpend
  <2>1. /\ session' = [Asleep EXCEPT !.at = "paused", !.stale = session.stale]
        /\ cursor' = [cursor EXCEPT !.pending = NoPending] /\ UNCHANGED <<stored, gone, skipped>>
    BY <1>19 DEF Unpend, taken
  <2>2. cursor'.pending = NoPending /\ cursor'.confirmed = cursor.confirmed
    BY <1>1, <2>1 DEF LogForwarderTypeOK
  <2>3. NothingIsLost' /\ PendingIsComplete'
    BY <1>1, <2>1, <2>2 DEF NothingIsLost, PendingIsComplete
  <2> QED
    BY <1>2, <2>1, <2>3, AsleepIdle DEF LogForwarderInv
<1>20. CASE NextGroup
  <2> DEFINE group == Head(session.groups)
             rest == Tail(session.groups)
  <2>1. Still /\ session.at = "next" /\ session.groups # <<>> /\ UNCHANGED <<cursor, stored, gone, skipped>>
    BY <1>20 DEF NextGroup, SessionStep, taken
  <2>2. session' = [session EXCEPT !.at = "check", !.group = group, !.wanted = group,
                                   !.missing = {}, !.latest = None, !.groups = rest]
    BY <1>3, <1>20 DEF NextGroup, Session
  <2>3. IdsOf(session.groups) \subseteq group \union IdsOf(rest)
    BY <1>3, <2>1, IdsOfTail
  <2> HIDE DEF group, rest
  <2>4. /\ session'.at = "check" /\ session'.ids = session.ids /\ session'.end = session.end
        /\ session'.known = session.known /\ session'.wanted = group
        /\ session'.isolating = session.isolating /\ session'.group = group
        /\ session'.groups = rest /\ session'.suspects = session.suspects /\ session'.out = session.out
    BY <1>3, <2>2 DEF Session
  <2>5. session.isolating
    BY <1>1, <2>1 DEF DeliveryIsComplete
  <2>6. Ahead \subseteq Ahead'
    BY <2>1, <2>3, <2>4 DEF Ahead, Delivering
  <2>7. SessionIsComplete'
    BY <1>1, <2>1, <2>4, <2>6 DEF SessionIsComplete, Covers, Shipping, Delivering, Settled
  <2>8. DeliveryIsComplete'
    BY <2>4, <2>5 DEF DeliveryIsComplete
  <2> QED
    BY <1>4, <2>1, <2>7, <2>8
<1>21. CASE RoundEnds
  <2> DEFINE again == SubSeq(session.suspects, session.proved + 1, Len(session.suspects))
             ids == session.ids \ GivenUp
             at == IF again = <<>> THEN "confirm" ELSE "next"
  <2>1. /\ session.at = "next" /\ session.groups = <<>> /\ UNCHANGED <<cursor, stored, gone>>
        /\ skipped' = skipped \union GivenUp
    BY <1>21 DEF RoundEnds, SessionStep, taken
  <2>2. session' = [session EXCEPT !.at = at, !.ids = ids, !.groups = again,
                                   !.out = {}, !.suspects = <<>>, !.proved = 0]
    BY <1>3, <1>21 DEF RoundEnds, Session
  <2>3. /\ again \in Seq(Ids)
        /\ IdsOf(session.suspects) \subseteq Suspected(session.proved) \union IdsOf(again)
    BY <1>3, SuspectsSplit
  <2>4. ids \subseteq Settled' \union IdsOf(again)
    <3>1. session.ids \subseteq Settled \union Aside(session)
      BY <1>1, <2>1 DEF SessionIsComplete, Ahead, Aside, Delivering
    <3> QED
      BY <2>1, <2>3, <3>1, IdsOfNone DEF Aside, GivenUp, Settled
  <2>5. \A e \in Events : cursor'.confirmed < e /\ e <= session.end => e \in ids \union Settled'
    BY <1>1, <2>1 DEF SessionIsComplete, Shipping, Covers, Settled
  <2>6. ids \ gone \subseteq session.known
    BY <1>1, <2>1 DEF SessionIsComplete, Shipping
  <2>7. NothingIsLost' /\ PendingIsComplete'
    BY <2>1, Keeps
  <2>8. again = <<>> => ids \subseteq Settled'
    BY <2>4, IdsOfNone
  <2>9. at \in {"confirm", "next"} /\ (at = "confirm" => again = <<>>)
    OBVIOUS
  <2>10. ~session.isolating => again = <<>>
    BY <1>1, <1>3 DEF DeliveryIsComplete
  <2> HIDE DEF again, ids, at
  <2>11. /\ session'.at = at /\ session'.ids = ids /\ session'.end = session.end
         /\ session'.known = session.known /\ session'.isolating = session.isolating
         /\ session'.groups = again /\ session'.suspects = <<>> /\ session'.out = {}
    BY <1>3, <2>2 DEF Session
  <2>12. SessionIsComplete'
    BY <2>1, <2>4, <2>5, <2>6, <2>8, <2>9, <2>11 DEF SessionIsComplete, Covers, Delivering, Ahead
  <2>13. DeliveryIsComplete'
    BY <2>9, <2>10, <2>11 DEF DeliveryIsComplete, Delivering
  <2> QED
    BY <1>2, <2>7, <2>12, <2>13 DEF LogForwarderInv
<1>22. CASE Confirm
  <2>1. /\ session.at = "confirm" /\ UNCHANGED <<stored, gone, skipped>>
        /\ cursor' = [confirmed |-> session.end, pending |-> NoPending]
        /\ session' = [Asleep EXCEPT !.at = "open", !.launch = session.launch, !.stale = session.stale]
    BY <1>22 DEF Confirm, SessionStep, taken
  <2>2. session.ids \subseteq Settled /\ Covers(session.ids, session.end)
    BY <1>1, <2>1 DEF SessionIsComplete, Shipping
  <2>3. session.end \in 0..NumEvents /\ cursor.confirmed \in 0..NumEvents
    BY <1>1, <1>3 DEF Session, LogForwarderTypeOK
  <2>4. NothingIsLost'
    <3> SUFFICES ASSUME NEW e \in 1..session.end
                 PROVE  e \in Settled
      BY <2>1 DEF NothingIsLost, Settled
    <3>1. CASE e <= cursor.confirmed
      BY <1>1, <2>3, <3>1 DEF NothingIsLost, Settled
    <3>2. CASE cursor.confirmed < e
      <4>1. e \in Events
        BY <2>3, LogForwarderAssumption DEF Events
      <4> QED
        BY <2>2, <3>2, <4>1 DEF Covers
    <3> QED
      BY <2>3, <3>1, <3>2
  <2>5. PendingIsComplete'
    BY <2>1 DEF PendingIsComplete
  <2> QED
    BY <1>2, <2>1, <2>4, <2>5, AsleepIdle DEF LogForwarderInv
<1> QED
  BY <1>6, <1>7, <1>8, <1>9, <1>10, <1>11, <1>13, <1>15, <1>16, <1>17, <1>18, <1>19, <1>20, <1>21,
     <1>22 DEF LogForwarderNext, Forward, Owns, Troubles

-----------------------------------------------------------------------------
(* The theorems.                                                           *)

LEMMA InvInit == LogForwarderInit => LogForwarderInv
<1> SUFFICES ASSUME LogForwarderInit
             PROVE  LogForwarderInv
  OBVIOUS
<1> USE LogForwarderAssumption DEF LogForwarderInit
<1>1. LogForwarderTypeOK
  <2>1. SessionTypeOK
    <3>1. Len(<<>>) = 0
      OBVIOUS
    <3> QED
      BY <3>1, AsleepTyped DEF SessionTypeOK
  <2>2. NoPending \in Shipment
    BY DEF NoPending, Shipment, Ids
  <2>3. NoPost \in [launch : Launches \union {None}, ids : Ids,
                    answer : {"none", "sent", "unsettled", "failed", "refused", "rejected"}]
    BY DEF NoPost, Ids
  <2> QED
    BY <2>1, <2>2, <2>3 DEF LogForwarderTypeOK, Launches
<1>2. NothingIsLost /\ PendingIsComplete
  BY DEF NothingIsLost, PendingIsComplete
<1>3. SessionIsComplete /\ DeliveryIsComplete
  BY DEF SessionIsComplete, DeliveryIsComplete, Shipping, Delivering, Asleep
<1> QED
  BY <1>1, <1>2, <1>3 DEF LogForwarderInv

\* The invariant holds in every behaviour of the forwarder and what surrounds it.
THEOREM LogForwarderInvariant == LogForwarderSpec => []LogForwarderInv
<1>1. ASSUME LogForwarderInv, UNCHANGED lfVars
      PROVE  LogForwarderInv'
  <2>1. /\ session' = session /\ cursor' = cursor /\ stored \subseteq stored'
        /\ gone \subseteq gone' /\ skipped \subseteq skipped'
    BY <1>1 DEF lfVars
  <2>2. LogForwarderTypeOK'
    BY <1>1 DEF LogForwarderInv, LogForwarderTypeOK, SessionTypeOK, lfVars
  <2> QED
    BY <1>1, <2>1, <2>2, Keeps DEF LogForwarderInv
<1>2. LogForwarderInv /\ [LogForwarderNext]_lfVars => LogForwarderInv'
  BY <1>1, InvStep
<1> QED
  BY <1>2, InvInit, PTL DEF LogForwarderSpec

\* The state has its types: what a check found missing is part of what is being
\* delivered, and no more suspects are proved than there are.
THEOREM LogForwarderTypeCorrect == LogForwarderSpec => []LogForwarderTypeOK
<1>1. LogForwarderInv => LogForwarderTypeOK
  BY DEF LogForwarderInv
<1> QED
  BY <1>1, LogForwarderInvariant, PTL

\* The cursor passes no record that is not stored, deleted or given up, however
\* often the owner crashes and Analytics is launched again (LogForwarder.ts:737).
THEOREM NothingIsEverLost == LogForwarderSpec => []NothingIsLost
<1>1. LogForwarderInv => NothingIsLost
  BY DEF LogForwarderInv
<1> QED
  BY <1>1, LogForwarderInvariant, PTL

-----------------------------------------------------------------------------
(* What the actions do to the session, field by field.                     *)

\* The fields that tell what is shipped, delivered and waited for.
SameShipment(s, t) ==
  s.launch = t.launch /\ s.end = t.end /\ s.ids = t.ids /\ s.known = t.known
SameDelivery(s, t) ==
  s.wanted = t.wanted /\ s.missing = t.missing /\ s.latest = t.latest /\ s.posted = t.posted
SameGroups(s, t) ==
  /\ s.isolating = t.isolating /\ s.group = t.group /\ s.groups = t.groups
  /\ s.suspects = t.suspects /\ s.proved = t.proved /\ s.out = t.out

LEMMA SessionTyped ==
  ASSUME LogForwarderTypeOK
  PROVE  /\ session \in Session
         /\ session.ids \in Ids /\ session.known \in Ids /\ session.wanted \in Ids
         /\ session.missing \in Ids /\ session.posted \in Ids /\ session.group \in Ids
         /\ session.groups \in Seq(Ids) /\ session.suspects \in Seq(Ids) /\ session.out \in Ids
         /\ session.isolating \in BOOLEAN
         /\ session.latest \in Launches \union {0, None}
         /\ session.launch \in Launches \union {None}
         /\ session.proved \in 0..Len(session.suspects)
         /\ session.missing \subseteq session.wanted
BY DEF LogForwarderTypeOK, SessionTypeOK, Session

LEMMA OpenFields ==
  ASSUME Open
  PROVE  session' = [Asleep EXCEPT !.at = "open", !.launch = target] /\ session'.launch = target
         /\ session'.at = "open" /\ session'.latest = None /\ SameGroups(session', Asleep)
BY DEF Open, Asleep, SameGroups

LEMMA SettleFields ==
  ASSUME NEW ids, NEW end, NEW known, NEW latest, Settle(ids, end, known, latest)
  PROVE  /\ session'.at = "check" /\ session'.launch = session.launch /\ session'.ids = ids
         /\ session'.end = end /\ session'.known = known /\ session'.wanted = ids
         /\ session'.latest = latest /\ session'.missing = {} /\ session'.posted = {}
         /\ SameGroups(session', Asleep)
BY DEF Settle, Asleep, SameGroups

\* What deliverAll returns leaves the shipment and what was delivered alone.
LEMMA ReturnsLeave ==
  ASSUME LogForwarderTypeOK, NEW left \in Ids, NEW rejected \in BOOLEAN
  PROVE  LET next == Returns(left, rejected)
         IN  /\ SameShipment(next, session) /\ SameDelivery(next, session)
             /\ next.group = session.group /\ next.proved = session.proved
             /\ next.at \in {"confirm", "next"}
             /\ next \in Session
<1> DEFINE next == Returns(left, rejected)
<1>1. /\ next \in Session
      /\ next = [session EXCEPT !.at = next.at, !.isolating = next.isolating,
                   !.groups = next.groups, !.suspects = next.suspects, !.out = next.out]
      /\ next.at \in {"confirm", "next"}
  BY ReturnsTyped
<1> HIDE DEF next
<1>2. /\ SameShipment(next, session) /\ SameDelivery(next, session)
      /\ next.group = session.group /\ next.proved = session.proved
  BY <1>1, SessionTyped DEF Session, SameShipment, SameDelivery
<1> QED
  BY <1>1, <1>2 DEF next

LEMMA CheckFields ==
  ASSUME LogForwarderTypeOK, Check
  PROVE  LET missing == session.wanted \ stored
             proof == session.posted \intersect session.wanted \intersect stored # {}
             proved == IF proof THEN Len(session.suspects) ELSE session.proved
             next == Returns({}, FALSE)
         IN  /\ session.at = "check" /\ session'.proved = proved
             /\ SameShipment(session', session)
             /\ session'.wanted = session.wanted /\ session'.latest = session.latest
             /\ session'.posted = session.posted /\ session'.group = session.group
             /\ \/ /\ missing = {} /\ session'.at = next.at /\ session'.at \in {"confirm", "next"}
                   /\ session'.isolating = next.isolating /\ session'.groups = next.groups
                   /\ session'.suspects = next.suspects /\ session'.out = next.out
                \/ /\ missing # {} /\ session'.missing = missing
                   /\ session'.at = IF session.latest = None THEN "prepare" ELSE "wait"
                   /\ session'.isolating = session.isolating /\ session'.groups = session.groups
                   /\ session'.suspects = session.suspects /\ session'.out = session.out
<1> DEFINE missing == session.wanted \ stored
           proof == session.posted \intersect session.wanted \intersect stored # {}
           proved == IF proof THEN Len(session.suspects) ELSE session.proved
           next == Returns({}, FALSE)
           at == IF session.latest = None THEN "prepare" ELSE "wait"
<1>1. session \in Session /\ {} \in Ids /\ FALSE \in BOOLEAN
  BY SessionTyped DEF Ids
<1>2. /\ SameShipment(next, session) /\ SameDelivery(next, session)
      /\ next.group = session.group /\ next.at \in {"confirm", "next"} /\ next \in Session
  BY <1>1, ReturnsLeave
<1>3. session.at = "check"
  BY DEF Check, SessionStep
<1>4. CASE missing = {}
  <2>1. session' = [next EXCEPT !.proved = proved]
    BY <1>1, <1>4 DEF Check, Session
  <2> HIDE DEF next, proved, missing
  <2>2. /\ session'.at = next.at /\ session'.isolating = next.isolating
        /\ session'.groups = next.groups /\ session'.suspects = next.suspects
        /\ session'.out = next.out /\ session'.proved = proved /\ session'.group = next.group
        /\ SameShipment(session', next) /\ SameDelivery(session', next)
    BY <1>2, <2>1 DEF Session, SameShipment, SameDelivery
  <2> QED
    BY <1>2, <1>3, <1>4, <2>2 DEF SameShipment, SameDelivery, missing, proved, next
<1>5. CASE missing # {}
  <2>1. session' = [session EXCEPT !.missing = missing, !.proved = proved, !.at = at]
    BY <1>1, <1>5 DEF Check, Session
  <2> HIDE DEF proved, missing, at
  <2>2. /\ session'.at = at /\ session'.missing = missing /\ session'.proved = proved
        /\ SameShipment(session', session)
        /\ session'.wanted = session.wanted /\ session'.latest = session.latest
        /\ session'.posted = session.posted /\ session'.group = session.group
        /\ session'.isolating = session.isolating /\ session'.groups = session.groups
        /\ session'.suspects = session.suspects /\ session'.out = session.out
    BY <1>1, <2>1 DEF Session, SameShipment
  <2> QED
    BY <1>3, <1>5, <2>2 DEF missing, proved, at
<1> QED
  BY <1>4, <1>5

\* Poll, Elapse, SlowWrite and a refused answer move the session and nothing else.
LEMMA GoesFields ==
  ASSUME LogForwarderTypeOK, NEW at, session' = [session EXCEPT !.at = at]
  PROVE  /\ session'.at = at /\ SameShipment(session', session)
         /\ SameDelivery(session', session) /\ SameGroups(session', session)
BY SessionTyped DEF Session, SameShipment, SameDelivery, SameGroups

LEMMA PrepareFields ==
  ASSUME LogForwarderTypeOK, Prepare
  PROVE  LET deleted == session.missing \ session.known
             next == Returns({}, FALSE)
         IN  /\ session.at = "prepare" /\ session'.ids = session.ids \ deleted
             /\ session'.launch = session.launch /\ session'.end = session.end
             /\ session'.known = session.known /\ session'.latest = session.latest
             /\ session'.posted = session.posted /\ session'.group = session.group
             /\ session'.missing = session.missing \ deleted /\ session'.proved = session.proved
             /\ \/ /\ session.missing \subseteq deleted /\ cursor' = cursor
                   /\ session'.at = next.at /\ session'.at \in {"confirm", "next"}
                   /\ session'.isolating = next.isolating /\ session'.groups = next.groups
                   /\ session'.suspects = next.suspects /\ session'.out = next.out
                \/ /\ session'.missing # {} /\ session'.at = "post"
                   /\ session'.wanted = session.wanted \ deleted
                   /\ session'.isolating = session.isolating /\ session'.groups = session.groups
                   /\ session'.suspects = session.suspects /\ session'.out = session.out
                   /\ cursor'.confirmed = cursor.confirmed
                   /\ cursor'.pending = [end |-> session.end, ids |-> session'.ids,
                                         launch |-> session.launch]
<1> DEFINE deleted == session.missing \ session.known
           ids == session.ids \ deleted
           wanted == session.wanted \ deleted
           missing == session.missing \ deleted
           next == Returns({}, FALSE)
<1>1. session \in Session /\ {} \in Ids /\ FALSE \in BOOLEAN
  BY SessionTyped DEF Ids
<1>2. /\ SameShipment(next, session) /\ SameDelivery(next, session)
      /\ next.group = session.group /\ next.proved = session.proved
      /\ next.at \in {"confirm", "next"} /\ next \in Session
  BY <1>1, ReturnsLeave
<1>3. session.at = "prepare"
  BY DEF Prepare, SessionStep
<1>4. CASE session.missing = deleted
  <2>1. session' = [next EXCEPT !.ids = ids, !.missing = {}] /\ cursor' = cursor
    BY <1>1, <1>4 DEF Prepare, Session
  <2>2. missing = {}
    BY <1>4
  <2> HIDE DEF next, ids, missing, deleted
  <2>3. /\ session'.at = next.at /\ session'.isolating = next.isolating
        /\ session'.groups = next.groups /\ session'.suspects = next.suspects
        /\ session'.out = next.out /\ session'.proved = next.proved /\ session'.group = next.group
        /\ session'.ids = ids /\ session'.missing = {} /\ session'.launch = next.launch
        /\ session'.end = next.end /\ session'.known = next.known
        /\ session'.latest = next.latest /\ session'.posted = next.posted
    BY <1>2, <2>1 DEF Session
  <2> QED
    BY <1>2, <1>3, <1>4, <2>1, <2>2, <2>3 DEF SameShipment, SameDelivery, next, ids, missing, deleted
<1>5. CASE session.missing # deleted
  <2>1. /\ session' = [session EXCEPT !.wanted = wanted, !.ids = ids, !.missing = missing, !.at = "post"]
        /\ cursor' = [cursor EXCEPT !.pending = [end |-> session.end, ids |-> ids,
                                                 launch |-> session.launch]]
    BY <1>1, <1>5 DEF Prepare, Record, Session
  <2>2. missing # {}
    BY <1>5
  <2> HIDE DEF ids, missing, wanted, deleted
  <2>3. /\ session'.at = "post" /\ session'.ids = ids /\ session'.wanted = wanted
        /\ session'.missing = missing /\ session'.launch = session.launch
        /\ session'.end = session.end /\ session'.known = session.known
        /\ session'.latest = session.latest /\ session'.posted = session.posted
        /\ SameGroups(session', session)
    BY <1>1, <2>1 DEF Session, SameGroups
  <2>4. /\ cursor'.confirmed = cursor.confirmed
        /\ cursor'.pending = [end |-> session.end, ids |-> ids, launch |-> session.launch]
    BY <2>1 DEF LogForwarderTypeOK
  <2> QED
    BY <1>3, <2>2, <2>3, <2>4 DEF SameGroups, ids, missing, wanted, deleted
<1> QED
  BY <1>4, <1>5

LEMMA PostFields ==
  ASSUME LogForwarderTypeOK, Post
  PROVE  /\ session.at = "post"
         /\ \/ session' = Asleep /\ net' = net
            \/ /\ net = NoPost /\ session'.at = "posting"
               /\ net' = [launch |-> session.launch, ids |-> session.missing, answer |-> "none"]
               /\ SameShipment(session', session) /\ SameGroups(session', session)
               /\ session'.wanted = session.wanted /\ session'.missing = session.missing
               /\ session'.latest = session.latest /\ session'.posted = session.missing
<1>1. CASE session.stale
  BY <1>1 DEF Post, SessionStep
<1>2. CASE ~session.stale
  <2>1. session' = [session EXCEPT !.at = "posting", !.posted = session.missing]
    BY <1>2 DEF Post
  <2>2. /\ session'.at = "posting" /\ SameShipment(session', session) /\ SameGroups(session', session)
        /\ session'.wanted = session.wanted /\ session'.missing = session.missing
        /\ session'.latest = session.latest /\ session'.posted = session.missing
    BY <2>1, SessionTyped DEF Session, SameShipment, SameGroups
  <2> QED
    BY <1>2, <2>2 DEF Post, SessionStep
<1> QED
  BY <1>1, <1>2

LEMMA AnswerFields ==
  ASSUME LogForwarderTypeOK, Answer
  PROVE  LET next == Returns({}, TRUE)
         IN  /\ session.at = "posting" /\ net' = NoPost
             /\ SameShipment(session', session)
             /\ session'.wanted = session.wanted /\ session'.missing = session.missing
             /\ session'.posted = session.posted /\ session'.group = session.group
             /\ session'.proved = session.proved
             /\ \/ /\ SameGroups(session', session)
                   /\ \/ /\ net.answer \in {"sent", "unsettled"} /\ session'.at = "check"
                         /\ session'.latest = session.launch
                      \/ net.answer = "failed" /\ session'.at = "check" /\ session'.latest = 0
                      \/ net.answer = "refused" /\ session'.at = "unpend" /\ session'.latest = session.latest
                \/ /\ net.answer = "rejected" /\ session' = next
                   /\ session'.at \in {"confirm", "next"} /\ session'.latest = session.latest
<1> DEFINE next == Returns({}, TRUE)
<1>0. session.at = "posting" /\ net' = NoPost
  BY DEF Answer, SessionStep
<1>1. CASE net.answer \in {"sent", "unsettled"}
  <2>1. session' = [session EXCEPT !.at = "check", !.latest = session.launch]
    BY <1>1 DEF Answer
  <2>2. /\ SameShipment(session', session) /\ SameGroups(session', session)
        /\ session'.wanted = session.wanted /\ session'.missing = session.missing
        /\ session'.posted = session.posted /\ session'.at = "check" /\ session'.latest = session.launch
    BY <2>1, SessionTyped DEF Session, SameShipment, SameGroups
  <2> QED
    BY <1>0, <1>1, <2>2 DEF SameGroups
<1>2. CASE net.answer = "failed"
  <2>1. session' = [session EXCEPT !.at = "check", !.latest = 0]
    BY <1>2 DEF Answer
  <2>2. /\ SameShipment(session', session) /\ SameGroups(session', session)
        /\ session'.wanted = session.wanted /\ session'.missing = session.missing
        /\ session'.posted = session.posted /\ session'.at = "check" /\ session'.latest = 0
    BY <2>1, SessionTyped DEF Session, SameShipment, SameGroups
  <2> QED
    BY <1>0, <1>2, <2>2 DEF SameGroups
<1>3. CASE net.answer = "refused"
  <2>1. session' = [session EXCEPT !.at = "unpend"]
    BY <1>3 DEF Answer
  <2> QED
    BY <1>0, <1>3, <2>1, GoesFields DEF SameGroups, SameDelivery
<1>4. CASE net.answer = "rejected"
  <2>1. session' = next
    BY <1>4 DEF Answer
  <2>2. {} \in Ids /\ TRUE \in BOOLEAN
    BY DEF Ids
  <2>3. /\ SameShipment(next, session) /\ SameDelivery(next, session)
        /\ next.group = session.group /\ next.proved = session.proved
        /\ next.at \in {"confirm", "next"}
    BY <2>2, ReturnsLeave
  <2> HIDE DEF next
  <2>4. /\ SameShipment(session', session)
        /\ session'.wanted = session.wanted /\ session'.missing = session.missing
        /\ session'.posted = session.posted /\ session'.group = session.group
        /\ session'.proved = session.proved /\ session'.latest = session.latest
        /\ session'.at \in {"confirm", "next"}
    BY <2>1, <2>3 DEF SameDelivery
  <2> QED
    BY <1>0, <1>4, <2>1, <2>4 DEF next
<1>5. net.answer \in {"sent", "unsettled", "failed", "refused", "rejected"}
  BY DEF Answer, LogForwarderTypeOK
<1> QED
  BY <1>1, <1>2, <1>3, <1>4, <1>5

LEMMA NextGroupFields ==
  ASSUME LogForwarderTypeOK, NextGroup
  PROVE  /\ session.at = "next" /\ session.groups # <<>> /\ session'.at = "check"
         /\ SameShipment(session', session)
         /\ session'.wanted = Head(session.groups) /\ session'.group = Head(session.groups)
         /\ session'.groups = Tail(session.groups) /\ session'.missing = {}
         /\ session'.latest = None /\ session'.posted = session.posted
         /\ session'.isolating = session.isolating /\ session'.suspects = session.suspects
         /\ session'.proved = session.proved /\ session'.out = session.out
<1> DEFINE group == Head(session.groups)
           rest == Tail(session.groups)
<1>1. session' = [session EXCEPT !.at = "check", !.group = group, !.wanted = group,
                                 !.missing = {}, !.latest = None, !.groups = rest]
  BY SessionTyped DEF NextGroup, Session
<1>2. session.at = "next" /\ session.groups # <<>>
  BY DEF NextGroup, SessionStep
<1> HIDE DEF group, rest
<1>3. /\ session'.at = "check" /\ SameShipment(session', session)
      /\ session'.wanted = group /\ session'.group = group
      /\ session'.groups = rest /\ session'.missing = {}
      /\ session'.latest = None /\ session'.posted = session.posted
      /\ session'.isolating = session.isolating /\ session'.suspects = session.suspects
      /\ session'.proved = session.proved /\ session'.out = session.out
  BY <1>1, SessionTyped DEF Session, SameShipment
<1> QED
  BY <1>2, <1>3 DEF group, rest

LEMMA RoundEndsFields ==
  ASSUME LogForwarderTypeOK, RoundEnds
  PROVE  LET again == SubSeq(session.suspects, session.proved + 1, Len(session.suspects))
         IN  /\ session.at = "next" /\ session.groups = <<>>
             /\ session'.at = IF again = <<>> THEN "confirm" ELSE "next"
             /\ session'.ids = session.ids \ GivenUp /\ session'.groups = again
             /\ session'.out = {} /\ session'.suspects = <<>> /\ session'.proved = 0
             /\ session'.launch = session.launch /\ session'.end = session.end
             /\ session'.known = session.known /\ SameDelivery(session', session)
             /\ session'.isolating = session.isolating /\ session'.group = session.group
<1> DEFINE again == SubSeq(session.suspects, session.proved + 1, Len(session.suspects))
           ids == session.ids \ GivenUp
           at == IF again = <<>> THEN "confirm" ELSE "next"
<1>1. session' = [session EXCEPT !.at = at, !.ids = ids, !.groups = again,
                                 !.out = {}, !.suspects = <<>>, !.proved = 0]
  BY SessionTyped DEF RoundEnds, Session
<1>2. session.at = "next" /\ session.groups = <<>>
  BY DEF RoundEnds, SessionStep
<1> HIDE DEF again, ids, at
<1>3. /\ session'.at = at /\ session'.ids = ids /\ session'.groups = again
      /\ session'.out = {} /\ session'.suspects = <<>> /\ session'.proved = 0
      /\ session'.launch = session.launch /\ session'.end = session.end
      /\ session'.known = session.known /\ SameDelivery(session', session)
      /\ session'.isolating = session.isolating /\ session'.group = session.group
  BY <1>1, SessionTyped DEF Session, SameDelivery
<1> QED
  BY <1>2, <1>3 DEF again, ids, at

\* A changed target tells the session, and wakes a paused one.
LEMMA RetargetFields ==
  ASSUME LogForwarderTypeOK, NEW l, Retarget(l)
  PROVE  /\ target' = l
         /\ \/ session' = Asleep
            \/ /\ session'.at = session.at /\ SameShipment(session', session)
               /\ SameDelivery(session', session) /\ SameGroups(session', session)
<1>1. CASE session.at = "off" \/ session.at = "paused"
  BY <1>1 DEF Retarget, SameShipment, SameDelivery, SameGroups
<1>2. CASE session.at # "off" /\ session.at # "paused"
  <2>1. session' = [session EXCEPT !.stale = TRUE]
    BY <1>2 DEF Retarget
  <2> QED
    BY <1>2, <2>1, SessionTyped DEF Retarget, Session, SameShipment, SameDelivery, SameGroups
<1> QED
  BY <1>1, <1>2
-----------------------------------------------------------------------------
(* Launches serve one after the other.                                     *)

LEMMA AsleepFields ==
  /\ Asleep.at = "off" /\ Asleep.groups = <<>> /\ Asleep.suspects = <<>> /\ Asleep.out = {}
  /\ Asleep.proved = 0 /\ Asleep.isolating = FALSE /\ Asleep.posted = {} /\ Asleep.latest = None
BY DEF Asleep

\* A session that goes on keeps its launch, and its latest post went to that launch,
\* was not queued, or is the one on record.
LEMMA SessionGoesOn ==
  ASSUME LogForwarderTypeOK, LogForwarderNext
  PROVE  \/ session'.at \in {"off", "paused"}
         \/ Open
         \/ /\ session.at \notin {"off", "paused"} /\ session'.launch = session.launch
            /\ \/ session'.latest \in {session.latest, None, 0, session.launch}
               \/ cursor.pending # NoPending /\ session'.latest = cursor.pending.launch
<1> DEFINE Goal == /\ session.at \notin {"off", "paused"} /\ session'.launch = session.launch
                   /\ \/ session'.latest \in {session.latest, None, 0, session.launch}
                      \/ cursor.pending # NoPending /\ session'.latest = cursor.pending.launch
<1>1. CASE session' = session \/ session' = Asleep
  BY <1>1, AsleepFields
<1>2. CASE Reconcile
  BY <1>2, SettleFields DEF Reconcile, SessionStep
<1>3. CASE NextBody
  BY <1>3, SettleFields DEF NextBody, SessionStep
<1>4. CASE Check
  BY <1>4, CheckFields DEF SameShipment
<1>5. CASE Poll \/ Elapse \/ SlowWrite
  BY <1>5, GoesFields DEF Poll, Elapse, SlowWrite, Goes, SessionStep, SameShipment, SameDelivery
<1>6. CASE Stuck
  <2>1. session.missing \in Ids /\ FALSE \in BOOLEAN
    BY SessionTyped
  <2> QED
    BY <1>6, <2>1, ReturnsLeave DEF Stuck, SessionStep, SameShipment, SameDelivery
<1>7. CASE Prepare
  BY <1>7, PrepareFields
<1>8. CASE Post
  BY <1>1, <1>8, PostFields DEF SameShipment
<1>9. CASE Answer
  BY <1>9, AnswerFields DEF SameShipment, SameGroups
<1>10. CASE Unpend
  BY <1>10 DEF Unpend, Asleep
<1>11. CASE NextGroup
  BY <1>11, NextGroupFields DEF SameShipment
<1>12. CASE RoundEnds
  BY <1>12, RoundEndsFields DEF SameDelivery
<1>13. CASE Confirm
  BY <1>13 DEF Confirm, Asleep, SessionStep
<1>14. CASE Serves \/ Unhealthy \/ Noticed
  BY <1>1, <1>14, RetargetFields DEF Serves, Unhealthy, Noticed, SameShipment, SameDelivery
<1> QED
  BY <1>1, <1>2, <1>3, <1>4, <1>5, <1>6, <1>7, <1>8, <1>9, <1>10, <1>11, <1>12, <1>13, <1>14
     DEF LogForwarderNext, Forward, Carries, Stores, Owns, Troubles, Interrupt, Arrive, Vanish,
         Unheard, Store, Drop, Relaunch, OwnerStarts, TurnedAway, AnswerLost, Exit, OwnerCrashes, Retire

\* The body on record was posted to the launch of the session.
LEMMA RecordGoesOn ==
  ASSUME LogForwarderTypeOK, LogForwarderNext
  PROVE  \/ cursor'.pending = cursor.pending
         \/ cursor'.pending = NoPending
         \/ /\ session.at = "prepare" /\ session'.at = "post" /\ session'.launch = session.launch
            /\ cursor'.pending.launch = session.launch
<1>1. CASE Prepare
  <2>1. CASE cursor' = cursor
    BY <2>1
  <2>2. CASE cursor' # cursor
    <3> DEFINE record == [end |-> session.end, ids |-> session'.ids, launch |-> session.launch]
    <3>1. /\ session.at = "prepare" /\ session'.at = "post" /\ session'.launch = session.launch
          /\ cursor'.pending = record
      BY <1>1, <2>2, PrepareFields
    <3>2. record.launch = session.launch
      OBVIOUS
    <3> QED
      BY <3>1, <3>2
  <2> QED
    BY <2>1, <2>2
<1>2. CASE Unpend
  BY <1>2 DEF Unpend, LogForwarderTypeOK
<1>3. CASE Confirm
  BY <1>3 DEF Confirm
<1> QED
  BY <1>1, <1>2, <1>3
     DEF LogForwarderNext, Forward, Carries, Stores, Owns, Troubles, Open, Reconcile, NextBody,
         Interrupt, Check, Poll, Stuck, Elapse, Post, Answer, NextGroup, RoundEnds, Arrive, Vanish,
         Unheard, Store, Drop, Serves, Noticed, Relaunch, OwnerStarts, SlowWrite, TurnedAway,
         AnswerLost, Unhealthy, Exit, OwnerCrashes, Retire

LEMMA LaunchesStep ==
  ASSUME LogForwarderTypeOK, LaunchesInOrder, LogForwarderNext
  PROVE  LaunchesInOrder'
<1> DEFINE Machine == <<launch, own, alive, target, ownerUp>>
           Served == /\ own <= launch + 1
                     /\ \A l \in alive : l <= launch /\ (l >= own => l = launch)
                     /\ target \in {0, launch} /\ (target # 0 => own <= target)
           Grows == launch <= launch' /\ (session'.at \in {"off", "paused"} \/ own' = own)
<1>1. /\ launch \in Nat /\ launch >= 1 /\ own \in Nat /\ own >= 1 /\ Launches \subseteq Nat
      /\ launch \in Launches /\ None = -1 /\ 0 \notin Launches
      /\ target \in Launches \union {0} /\ alive \subseteq Launches /\ ownerUp \in BOOLEAN
  BY LogForwarderAssumption DEF LogForwarderTypeOK, Launches, None
<1>2. Served' /\ Grows /\ (~ownerUp' => target' = 0)
  <2>1. CASE UNCHANGED Machine
    BY <1>1, <2>1 DEF LaunchesInOrder
  <2>2. CASE Serves \/ Unhealthy \/ Noticed
    BY <1>1, <2>2 DEF Serves, Unhealthy, Noticed, Retarget, analytics, LaunchesInOrder
  <2>3. CASE \E l \in alive : Exit(l)
    BY <1>1, <2>3 DEF Exit, LaunchesInOrder
  <2>4. CASE Relaunch
    BY <1>1, <2>4 DEF Relaunch, LaunchesInOrder
  <2>5. CASE OwnerCrashes
    BY <1>1, <2>5 DEF OwnerCrashes, LaunchesInOrder, analytics
  <2>6. CASE OwnerStarts
    <3>1. /\ target = 0 /\ session' = session /\ session.at = "off" /\ own' = launch + 1
          /\ UNCHANGED <<target, launch, alive>>
      BY <2>6 DEF OwnerStarts, LaunchesInOrder
    <3>2. Served' /\ Grows
      BY <1>1, <3>1 DEF LaunchesInOrder
    <3> QED
      BY <3>1, <3>2
  <2> QED
    BY <2>1, <2>2, <2>3, <2>4, <2>5, <2>6
       DEF LogForwarderNext, Forward, Carries, Stores, Owns, Troubles, Open, Reconcile, NextBody,
           Interrupt, Check, Poll, Stuck, Elapse, Prepare, Post, Answer, Unpend, NextGroup, RoundEnds,
           Confirm, Arrive, Vanish, Unheard, Store, Drop, SlowWrite, TurnedAway, AnswerLost, Retire,
           analytics
<1>3. ~ownerUp' => session'.at = "off"
  <2>1. CASE ownerUp
    <3>1. CASE OwnerCrashes
      BY <3>1, AsleepFields DEF OwnerCrashes
    <3>2. CASE ownerUp' = ownerUp
      BY <2>1, <3>2
    <3> QED
      BY <2>1, <3>1, <3>2
         DEF LogForwarderNext, Forward, Carries, Stores, Owns, Troubles, Open, Reconcile, NextBody,
             Interrupt, Check, Poll, Stuck, Elapse, Prepare, Post, Answer, Unpend, NextGroup, RoundEnds,
             Confirm, Arrive, Vanish, Unheard, Store, Drop, SlowWrite, TurnedAway, AnswerLost, Retire,
             Serves, Noticed, Relaunch, Unhealthy, Exit, OwnerStarts
  <2>2. CASE ~ownerUp
    <3>1. session.at = "off" /\ target = 0
      BY <2>2 DEF LaunchesInOrder
    <3>2. CASE session' = session
      BY <3>1, <3>2
    <3> QED
      BY <2>2, <3>1, <3>2
         DEF LogForwarderNext, Forward, Carries, Stores, Owns, Troubles, Open, Reconcile, NextBody,
             Interrupt, Check, Poll, Stuck, Elapse, Prepare, Post, Answer, Unpend, NextGroup, RoundEnds,
             Confirm, Arrive, Vanish, Unheard, Store, Drop, SlowWrite, TurnedAway, AnswerLost, Retire,
             Serves, Noticed, Relaunch, Unhealthy, Exit, OwnerStarts, OwnerCrashes, SessionStep
  <2> QED
    BY <2>1, <2>2
<1>4. session'.at \notin {"off", "paused"} =>
        /\ session'.launch \in own'..launch' /\ session'.launch \in Launches
        /\ session'.latest <= session'.launch
        /\ cursor.pending # NoPending => cursor.pending.launch <= session'.launch
        /\ Open \/ (session'.launch = session.launch /\ session.launch <= launch /\ session.launch \in Launches)
  <2> SUFFICES ASSUME session'.at \notin {"off", "paused"}
               PROVE  /\ session'.launch \in own'..launch' /\ session'.launch \in Launches
                      /\ session'.latest <= session'.launch
                      /\ cursor.pending # NoPending => cursor.pending.launch <= session'.launch
                      /\ Open \/ (session'.launch = session.launch /\ session.launch <= launch /\ session.launch \in Launches)
    OBVIOUS
  <2>1. CASE Open
    <3>1. /\ session'.launch = target /\ session'.latest = None /\ target = launch /\ own <= target
          /\ UNCHANGED <<launch, own>>
      BY <2>1, OpenFields DEF Open, LaunchesInOrder, analytics
    <3> QED
      BY <1>1, <2>1, <3>1 DEF LaunchesInOrder
  <2>2. CASE /\ session.at \notin {"off", "paused"} /\ session'.launch = session.launch
             /\ \/ session'.latest \in {session.latest, None, 0, session.launch}
                \/ cursor.pending # NoPending /\ session'.latest = cursor.pending.launch
    <3>1. /\ session.launch \in own..launch /\ session.launch \in Launches
          /\ session.latest <= session.launch
          /\ cursor.pending # NoPending => cursor.pending.launch <= session.launch
      BY <2>2 DEF LaunchesInOrder
    <3>2. own' = own /\ launch <= launch' /\ launch' \in Nat
      <4>1. LogForwarderTypeOK'
        BY TypeStep
      <4>2. launch' \in Nat
        BY <4>1 DEF LogForwarderTypeOK, Launches
      <4> QED
        BY <1>2, <4>2
    <3> QED
      BY <1>1, <2>2, <3>1, <3>2
  <2> QED
    BY <2>1, <2>2, SessionGoesOn
<1>5. /\ cursor'.pending # NoPending => cursor'.pending.launch \in 1..launch'
      /\ session'.at \notin {"off", "paused"} /\ cursor'.pending # NoPending =>
           cursor'.pending.launch <= session'.launch
  <2>1. launch' \in Nat /\ launch <= launch'
    <3>1. LogForwarderTypeOK'
      BY TypeStep
    <3> QED
      BY <1>2, <3>1 DEF LogForwarderTypeOK, Launches
  <2>2. cursor.pending # NoPending => cursor.pending.launch \in 1..launch'
    BY <1>1, <2>1 DEF LaunchesInOrder
  <2>3. session.at = "prepare" => session.launch \in Launches /\ session.launch <= launch
    BY <1>1 DEF LaunchesInOrder
  <2> QED
    BY <1>1, <1>4, <2>1, <2>2, <2>3, RecordGoesOn DEF Launches
<1> QED
  BY <1>2, <1>3, <1>4, <1>5 DEF LaunchesInOrder

-----------------------------------------------------------------------------
(* Groups that hold no id twice.                                           *)

LEMMA ApartNone == Apart(<<>>)
<1> DEFINE none == <<>>
<1>1. Len(none) = 0
  OBVIOUS
<1> HIDE DEF none
<1>2. Apart(none)
  BY <1>1 DEF Apart
<1> QED
  BY <1>2 DEF none

LEMMA ApartHalves ==
  ASSUME NEW ids \in Ids
  PROVE  Apart(Halves(ids))
<1>1. FirstHalf(ids) \subseteq ids
  BY DEF FirstHalf
<1>2. CASE FirstHalf(ids) = ids
  <2> DEFINE one == <<ids>>
  <2>1. Halves(ids) = one
    BY <1>2 DEF Halves
  <2>2. Len(one) = 1
    OBVIOUS
  <2> HIDE DEF one
  <2> QED
    BY <2>1, <2>2 DEF Apart
<1>3. CASE FirstHalf(ids) # ids
  <2> DEFINE half == FirstHalf(ids)
             rest == ids \ half
             both == <<half, rest>>
  <2>1. Halves(ids) = both
    BY <1>3 DEF Halves
  <2>2. Len(both) = 2 /\ both[1] = half /\ both[2] = rest
    OBVIOUS
  <2>3. half \intersect rest = {}
    OBVIOUS
  <2> HIDE DEF half, rest, both
  <2> QED
    BY <2>1, <2>2, <2>3 DEF Apart
<1> QED
  BY <1>2, <1>3

LEMMA ApartConcat ==
  ASSUME NEW s \in Seq(Ids), NEW t \in Seq(Ids), Apart(s), Apart(t),
         IdsOf(s) \intersect IdsOf(t) = {}
  PROVE  Apart(s \o t)
<1> DEFINE both == s \o t
<1>1. /\ Len(s) \in Nat /\ Len(t) \in Nat /\ Len(both) = Len(s) + Len(t)
      /\ \A i \in 1..Len(s) : both[i] = s[i]
      /\ \A i \in 1..Len(t) : both[Len(s) + i] = t[i]
  OBVIOUS
<1> HIDE DEF both
<1>2. ASSUME NEW i \in 1..Len(both), i > Len(s)
      PROVE  i - Len(s) \in 1..Len(t) /\ both[i] = t[i - Len(s)]
  <2>1. i - Len(s) \in 1..Len(t) /\ Len(s) + (i - Len(s)) = i
    BY <1>1, <1>2
  <2> QED
    BY <1>1, <2>1
<1>3. ASSUME NEW i \in 1..Len(s), NEW j \in 1..Len(t)
      PROVE  s[i] \intersect t[j] = {}
  <2>1. s[i] \subseteq IdsOf(s) /\ t[j] \subseteq IdsOf(t)
    BY InIdsOf
  <2> QED
    BY <2>1
<1>4. ASSUME NEW i \in 1..Len(both), NEW j \in 1..Len(both), i # j
      PROVE  both[i] \intersect both[j] = {}
  <2>1. CASE i <= Len(s) /\ j <= Len(s)
    BY <1>1, <1>4, <2>1 DEF Apart
  <2>2. CASE i > Len(s) /\ j > Len(s)
    <3>1. i - Len(s) # j - Len(s)
      BY <1>1, <1>4
    <3> QED
      BY <1>2, <2>2, <3>1 DEF Apart
  <2>3. CASE i <= Len(s) /\ j > Len(s)
    <3>1. i \in 1..Len(s) /\ both[i] = s[i]
      BY <1>1, <2>3
    <3>2. j - Len(s) \in 1..Len(t) /\ both[j] = t[j - Len(s)]
      BY <1>2, <2>3
    <3> QED
      BY <1>3, <3>1, <3>2
  <2>4. CASE i > Len(s) /\ j <= Len(s)
    <3>1. j \in 1..Len(s) /\ both[j] = s[j]
      BY <1>1, <2>4
    <3>2. i - Len(s) \in 1..Len(t) /\ both[i] = t[i - Len(s)]
      BY <1>2, <2>4
    <3>3. s[j] \intersect t[i - Len(s)] = {}
      BY <1>3, <3>1, <3>2
    <3> QED
      BY <3>1, <3>2, <3>3
  <2> QED
    BY <1>1, <2>1, <2>2, <2>3, <2>4
<1>5. Apart(both)
  BY <1>4 DEF Apart
<1> QED
  BY <1>5 DEF both

LEMMA ApartAppend ==
  ASSUME NEW s \in Seq(Ids), NEW ids \in Ids, Apart(s), IdsOf(s) \intersect ids = {}
  PROVE  Apart(Append(s, ids))
<1> DEFINE all == Append(s, ids)
<1>1. /\ Len(s) \in Nat /\ Len(all) = Len(s) + 1
      /\ \A i \in 1..Len(s) : all[i] = s[i]
      /\ all[Len(s) + 1] = ids
  OBVIOUS
<1> HIDE DEF all
<1>2. \A i \in 1..Len(s) : s[i] \subseteq IdsOf(s)
  BY InIdsOf
<1>3. ASSUME NEW i \in 1..Len(all), NEW j \in 1..Len(all), i # j
      PROVE  all[i] \intersect all[j] = {}
  <2>1. CASE i <= Len(s) /\ j <= Len(s)
    BY <1>1, <1>3, <2>1 DEF Apart
  <2>2. CASE i <= Len(s) /\ j = Len(s) + 1
    BY <1>1, <1>2, <2>2
  <2>3. CASE i = Len(s) + 1 /\ j <= Len(s)
    BY <1>1, <1>2, <2>3
  <2> QED
    BY <1>1, <1>3, <2>1, <2>2, <2>3
<1>4. Apart(all)
  BY <1>3 DEF Apart
<1> QED
  BY <1>4 DEF all

LEMMA ApartTail ==
  ASSUME NEW s \in Seq(Ids), s # <<>>, Apart(s)
  PROVE  /\ Apart(Tail(s)) /\ Head(s) \intersect IdsOf(Tail(s)) = {}
         /\ Head(s) \subseteq IdsOf(s) /\ IdsOf(Tail(s)) \subseteq IdsOf(s)
<1> DEFINE rest == Tail(s)
<1>1. /\ rest \in Seq(Ids) /\ Len(s) \in Nat /\ Len(s) >= 1 /\ Len(rest) = Len(s) - 1
      /\ Head(s) = s[1]
      /\ \A i \in 1..Len(rest) : rest[i] = s[i + 1]
  OBVIOUS
<1> HIDE DEF rest
<1>2. \A i \in 1..Len(rest) : i + 1 \in 1..Len(s) /\ i + 1 # 1
  BY <1>1
<1>3. \A i \in 1..Len(s) : s[i] \subseteq IdsOf(s)
  BY InIdsOf
<1>4. Apart(rest)
  <2> SUFFICES ASSUME NEW i \in 1..Len(rest), NEW j \in 1..Len(rest), i # j
               PROVE  rest[i] \intersect rest[j] = {}
    BY DEF Apart
  <2>1. i + 1 # j + 1
    BY <1>1
  <2> QED
    BY <1>1, <1>2, <2>1 DEF Apart
<1>5. ASSUME NEW e \in IdsOf(rest)
      PROVE  e \in IdsOf(s) /\ e \notin Head(s)
  <2>1. PICK i \in 1..Len(rest) : e \in rest[i]
    BY <1>1, <1>5, InIdsOf
  <2>2. e \in s[i + 1] /\ i + 1 \in 1..Len(s) /\ i + 1 # 1 /\ 1 \in 1..Len(s)
    BY <1>1, <1>2, <2>1
  <2>3. s[i + 1] \intersect s[1] = {}
    BY <2>2 DEF Apart
  <2> QED
    BY <1>1, <1>3, <2>2, <2>3
<1>6. Head(s) \subseteq IdsOf(s)
  BY <1>1, <1>3
<1>7. Head(s) \intersect IdsOf(rest) = {} /\ IdsOf(rest) \subseteq IdsOf(s)
  BY <1>5
<1> QED
  BY <1>4, <1>6, <1>7 DEF rest

\* The suspects that a round posts again are apart from those it gives up.
LEMMA SuspectsApart ==
  ASSUME session.suspects \in Seq(Ids), NEW n \in 0..Len(session.suspects), Apart(session.suspects)
  PROVE  LET again == SubSeq(session.suspects, n + 1, Len(session.suspects))
         IN  /\ again \in Seq(Ids) /\ Apart(again)
             /\ IdsOf(again) \subseteq IdsOf(session.suspects)
             /\ Suspected(n) \subseteq IdsOf(session.suspects)
             /\ IdsOf(again) \intersect Suspected(n) = {}
<1> DEFINE s == session.suspects
           again == SubSeq(s, n + 1, Len(s))
<1>1. /\ again \in Seq(Ids) /\ Len(s) \in Nat /\ Len(again) = Len(s) - n
      /\ \A i \in 1..Len(again) : again[i] = s[n + i]
  OBVIOUS
<1>2. \A e : e \in Suspected(n) <=> \E i \in 1..n : e \in s[i]
  BY Zenon DEF Suspected
<1> HIDE DEF again
<1>3. \A i \in 1..Len(again) : n + i \in 1..Len(s) /\ n + i > n
  BY <1>1
<1>4. \A i \in 1..n : i \in 1..Len(s)
  BY <1>1
<1>5. \A i \in 1..Len(s) : s[i] \subseteq IdsOf(s)
  BY InIdsOf
<1>6. Apart(again)
  <2> SUFFICES ASSUME NEW i \in 1..Len(again), NEW j \in 1..Len(again), i # j
               PROVE  again[i] \intersect again[j] = {}
    BY DEF Apart
  <2>1. n + i # n + j
    BY <1>1
  <2> QED
    BY <1>1, <1>3, <2>1 DEF Apart
<1>7. Suspected(n) \subseteq IdsOf(s)
  BY <1>2, <1>4, <1>5
<1>8. ASSUME NEW e \in IdsOf(again)
      PROVE  e \in IdsOf(s) /\ e \notin Suspected(n)
  <2>1. PICK i \in 1..Len(again) : e \in again[i]
    BY <1>1, <1>8, InIdsOf
  <2>2. e \in s[n + i] /\ n + i \in 1..Len(s) /\ n + i > n
    BY <1>1, <1>3, <2>1
  <2>3. ASSUME NEW j \in 1..n, e \in s[j]
        PROVE  FALSE
    <3>1. j \in 1..Len(s) /\ j # n + i
      BY <1>1, <1>4, <2>2
    <3>2. s[j] \intersect s[n + i] = {}
      BY <2>2, <3>1 DEF Apart
    <3> QED
      BY <2>2, <2>3, <3>2
  <2> QED
    BY <1>2, <1>5, <2>2, <2>3
<1>9. IdsOf(again) \subseteq IdsOf(s) /\ IdsOf(again) \intersect Suspected(n) = {}
  BY <1>8
<1> QED
  BY <1>1, <1>6, <1>7, <1>9 DEF again

-----------------------------------------------------------------------------
(* isolate holds no event twice.                                           *)

Held(s) == IdsOf(s.groups) \union IdsOf(s.suspects)

NoneTwice(s) ==
  /\ Apart(s.groups) /\ Apart(s.suspects)
  /\ IdsOf(s.groups) \intersect IdsOf(s.suspects) = {}
  /\ s.out \intersect Held(s) = {}

\* What deliverAll was given is split or set aside, and was held nowhere else.
LEMMA ReturnsApart ==
  ASSUME LogForwarderTypeOK, DeliveryIsComplete, GroupsAreApart, Delivering,
         NEW left \in Ids, NEW rejected \in BOOLEAN,
         left \subseteq session.wanted, rejected => session.posted \subseteq session.wanted
  PROVE  LET next == Returns(left, rejected)
         IN  NoneTwice(next) /\ Held(next) \intersect session.known \subseteq session.ids
<1> DEFINE next == Returns(left, rejected)
<1>1. /\ session \in Session
      /\ session.group \in Ids /\ session.posted \in Ids /\ session.groups \in Seq(Ids)
      /\ session.suspects \in Seq(Ids) /\ session.out \in Ids
  BY SessionTyped
<1>2. /\ Apart(session.groups) /\ Apart(session.suspects)
      /\ IdsOf(session.groups) \intersect IdsOf(session.suspects) = {}
      /\ session.out \intersect (IdsOf(session.groups) \union IdsOf(session.suspects)) = {}
      /\ (IdsOf(session.groups) \union IdsOf(session.suspects)) \intersect session.known \subseteq session.ids
      /\ session.wanted \intersect session.known \subseteq session.ids
      /\ session.isolating => session.group \intersect session.known \subseteq session.ids
  BY DEF GroupsAreApart
<1>3. CASE ~session.isolating /\ ~rejected /\ left = {}
  <2>1. next = [session EXCEPT !.at = "confirm"]
    BY <1>3 DEF Returns
  <2>2. next.groups = session.groups /\ next.suspects = session.suspects /\ next.out = session.out
    BY <1>1, <2>1 DEF Session
  <2> HIDE DEF next
  <2>3. NoneTwice(next) /\ Held(next) \intersect session.known \subseteq session.ids
    BY <1>2, <2>2 DEF NoneTwice, Held
  <2> QED
    BY <2>3 DEF next
<1>4. CASE ~session.isolating /\ (rejected \/ left # {})
  <2> DEFINE given == IF rejected THEN session.posted ELSE left
  <2>1. next = [session EXCEPT !.at = "next", !.isolating = TRUE, !.groups = Halves(given)]
    BY <1>4 DEF Returns
  <2>2. /\ next.groups = Halves(given) /\ next.suspects = session.suspects /\ next.out = session.out
    BY <1>1, <2>1 DEF Session
  <2>3. given \in Ids /\ given \subseteq session.wanted
    BY <1>1
  <2> HIDE DEF given, next
  <2>4. Halves(given) \in Seq(Ids) /\ IdsOf(Halves(given)) = given /\ Apart(Halves(given))
    BY <2>3, HalvesSplit, ApartHalves
  <2>5. session.suspects = <<>> /\ session.out = {} /\ IdsOf(<<>>) = {}
    BY <1>4, IdsOfNone DEF DeliveryIsComplete
  <2>6. NoneTwice(next) /\ Held(next) \intersect session.known \subseteq session.ids
    BY <1>2, <2>2, <2>3, <2>4, <2>5, ApartNone DEF NoneTwice, Held
  <2> QED
    BY <2>6 DEF next
<1>5. CASE session.isolating
  <2> DEFINE single == Cardinality(session.group) = 1
             split == IF rejected THEN session.group ELSE left
             out == IF rejected /\ single THEN session.out \union session.group ELSE session.out
             suspects == IF ~rejected /\ left # {} /\ single THEN Append(session.suspects, session.group)
                         ELSE session.suspects
             groups == IF single \/ (~rejected /\ left = {}) THEN session.groups
                       ELSE Halves(split) \o session.groups
  <2>1. next = [session EXCEPT !.at = "next", !.out = out, !.suspects = suspects, !.groups = groups]
    BY <1>5 DEF Returns
  <2>2. next.groups = groups /\ next.suspects = suspects /\ next.out = out
    <3> HIDE DEF out, suspects, groups
    <3> QED
      BY <1>1, <2>1 DEF Session
  <2>3. /\ session.group \intersect IdsOf(session.groups) = {}
        /\ session.group \intersect IdsOf(session.suspects) = {}
        /\ session.group \intersect session.out = {}
        /\ session.wanted \subseteq session.group
    BY <1>5 DEF GroupsAreApart, DeliveryIsComplete
  <2>4. split \in Ids /\ split \subseteq session.group
    BY <1>1, <2>3
  <2>5. /\ IdsOf(Append(session.suspects, session.group)) = IdsOf(session.suspects) \union session.group
        /\ Apart(Append(session.suspects, session.group))
    BY <1>1, <1>2, <2>3, IdsOfAppend, ApartAppend
  <2>6. Halves(split) \in Seq(Ids) /\ IdsOf(Halves(split)) = split /\ Apart(Halves(split))
    BY <2>4, HalvesSplit, ApartHalves
  <2>7. /\ IdsOf(Halves(split) \o session.groups) = split \union IdsOf(session.groups)
        /\ Apart(Halves(split) \o session.groups)
    <3>1. IdsOf(Halves(split)) \intersect IdsOf(session.groups) = {}
      BY <2>3, <2>4, <2>6
    <3> QED
      BY <1>1, <1>2, <2>6, <3>1, IdsOfConcat, ApartConcat
  <2> HIDE DEF split, next
  <2>8. /\ Apart(groups) /\ Apart(suspects) /\ IdsOf(groups) \intersect IdsOf(suspects) = {}
        /\ out \intersect (IdsOf(groups) \union IdsOf(suspects)) = {}
        /\ (IdsOf(groups) \union IdsOf(suspects)) \intersect session.known \subseteq session.ids
    <3>1. CASE ~rejected /\ left = {}
      BY <1>2, <3>1
    <3>2. CASE single /\ rejected
      BY <1>2, <2>3, <3>2
    <3>3. CASE single /\ ~rejected /\ left # {}
      BY <1>2, <1>5, <2>3, <2>5, <3>3
    <3>4. CASE ~single /\ (rejected \/ left # {})
      BY <1>2, <1>5, <2>3, <2>4, <2>7, <3>4
    <3> QED
      BY <3>1, <3>2, <3>3, <3>4
  <2>9. NoneTwice(next) /\ Held(next) \intersect session.known \subseteq session.ids
    <3> HIDE DEF groups, suspects, out
    <3> QED
      BY <2>2, <2>8 DEF NoneTwice, Held
  <2> QED
    BY <2>9 DEF next
<1> QED
  BY <1>3, <1>4, <1>5

LEMMA ApartStep ==
  ASSUME LogForwarderInv, GroupsAreApart, LogForwarderNext
  PROVE  GroupsAreApart'
<1>1. LogForwarderTypeOK /\ DeliveryIsComplete
  BY DEF LogForwarderInv
<1>2. /\ session.groups \in Seq(Ids) /\ session.suspects \in Seq(Ids)
      /\ session.proved \in 0..Len(session.suspects) /\ session.missing \subseteq session.wanted
      /\ session.missing \in Ids /\ session.isolating \in BOOLEAN
      /\ {} \in Ids /\ TRUE \in BOOLEAN /\ FALSE \in BOOLEAN
  BY <1>1, SessionTyped DEF Ids
<1> DEFINE Same == /\ SameGroups(session', session) /\ session'.ids = session.ids
                   /\ session'.known = session.known
<1>3. CASE session' = session
  BY <1>3 DEF GroupsAreApart, Delivering
<1>4. ASSUME /\ session'.groups = <<>> /\ session'.suspects = <<>> /\ session'.out = {}
             /\ session'.at \notin {"post", "posting"} /\ ~session'.isolating
             /\ Delivering' => session'.wanted \subseteq session'.ids
      PROVE  GroupsAreApart'
  BY <1>4, ApartNone, IdsOfNone DEF GroupsAreApart
<1>5. CASE session' = Asleep
  BY <1>4, <1>5, AsleepFields DEF Delivering
<1>6. ASSUME Same, Delivering' => Delivering /\ session'.wanted = session.wanted,
             session'.at \in {"post", "posting"} =>
               session.at \in {"post", "posting"} /\ session'.missing = session.missing
      PROVE  GroupsAreApart'
  BY <1>6 DEF GroupsAreApart, SameGroups
<1>7. ASSUME Delivering, NEW left \in Ids, NEW rejected \in BOOLEAN,
             left \subseteq session.wanted, rejected => session.posted \subseteq session.wanted,
             LET next == Returns(left, rejected)
             IN  /\ session'.groups = next.groups /\ session'.suspects = next.suspects
                 /\ session'.out = next.out,
             session'.at \in {"confirm", "next"}, session'.known = session.known,
             session.ids \intersect session.known \subseteq session'.ids
      PROVE  GroupsAreApart'
  <2> DEFINE next == Returns(left, rejected)
  <2>1. NoneTwice(next) /\ Held(next) \intersect session.known \subseteq session.ids
    BY <1>1, <1>7, ReturnsApart
  <2>2. /\ session'.groups = next.groups /\ session'.suspects = next.suspects
        /\ session'.out = next.out
    BY <1>7
  <2> HIDE DEF next
  <2> QED
    BY <1>7, <2>1, <2>2 DEF GroupsAreApart, NoneTwice, Held, Delivering
<1>10. CASE Open
  BY <1>1, <1>4, <1>10, OpenFields, AsleepFields DEF Delivering, SameGroups
<1>11. CASE Reconcile \/ NextBody
  <2>1. PICK ids, end, known, latest : Settle(ids, end, known, latest)
    BY <1>11 DEF Reconcile, NextBody
  <2> QED
    BY <1>4, <2>1, SettleFields, AsleepFields DEF SameGroups
<1>12. CASE Check
  <2>1. /\ session.at = "check" /\ Delivering /\ SameShipment(session', session)
        /\ session'.wanted = session.wanted /\ session'.group = session.group
    BY <1>1, <1>12, CheckFields DEF Delivering
  <2>2. CASE session.wanted \ stored = {}
    <3>1. LET next == Returns({}, FALSE)
          IN  /\ session'.at \in {"confirm", "next"}
              /\ session'.groups = next.groups /\ session'.suspects = next.suspects
              /\ session'.out = next.out
      BY <1>1, <1>12, <2>2, CheckFields
    <3> QED
      BY <1>2, <1>7, <2>1, <3>1 DEF SameShipment
  <2>3. CASE session.wanted \ stored # {}
    <3>1. /\ session'.at \in {"prepare", "wait"}
          /\ session'.isolating = session.isolating /\ session'.groups = session.groups
          /\ session'.suspects = session.suspects /\ session'.out = session.out
      BY <1>1, <1>12, <2>3, CheckFields
    <3> QED
      BY <2>1, <3>1 DEF SameShipment, GroupsAreApart, Delivering
  <2> QED
    BY <2>2, <2>3
<1>13. CASE Poll \/ Elapse \/ SlowWrite
  <2>1. PICK at \in {"check", "prepare"} : session' = [session EXCEPT !.at = at]
    BY <1>13 DEF Poll, Elapse, SlowWrite, Goes
  <2>2. session'.at = at /\ Same /\ session'.wanted = session.wanted
    BY <1>1, <2>1, GoesFields DEF SameShipment, SameDelivery
  <2> QED
    BY <1>6, <1>13, <2>2 DEF Poll, Elapse, SlowWrite, SessionStep, Delivering
<1>14. CASE Stuck
  <2>1. Delivering /\ session' = Returns(session.missing, FALSE)
    BY <1>14 DEF Stuck, SessionStep, Delivering
  <2>2. session'.at \in {"confirm", "next"} /\ SameShipment(session', session)
    BY <1>1, <1>2, <2>1, ReturnsLeave
  <2> QED
    BY <1>2, <1>7, <2>1, <2>2 DEF SameShipment
<1>15. CASE Prepare
  <2> DEFINE deleted == session.missing \ session.known
  <2>1. /\ session.at = "prepare" /\ Delivering /\ session'.ids = session.ids \ deleted
        /\ session'.known = session.known /\ session'.group = session.group
        /\ session'.missing = session.missing \ deleted
    BY <1>1, <1>15, PrepareFields DEF Delivering
  <2>2. CASE session'.at = "post"
    <3>1. /\ session'.wanted = session.wanted \ deleted
          /\ session'.isolating = session.isolating /\ session'.groups = session.groups
          /\ session'.suspects = session.suspects /\ session'.out = session.out
      BY <1>1, <1>15, <2>2, PrepareFields
    <3> QED
      BY <2>1, <2>2, <3>1 DEF GroupsAreApart, Delivering
  <2>3. CASE session'.at # "post"
    <3>1. LET next == Returns({}, FALSE)
          IN  /\ session'.at \in {"confirm", "next"}
              /\ session'.groups = next.groups /\ session'.suspects = next.suspects
              /\ session'.out = next.out
      BY <1>1, <1>15, <2>3, PrepareFields
    <3>2. session.ids \intersect session.known \subseteq session'.ids
      BY <2>1
    <3> HIDE DEF deleted
    <3> QED
      BY <1>2, <1>7, <2>1, <3>1, <3>2
  <2> QED
    BY <2>2, <2>3
<1>16. CASE Post
  <2>1. CASE session' = Asleep
    BY <1>5, <2>1
  <2>2. CASE session' # Asleep
    <3>1. /\ session.at = "post" /\ Same /\ session'.at = "posting"
          /\ session'.wanted = session.wanted /\ session'.missing = session.missing
      BY <1>1, <1>16, <2>2, PostFields DEF SameShipment
    <3> QED
      BY <1>6, <3>1 DEF Delivering
  <2> QED
    BY <2>1, <2>2
<1>17. CASE Answer
  <2>1. session.at = "posting" /\ Delivering /\ SameShipment(session', session) /\ session'.wanted = session.wanted
    BY <1>1, <1>17, AnswerFields DEF Delivering
  <2>2. CASE net.answer = "rejected"
    <3>1. session' = Returns({}, TRUE) /\ session'.at \in {"confirm", "next"}
      BY <1>1, <1>17, <2>2, AnswerFields
    <3>2. session.posted \subseteq session.wanted
      BY <1>1, <1>2, <2>1 DEF DeliveryIsComplete
    <3> QED
      BY <1>2, <1>7, <2>1, <3>1, <3>2 DEF SameShipment
  <2>3. CASE net.answer # "rejected"
    <3>1. SameGroups(session', session) /\ session'.at \in {"check", "unpend"}
      BY <1>1, <1>17, <2>3, AnswerFields
    <3> QED
      BY <1>6, <2>1, <3>1 DEF SameShipment, Delivering
  <2> QED
    BY <2>2, <2>3
<1>18. CASE Unpend \/ Confirm
  <2>1. PICK at \in {"paused", "open"} : \E l :
          \/ session' = [Asleep EXCEPT !.at = at, !.stale = session.stale]
          \/ session' = [Asleep EXCEPT !.at = at, !.launch = l, !.stale = session.stale]
    BY <1>18 DEF Unpend, Confirm
  <2>2. session'.at = at /\ SameGroups(session', Asleep)
    BY <2>1 DEF SameGroups, Asleep
  <2> QED
    BY <1>4, <2>2, AsleepFields DEF SameGroups, Delivering
<1>19. CASE NextGroup
  <2> DEFINE group == Head(session.groups)
             rest == Tail(session.groups)
  <2>1. /\ session.at = "next" /\ session.groups # <<>> /\ session'.at = "check"
        /\ session'.ids = session.ids /\ session'.known = session.known
        /\ session'.wanted = group /\ session'.group = group /\ session'.groups = rest
        /\ session'.isolating = session.isolating /\ session'.suspects = session.suspects
        /\ session'.out = session.out
    BY <1>1, <1>19, NextGroupFields DEF SameShipment
  <2>2. /\ Apart(rest) /\ group \intersect IdsOf(rest) = {}
        /\ group \subseteq IdsOf(session.groups) /\ IdsOf(rest) \subseteq IdsOf(session.groups)
    BY <1>2, <2>1, ApartTail DEF GroupsAreApart
  <2> HIDE DEF group, rest
  <2> QED
    BY <2>1, <2>2 DEF GroupsAreApart, Delivering
<1>20. CASE RoundEnds
  <2> DEFINE again == SubSeq(session.suspects, session.proved + 1, Len(session.suspects))
  <2>1. /\ session'.at \in {"confirm", "next"}
        /\ session'.ids = session.ids \ GivenUp /\ session'.groups = again
        /\ session'.out = {} /\ session'.suspects = <<>> /\ session'.known = session.known
    BY <1>1, <1>20, RoundEndsFields
  <2>2. /\ Apart(again) /\ IdsOf(again) \subseteq IdsOf(session.suspects)
        /\ IdsOf(again) \intersect Suspected(session.proved) = {}
    BY <1>2, SuspectsApart DEF GroupsAreApart
  <2> HIDE DEF again
  <2>3. IdsOf(again) \intersect GivenUp = {}
    BY <2>2 DEF GivenUp, GroupsAreApart
  <2> QED
    BY <2>1, <2>2, <2>3, ApartNone, IdsOfNone DEF GroupsAreApart, Delivering
<1>21. CASE Serves \/ Unhealthy \/ Noticed
  <2>1. PICK l : Retarget(l)
    BY <1>21 DEF Serves, Unhealthy, Noticed
  <2>2. CASE session' # Asleep
    <3>1. /\ session'.at = session.at /\ Same /\ session'.wanted = session.wanted
          /\ session'.missing = session.missing
      BY <1>1, <2>1, <2>2, RetargetFields DEF SameShipment, SameDelivery
    <3> QED
      BY <1>6, <3>1 DEF Delivering
  <2> QED
    BY <1>5, <2>2
<1> QED
  BY <1>3, <1>5, <1>10, <1>11, <1>12, <1>13, <1>14, <1>15, <1>16, <1>17, <1>18, <1>19, <1>20, <1>21
     DEF LogForwarderNext, Forward, Carries, Stores, Owns, Troubles, Interrupt, Arrive, Vanish,
         Unheard, Store, Drop, Relaunch, OwnerStarts, TurnedAway, AnswerLost, Exit, OwnerCrashes, Retire

-----------------------------------------------------------------------------
(* The windows.                                                            *)

LEMMA InOutstanding ==
  ASSUME LogForwarderTypeOK
  PROVE  /\ \A b : b \in Outstanding <=> b \in queue \/ (net # NoPost /\ b = Batch(net))
         /\ Batch(net).launch = net.launch /\ Batch(net).ids = net.ids
         /\ \A b \in Outstanding : b.launch \in Launches \union {None} /\ b.ids \in Ids
<1>1. \A b : b \in Outstanding <=> b \in queue \/ (net # NoPost /\ b = Batch(net))
  BY DEF Outstanding
<1>2. Batch(net).launch = net.launch /\ Batch(net).ids = net.ids
  BY DEF Batch
<1>3. net.launch \in Launches \union {None} /\ net.ids \in Ids
  BY DEF LogForwarderTypeOK
<1>4. \A b \in queue : b.launch \in Launches /\ b.ids \in Ids
  BY DEF LogForwarderTypeOK
<1> QED
  BY <1>1, <1>2, <1>3, <1>4

\* A batch that may still be stored went to a launch that ran.
LEMMA UnstoredIsOnRecord ==
  ASSUME LogForwarderTypeOK, LaunchesInOrder, PostsAreOnRecord,
         NEW b \in Outstanding, ~(b.ids \subseteq stored)
  PROVE  /\ cursor.pending # NoPending /\ b.launch = cursor.pending.launch
         /\ b.ids \ stored \subseteq cursor.pending.ids /\ b.launch # None
<1>1. b.launch = cursor.pending.launch /\ b.ids \ stored \subseteq cursor.pending.ids /\ b.ids \ stored # {}
  BY DEF PostsAreOnRecord
<1>2. NoPending.ids = {}
  BY DEF NoPending
<1>3. cursor.pending # NoPending
  BY <1>1, <1>2
<1>4. cursor.pending.launch \in 1..launch /\ launch \in Nat
  BY <1>3 DEF LaunchesInOrder, LogForwarderTypeOK, Launches
<1> QED
  BY <1>1, <1>3, <1>4 DEF None

\* Nothing outstanding is left of a launch that is quiet.
LEMMA QuietIsOver ==
  ASSUME LogForwarderTypeOK, NEW l, Quiet(l), NEW b \in Outstanding
  PROVE  b.launch # l
BY InOutstanding DEF Quiet

\* The window of the latest post, when another launch has it, ends with nothing of
\* it outstanding: it went to none, to an ended launch, or to another owner's.
LEMMA WindowIsOver ==
  ASSUME LogForwarderTypeOK, LaunchesInOrder, WindowsHold, Elapse, NEW b \in Outstanding
  PROVE  b.launch # session.latest
<1>1. /\ session.at = "wait" /\ session.latest # session.launch /\ Drained(session.latest)
      /\ session.latest # None
  BY DEF Elapse, SessionStep, WindowsHold
<1>2. session.latest \in Launches \union {0}
  BY <1>1, SessionTyped
<1>3. /\ session.launch <= launch /\ session.latest <= session.launch
      /\ \A l \in alive : l >= own => l = launch
      /\ launch \in Nat /\ session.launch \in Nat /\ own \in Nat /\ Launches \subseteq Nat /\ 0 \notin Launches
  BY <1>1 DEF LaunchesInOrder, LogForwarderTypeOK, Launches
<1>4. CASE session.latest = 0
  BY <1>3, <1>4, InOutstanding DEF None
<1>5. CASE session.latest \in Launches
  <2>1. Quiet(session.latest)
    <3>1. CASE session.latest >= own
      <4>1. session.latest \notin alive
        BY <1>1, <1>2, <1>3, <1>5, <3>1
      <4>2. FlushWindow(session.latest)
        BY <1>1, <3>1 DEF Drained
      <4> QED
        BY <1>5, <4>1, <4>2 DEF FlushWindow
    <3>2. CASE ~(session.latest >= own)
      BY <1>1, <1>3, <1>5, <3>2 DEF Drained, StuckWindow
    <3> QED
      BY <3>1, <3>2
  <2> QED
    BY <2>1, QuietIsOver
<1> QED
  BY <1>2, <1>4, <1>5

\* What the windows are about.
Watched(s, t) ==
  s.at = t.at /\ SameShipment(s, t) /\ s.wanted = t.wanted /\ s.missing = t.missing /\ s.latest = t.latest

\* What is outstanding may be stored or dropped at any instant.
LEMMA WindowsFade ==
  ASSUME WindowsInv, Watched(session', session), cursor' = cursor,
         Outstanding' \subseteq Outstanding, stored \subseteq stored',
         net' # NoPost /\ net'.answer \notin {"sent", "unsettled"} => Batch(net)' \notin queue',
         session.at = "posting" =>
           net' # NoPost /\ net'.launch = net.launch /\ net'.ids = net.ids
  PROVE  WindowsInv'
<1>1. /\ session'.at = session.at /\ session'.wanted = session.wanted
      /\ session'.missing = session.missing /\ session'.latest = session.latest
      /\ session'.launch = session.launch /\ session'.ids = session.ids /\ session'.end = session.end
  BY DEF Watched, SameShipment
<1>2. NothingIsQueuedTwice'
  BY DEF WindowsInv, NothingIsQueuedTwice
<1>3. PostsAreOnRecord'
  <2> SUFFICES ASSUME NEW b \in Outstanding', b.ids \ stored' # {}
               PROVE  b.launch = cursor.pending.launch /\ b.ids \ stored' \subseteq cursor.pending.ids
    BY DEF PostsAreOnRecord
  <2>1. b \in Outstanding /\ b.ids \ stored # {}
    OBVIOUS
  <2> QED
    BY <2>1 DEF WindowsInv, PostsAreOnRecord
<1>4. PostIsOnRecord'
  BY <1>1 DEF WindowsInv, PostIsOnRecord
<1>5. WindowsHold'
  <2>1. session.at = "posting" => Batch(net)' = Batch(net)
    BY DEF Batch
  <2>2. ASSUME NEW b \in Outstanding'
        PROVE  /\ session.at \in {"next", "confirm", "unpend", "prepare", "post"} => b.ids \subseteq stored'
               /\ session.at \in {"prepare", "post"} => b.ids \intersect session.missing = {}
               /\ session.at \in {"check", "wait"} =>
                    b.ids \subseteq stored' \/ (b.launch = session.latest /\ b.ids \ stored' \subseteq session.wanted)
               /\ session.at = "wait" => (b.ids \intersect session.missing # {} => b.launch = session.latest)
               /\ session.at = "posting" => b.ids \subseteq stored' \/ b = Batch(net)
    <3>1. b \in Outstanding
      OBVIOUS
    <3> QED
      BY <3>1 DEF WindowsInv, WindowsHold
  <2> QED
    BY <1>1, <2>1, <2>2 DEF WindowsInv, WindowsHold
<1> QED
  BY <1>2, <1>3, <1>4, <1>5 DEF WindowsInv

\* Analytics and the network add nothing to what is outstanding.
LEMMA CarriedIsWatched ==
  ASSUME LogForwarderTypeOK, WindowsInv,
         Arrive \/ TurnedAway \/ AnswerLost \/ Vanish \/ Unheard \/ \E b \in queue : Store(b) \/ Drop(b)
  PROVE  WindowsInv'
<1>1. session' = session /\ cursor' = cursor
  BY DEF Arrive, TurnedAway, AnswerLost, Vanish, Unheard, Store, Drop
<1>2. stored \subseteq stored'
  BY DEF Arrive, TurnedAway, AnswerLost, Vanish, Unheard, Store, Drop, taken
<1>3. NoPost.answer = "none" /\ NoPost.launch = None
  BY DEF NoPost
<1>4. net \in [launch : Launches \union {None}, ids : Ids,
               answer : {"none", "sent", "unsettled", "failed", "refused", "rejected"}]
  BY DEF LogForwarderTypeOK
<1>5. None \notin Launches
  BY LogForwarderAssumption DEF None, Launches
<1>6. /\ Outstanding' \subseteq Outstanding
      /\ net' # NoPost /\ net'.answer \notin {"sent", "unsettled"} => Batch(net)' \notin queue'
      /\ session.at = "posting" =>
           net' # NoPost /\ net'.launch = net.launch /\ net'.ids = net.ids
  <2>1. CASE Arrive
    <3>1. net # NoPost
      BY <1>3, <1>5, <2>1 DEF Arrive, LogForwarderTypeOK
    <3>2. /\ net'.launch = net.launch /\ net'.ids = net.ids /\ net'.answer \in {"sent", "rejected"}
          /\ queue \subseteq queue' /\ queue' \subseteq queue \union {Batch(net)}
          /\ net'.answer = "rejected" => queue' = queue
      BY <1>4, <2>1 DEF Arrive
    <3>3. Batch(net)' = Batch(net) /\ net' # NoPost
      BY <1>3, <3>2 DEF Batch
    <3>4. \A b : b \in Outstanding' <=> b \in queue' \/ b = Batch(net)
      BY <3>3 DEF Outstanding
    <3>5. Outstanding' \subseteq Outstanding
      BY <3>1, <3>2, <3>4, InOutstanding
    <3>6. Batch(net) \notin queue
      BY <2>1, <3>1 DEF WindowsInv, PostIsOnRecord, Arrive
    <3> QED
      BY <3>1, <3>2, <3>3, <3>5, <3>6
  <2>2. CASE TurnedAway \/ AnswerLost \/ Vanish
    <3>1. /\ net # NoPost /\ net'.launch = net.launch /\ net'.ids = net.ids /\ queue' = queue
          /\ net'.answer \in {"refused", "failed", "unsettled"}
          /\ net'.answer # "unsettled" => net.answer = "none"
      BY <1>3, <1>4, <2>2 DEF TurnedAway, AnswerLost, Vanish, taken
    <3>2. Batch(net)' = Batch(net) /\ net' # NoPost
      BY <1>3, <3>1 DEF Batch
    <3>3. \A b : b \in Outstanding' <=> b \in queue \/ b = Batch(net)
      BY <3>1, <3>2 DEF Outstanding
    <3>4. Outstanding' \subseteq Outstanding
      BY <3>1, <3>3, InOutstanding
    <3> QED
      BY <3>1, <3>2, <3>4 DEF WindowsInv, PostIsOnRecord
  <2>3. CASE Unheard
    <3>1. net' = NoPost /\ queue' = queue /\ session.at # "posting"
      BY <2>3 DEF Unheard, taken
    <3>2. Outstanding' = queue
      BY <3>1 DEF Outstanding
    <3> QED
      BY <3>1, <3>2, InOutstanding
  <2>4. CASE \E b \in queue : Store(b) \/ Drop(b)
    <3>1. net' = net /\ queue' \subseteq queue
      BY <2>4 DEF Store, Drop
    <3>2. Batch(net)' = Batch(net)
      BY <3>1 DEF Batch
    <3>3. \A b : b \in Outstanding' <=> b \in queue' \/ (net # NoPost /\ b = Batch(net))
      BY <3>1, <3>2 DEF Outstanding
    <3> QED
      BY <3>1, <3>2, <3>3, InOutstanding DEF WindowsInv, PostIsOnRecord
  <2> QED
    BY <2>1, <2>2, <2>3, <2>4
<1>7. Watched(session', session)
  BY <1>1 DEF Watched, SameShipment
<1> QED
  BY <1>1, <1>2, <1>6, <1>7, WindowsFade

\* A session that starts again has nothing to wait for; one that goes on does when
\* all that is outstanding is stored.
LEMMA WindowsMove ==
  ASSUME LogForwarderTypeOK, WindowsInv, UNCHANGED <<queue, stored>>,
         net' = net \/ net' = NoPost,
         cursor'.pending = cursor.pending \/ cursor'.pending = NoPending,
         session'.at \notin {"prepare", "post", "posting"},
         session'.at \in {"check", "wait", "next", "confirm", "unpend"} \/ cursor'.pending # cursor.pending =>
           \A b \in Outstanding' : b.ids \subseteq stored,
         session'.at = "wait" => session'.latest # None /\ session'.missing \intersect stored = {}
  PROVE  WindowsInv'
<1>1. Outstanding' \subseteq Outstanding
  <2>1. CASE net' = net
    BY <2>1 DEF Outstanding, Batch
  <2>2. CASE net' = NoPost
    <3>1. Outstanding' = queue
      BY <2>2 DEF Outstanding
    <3> QED
      BY <3>1, InOutstanding
  <2> QED
    BY <2>1, <2>2
<1>2. NothingIsQueuedTwice'
  BY <1>1 DEF WindowsInv, NothingIsQueuedTwice
<1>3. PostsAreOnRecord'
  <2> SUFFICES ASSUME NEW b \in Outstanding', b.ids \ stored # {}
               PROVE  b.launch = cursor'.pending.launch /\ b.ids \ stored \subseteq cursor'.pending.ids
    BY DEF PostsAreOnRecord
  <2> QED
    BY <1>1 DEF WindowsInv, PostsAreOnRecord
<1>4. PostIsOnRecord'
  <2>1. net' # NoPost => net' = net /\ Batch(net)' = Batch(net)
    BY DEF Batch
  <2> QED
    BY <2>1 DEF WindowsInv, PostIsOnRecord
<1>5. WindowsHold'
  BY DEF WindowsHold
<1> QED
  BY <1>2, <1>3, <1>4, <1>5 DEF WindowsInv

LEMMA WindowsStep ==
  ASSUME LogForwarderInv, LaunchesInOrder, GroupsAreApart, WindowsInv, LogForwarderNext
  PROVE  WindowsInv'
<1>1. LogForwarderTypeOK /\ DeliveryIsComplete
  BY DEF LogForwarderInv
<1>2. /\ session.missing \subseteq session.wanted /\ session.missing \in Ids /\ {} \in Ids
      /\ TRUE \in BOOLEAN /\ FALSE \in BOOLEAN
  BY <1>1, SessionTyped DEF Ids
<1> DEFINE Still == UNCHANGED <<net, queue, stored>>
<1>3. ASSUME Still
      PROVE  Outstanding' = Outstanding /\ Batch(net)' = Batch(net)
  BY <1>3 DEF Outstanding, Batch
<1>4. CASE Arrive \/ TurnedAway \/ AnswerLost \/ Vanish \/ Unheard \/ \E b \in queue : Store(b) \/ Drop(b)
  BY <1>1, <1>4, CarriedIsWatched
<1>5. ASSUME Still, cursor' = cursor, session'.at \in {"off", "open", "paused"}
      PROVE  WindowsInv'
  BY <1>1, <1>5, WindowsMove
<1>6. ASSUME Still, cursor' = cursor, Watched(session', session)
      PROVE  WindowsInv'
  BY <1>3, <1>6, WindowsFade DEF WindowsInv, PostIsOnRecord
<1>7. CASE session' = session /\ cursor' = cursor /\ Still
  BY <1>6, <1>7 DEF Watched, SameShipment
<1>8. CASE session' = Asleep /\ cursor' = cursor /\ Still
  BY <1>5, <1>8, AsleepFields
<1>9. \A b \in Outstanding : b.ids \subseteq stored \/
        /\ cursor.pending # NoPending /\ b.launch = cursor.pending.launch
        /\ b.ids \ stored \subseteq cursor.pending.ids /\ b.launch # None
  BY <1>1, UnstoredIsOnRecord DEF WindowsInv
<1>10. CASE Open
  BY <1>5, <1>10, OpenFields DEF Open, taken
<1>11. CASE Reconcile
  <2>1. /\ cursor.pending # NoPending /\ Still /\ cursor' = cursor
        /\ session'.at = "check" /\ session'.latest = cursor.pending.launch
        /\ session'.wanted = cursor.pending.ids
    BY <1>11, SettleFields DEF Reconcile, taken
  <2>2. Outstanding' = Outstanding /\ Batch(net)' = Batch(net)
    BY <1>3, <2>1
  <2>3. WindowsHold'
    BY <1>9, <2>1, <2>2 DEF WindowsHold
  <2> QED
    BY <2>1, <2>2, <2>3
       DEF WindowsInv, PostIsOnRecord, NothingIsQueuedTwice, PostsAreOnRecord
<1>12. CASE NextBody
  <2>1. PICK ids, end : Settle(ids, end, ids, None)
    BY <1>12 DEF NextBody
  <2>2. /\ cursor.pending = NoPending /\ Still /\ cursor' = cursor /\ session'.at = "check"
    BY <1>12, <2>1, SettleFields DEF NextBody, taken
  <2>3. \A b \in Outstanding' : b.ids \subseteq stored
    BY <1>3, <1>9, <2>2
  <2> QED
    BY <1>1, <2>2, <2>3, WindowsMove
<1>13. CASE Check
  <2>1. /\ session.at = "check" /\ Still /\ cursor' = cursor /\ session'.latest = session.latest
        /\ session'.wanted = session.wanted
    BY <1>1, <1>13, CheckFields DEF Check, taken
  <2>2. \A b \in Outstanding :
          b.ids \subseteq stored \/ (b.launch = session.latest /\ b.ids \ stored \subseteq session.wanted)
    BY <2>1 DEF WindowsInv, WindowsHold
  <2>3. CASE session.wanted \ stored = {}
    <3>1. session'.at \in {"confirm", "next"}
      BY <1>1, <1>13, <2>3, CheckFields
    <3>2. \A b \in Outstanding' : b.ids \subseteq stored
      BY <1>3, <2>1, <2>2, <2>3
    <3> QED
      BY <1>1, <2>1, <3>1, <3>2, WindowsMove
  <2>4. CASE session.wanted \ stored # {}
    <3>1. /\ session'.missing = session.wanted \ stored
          /\ session'.at = IF session.latest = None THEN "prepare" ELSE "wait"
      BY <1>1, <1>13, <2>4, CheckFields
    <3>2. Outstanding' = Outstanding /\ Batch(net)' = Batch(net)
      BY <1>3, <2>1
    <3>3. session.latest = None => \A b \in Outstanding : b.ids \subseteq stored
      BY <1>9, <2>2
    <3>4. WindowsHold'
      BY <2>1, <2>2, <3>1, <3>2, <3>3 DEF WindowsHold
    <3> QED
      BY <2>1, <3>1, <3>2, <3>4
         DEF WindowsInv, PostIsOnRecord, NothingIsQueuedTwice, PostsAreOnRecord
  <2> QED
    BY <2>3, <2>4
<1>14. CASE Poll
  <2>1. session' = [session EXCEPT !.at = "check"]
    BY <1>14 DEF Poll, Goes
  <2>2. /\ session.at = "wait" /\ Still /\ cursor' = cursor /\ session'.at = "check"
        /\ session'.latest = session.latest /\ session'.wanted = session.wanted
    BY <1>1, <1>14, <2>1, GoesFields DEF Poll, SessionStep, SameDelivery, taken
  <2>3. Outstanding' = Outstanding /\ Batch(net)' = Batch(net)
    BY <1>3, <2>2
  <2>4. WindowsHold'
    BY <2>2, <2>3 DEF WindowsInv, WindowsHold
  <2> QED
    BY <2>2, <2>3, <2>4
       DEF WindowsInv, PostIsOnRecord, NothingIsQueuedTwice, PostsAreOnRecord
<1>15. CASE Stuck
  <2>1. /\ session.at = "wait" /\ Still /\ cursor' = cursor /\ Quiet(session.latest)
        /\ session' = Returns(session.missing, FALSE)
    BY <1>15 DEF Stuck, SessionStep, StuckWindow, taken
  <2>2. session'.at \in {"confirm", "next"}
    BY <1>1, <1>2, <2>1, ReturnsLeave
  <2>3. \A b \in Outstanding' : b.ids \subseteq stored
    BY <1>1, <1>3, <2>1, QuietIsOver DEF WindowsInv, WindowsHold
  <2> QED
    BY <1>1, <2>1, <2>2, <2>3, WindowsMove
<1>16. CASE Elapse
  <2>1. session' = [session EXCEPT !.at = "prepare"]
    BY <1>16 DEF Elapse, Goes
  <2>2. /\ session.at = "wait" /\ Still /\ cursor' = cursor /\ session'.at = "prepare"
        /\ session'.missing = session.missing
    BY <1>1, <1>16, <2>1, GoesFields DEF Elapse, SessionStep, SameDelivery, taken
  <2>3. Outstanding' = Outstanding /\ Batch(net)' = Batch(net)
    BY <1>3, <2>2
  <2>4. \A b \in Outstanding : b.ids \subseteq stored /\ b.ids \intersect session.missing = {}
    BY <1>1, <1>16, <2>2, WindowIsOver DEF WindowsInv, WindowsHold
  <2>5. WindowsHold'
    BY <2>2, <2>3, <2>4 DEF WindowsHold
  <2> QED
    BY <2>2, <2>3, <2>5
       DEF WindowsInv, PostIsOnRecord, NothingIsQueuedTwice, PostsAreOnRecord
<1>17. CASE Prepare
  <2>1. /\ session.at = "prepare" /\ Still /\ session'.missing \subseteq session.missing
    BY <1>1, <1>17, PrepareFields DEF Prepare, taken
  <2>2. Outstanding' = Outstanding /\ Batch(net)' = Batch(net)
    BY <1>3, <2>1
  <2>3. \A b \in Outstanding : b.ids \subseteq stored /\ b.ids \intersect session.missing = {}
    BY <2>1 DEF WindowsInv, WindowsHold
  <2>4. CASE session'.at = "post"
    <3>1. /\ session'.missing # {}
          /\ cursor'.pending = [end |-> session'.end, ids |-> session'.ids, launch |-> session'.launch]
      BY <1>1, <1>17, <2>4, PrepareFields
    <3>2. WindowsHold'
      BY <2>1, <2>2, <2>3, <2>4 DEF WindowsHold
    <3>3. PostsAreOnRecord'
      BY <2>1, <2>2, <2>3 DEF PostsAreOnRecord
    <3>4. PostIsOnRecord'
      BY <2>1, <2>2, <2>4, <3>1 DEF WindowsInv, PostIsOnRecord
    <3> QED
      BY <2>2, <3>2, <3>3, <3>4 DEF WindowsInv, NothingIsQueuedTwice
  <2>5. CASE session'.at # "post"
    <3>1. cursor' = cursor /\ session'.at \in {"confirm", "next"}
      BY <1>1, <1>17, <2>5, PrepareFields
    <3> QED
      BY <1>1, <2>1, <2>2, <2>3, <3>1, WindowsMove
  <2> QED
    BY <2>4, <2>5
<1>18. CASE Post
  <2>1. session.at = "post" /\ UNCHANGED <<cursor, queue, stored>>
    BY <1>18 DEF Post, SessionStep, taken
  <2>2. CASE session' = Asleep
    <3>1. net' = net
      BY <1>1, <1>18, <2>2, PostFields, AsleepFields
    <3> QED
      BY <1>8, <2>1, <2>2, <3>1
  <2>3. CASE session' # Asleep
    <3> DEFINE post == [launch |-> session.launch, ids |-> session.missing, answer |-> "none"]
               batch == [launch |-> session.launch, ids |-> session.missing]
    <3>1. /\ net = NoPost /\ net' = post /\ session'.at = "posting"
          /\ session'.launch = session.launch /\ session'.missing = session.missing
          /\ session'.end = session.end /\ session'.ids = session.ids
      BY <1>1, <1>18, <2>3, PostFields DEF SameShipment
    <3>2. /\ session.missing # {} /\ session.missing \subseteq session.ids
          /\ cursor.pending = [end |-> session.end, ids |-> session.ids, launch |-> session.launch]
      <4>1. /\ session.missing # {}
            /\ cursor.pending = [end |-> session.end, ids |-> session.ids, launch |-> session.launch]
        BY <2>1 DEF WindowsInv, PostIsOnRecord
      <4>2. session.missing \subseteq session.ids
        BY <1>2, <2>1 DEF GroupsAreApart, Delivering
      <4> QED
        BY <4>1, <4>2
    <3>3. post.launch = session.launch /\ post.ids = session.missing /\ post.answer = "none"
      OBVIOUS
    <3>4. batch.launch = session.launch /\ batch.ids = session.missing
      OBVIOUS
    <3>5. Batch(net)' = batch
      BY <3>1 DEF Batch
    <3>6. cursor.pending.launch = session.launch /\ cursor.pending.ids = session.ids
      BY <3>2
    <3>7. \A b \in queue : b.ids \subseteq stored /\ b.ids \intersect session.missing = {}
      BY <1>1, <2>1, InOutstanding DEF WindowsInv, WindowsHold
    <3> HIDE DEF post, batch
    <3>8. net' # NoPost
      <4>1. session.at \notin {"off", "paused"}
        BY <2>1
      <4>2. session.launch \in Launches /\ None \notin Launches
        BY <4>1, LogForwarderAssumption DEF LaunchesInOrder, None, Launches
      <4> QED
        BY <3>1, <3>3, <4>2 DEF NoPost
    <3>9. \A b : b \in Outstanding' <=> b \in queue \/ b = batch
      BY <2>1, <3>5, <3>8 DEF Outstanding
    <3>10. NothingIsQueuedTwice'
      <4> SUFFICES ASSUME NEW b \in Outstanding', NEW d \in Outstanding', b # d
                   PROVE  b.ids \intersect d.ids = {}
        BY DEF NothingIsQueuedTwice
      <4>1. CASE b \in queue /\ d \in queue
        BY <1>1, <4>1, InOutstanding DEF WindowsInv, NothingIsQueuedTwice
      <4> QED
        BY <3>4, <3>7, <3>9, <4>1
    <3>11. PostsAreOnRecord'
      BY <2>1, <3>2, <3>4, <3>6, <3>7, <3>9 DEF PostsAreOnRecord
    <3>12. PostIsOnRecord'
      <4>1. Batch(net)' \notin queue
        BY <3>2, <3>4, <3>5, <3>7
      <4> QED
        BY <2>1, <3>1, <3>2, <3>3, <3>8, <4>1 DEF PostIsOnRecord
    <3>13. WindowsHold'
      BY <2>1, <3>1, <3>5, <3>7, <3>9 DEF WindowsHold
    <3> QED
      BY <3>10, <3>11, <3>12, <3>13 DEF WindowsInv
  <2> QED
    BY <2>2, <2>3
<1>19. CASE Answer
  <2>1. /\ session.at = "posting" /\ net' = NoPost /\ UNCHANGED <<cursor, queue, stored>>
        /\ session'.wanted = session.wanted /\ net.answer \notin {"none"}
    BY <1>1, <1>19, AnswerFields DEF Answer, SessionStep, taken
  <2>2. Outstanding' = queue
    BY <2>1 DEF Outstanding
  <2>3. /\ net # NoPost /\ net.launch = session.launch /\ net.ids = session.missing
        /\ \A b \in queue : b.ids \subseteq stored \/ b = Batch(net)
    BY <1>1, <2>1, InOutstanding DEF WindowsInv, PostIsOnRecord, WindowsHold
  <2>4. CASE net.answer \in {"sent", "unsettled"}
    <3>1. session'.at = "check" /\ session'.latest = session.launch
      BY <1>1, <1>19, <2>4, AnswerFields
    <3>2. \A b \in queue : b.ids \subseteq stored \/ (b.launch = session.launch /\ b.ids \subseteq session.wanted)
      BY <1>1, <1>2, <2>3, InOutstanding
    <3>3. WindowsHold'
      BY <2>1, <2>2, <3>1, <3>2 DEF WindowsHold
    <3>4. queue \subseteq Outstanding
      BY <1>1, InOutstanding
    <3>5. NothingIsQueuedTwice' /\ PostsAreOnRecord'
      BY <2>1, <2>2, <3>4 DEF WindowsInv, NothingIsQueuedTwice, PostsAreOnRecord
    <3>6. PostIsOnRecord'
      BY <2>1, <3>1 DEF PostIsOnRecord
    <3> QED
      BY <3>3, <3>5, <3>6 DEF WindowsInv
  <2>5. CASE net.answer \notin {"sent", "unsettled"}
    <3>1. \A b \in queue : b.ids \subseteq stored
      BY <2>3, <2>5 DEF WindowsInv, PostIsOnRecord
    <3>2. session'.at \in {"check", "unpend", "confirm", "next"}
      BY <1>1, <1>19, <2>5, AnswerFields
    <3> QED
      BY <1>1, <2>1, <2>2, <3>1, <3>2, WindowsMove
  <2> QED
    BY <2>4, <2>5
<1>20. CASE Unpend \/ Confirm
  <2>1. /\ session.at \in {"unpend", "confirm"} /\ Still /\ cursor'.pending = NoPending
        /\ session'.at \in {"paused", "open"}
    <3>1. CASE Unpend
      BY <1>1, <3>1 DEF Unpend, SessionStep, taken, Asleep, LogForwarderTypeOK
    <3>2. CASE Confirm
      <4>1. cursor'.pending = NoPending /\ Still
        BY <3>2 DEF Confirm, taken
      <4>2. session.at = "confirm" /\ session'.at = "open"
        BY <3>2 DEF Confirm, SessionStep, Asleep
      <4> QED
        BY <4>1, <4>2
    <3> QED
      BY <1>20, <3>1, <3>2
  <2>2. \A b \in Outstanding' : b.ids \subseteq stored
    BY <1>3, <2>1 DEF WindowsInv, WindowsHold
  <2> QED
    BY <1>1, <2>1, <2>2, WindowsMove
<1>21. CASE NextGroup \/ RoundEnds \/ SlowWrite
  <2>1. /\ session.at \in {"next", "post"} /\ Still /\ cursor' = cursor
        /\ session'.at \in {"check", "next", "confirm"}
    <3>1. CASE NextGroup
      BY <1>1, <3>1, NextGroupFields DEF NextGroup, taken
    <3>2. CASE RoundEnds
      BY <1>1, <3>2, RoundEndsFields DEF RoundEnds, taken
    <3>3. CASE SlowWrite
      <4>1. session' = [session EXCEPT !.at = "check"]
        BY <3>3 DEF SlowWrite, Goes
      <4> QED
        BY <1>1, <3>3, <4>1, GoesFields DEF SlowWrite, SessionStep, taken
    <3> QED
      BY <1>21, <3>1, <3>2, <3>3
  <2>2. \A b \in Outstanding' : b.ids \subseteq stored
    BY <1>3, <2>1 DEF WindowsInv, WindowsHold
  <2> QED
    BY <1>1, <2>1, <2>2, WindowsMove
<1>22. CASE Serves \/ Unhealthy \/ Noticed
  <2>1. PICK l : Retarget(l)
    BY <1>22 DEF Serves, Unhealthy, Noticed
  <2>2. Still /\ cursor' = cursor
    BY <1>22 DEF Serves, Unhealthy, Noticed, taken
  <2>3. CASE session' # Asleep
    <3>1. Watched(session', session)
      BY <1>1, <2>1, <2>3, RetargetFields DEF Watched, SameDelivery
    <3> QED
      BY <1>6, <2>2, <3>1
  <2> QED
    BY <1>8, <2>2, <2>3
<1>23. CASE Interrupt \/ OwnerCrashes
  BY <1>8, <1>23 DEF Interrupt, OwnerCrashes, taken
<1>24. CASE Relaunch \/ OwnerStarts \/ Retire \/ \E l \in alive : Exit(l)
  BY <1>7, <1>24 DEF Relaunch, OwnerStarts, Retire, Exit, taken
<1> QED
  BY <1>4, <1>10, <1>11, <1>12, <1>13, <1>14, <1>15, <1>16, <1>17, <1>18, <1>19, <1>20, <1>21, <1>22,
     <1>23, <1>24 DEF LogForwarderNext, Forward, Carries, Stores, Owns, Troubles

-----------------------------------------------------------------------------
(* What is given up.                                                       *)

\* A part of a group of one is the group.
LEMMA GroupOfOne ==
  ASSUME NEW group \in Ids, Cardinality(group) = 1, NEW part, part \subseteq group, part # {}
  PROVE  part = group
<1>1. IsFiniteSet(group)
  <2>1. IsFiniteSet(1..NumEvents)
    BY LogForwarderAssumption, FS_Interval
  <2> QED
    BY <2>1, FS_Subset DEF Ids, Events
<1>2. PICK e : group = {e}
  BY <1>1, FS_Singleton
<1> QED
  BY <1>2

\* Only what Analytics leaves unstored of a group of one becomes a suspect.
LEMMA ReturnsSuspects ==
  ASSUME LogForwarderTypeOK, NEW left \in Ids, NEW rejected \in BOOLEAN
  PROVE  LET next == Returns(left, rejected)
             single == session.isolating /\ Cardinality(session.group) = 1
         IN  /\ next.out = IF rejected /\ single THEN session.out \union session.group ELSE session.out
             /\ next.suspects = IF ~rejected /\ left # {} /\ single
                                THEN Append(session.suspects, session.group) ELSE session.suspects
<1> DEFINE next == Returns(left, rejected)
<1>1. session \in Session
  BY SessionTyped
<1>2. CASE ~session.isolating
  <2>1. next.suspects = session.suspects /\ next.out = session.out
    <3>1. CASE ~rejected /\ left = {}
      <4>1. next = [session EXCEPT !.at = "confirm"]
        BY <1>2, <3>1 DEF Returns
      <4> QED
        BY <1>1, <4>1 DEF Session
    <3>2. CASE rejected \/ left # {}
      <4> DEFINE halves == Halves(IF rejected THEN session.posted ELSE left)
      <4>1. next = [session EXCEPT !.at = "next", !.isolating = TRUE, !.groups = halves]
        BY <1>2, <3>2 DEF Returns
      <4> HIDE DEF halves
      <4> QED
        BY <1>1, <4>1 DEF Session
    <3> QED
      BY <3>1, <3>2
  <2> HIDE DEF next
  <2> QED
    BY <1>2, <2>1 DEF next
<1>3. CASE session.isolating
  <2> DEFINE single == Cardinality(session.group) = 1
             out == IF rejected /\ single THEN session.out \union session.group ELSE session.out
             suspects == IF ~rejected /\ left # {} /\ single THEN Append(session.suspects, session.group)
                         ELSE session.suspects
             groups == IF single \/ (~rejected /\ left = {}) THEN session.groups
                       ELSE Halves(IF rejected THEN session.group ELSE left) \o session.groups
  <2>1. next = [session EXCEPT !.at = "next", !.out = out, !.suspects = suspects, !.groups = groups]
    BY <1>3 DEF Returns
  <2>2. next.suspects = suspects /\ next.out = out
    <3> HIDE DEF out, suspects, groups
    <3> QED
      BY <1>1, <2>1 DEF Session
  <2> HIDE DEF next
  <2> QED
    BY <1>3, <2>2 DEF next
<1> QED
  BY <1>2, <1>3

\* A suspect more changes nothing about those that were proved.
LEMMA SuspectsGrow ==
  ASSUME LogForwarderTypeOK,
         session'.suspects = Append(session.suspects, session.group),
         session'.proved = session.proved
  PROVE  /\ Suspected(session.proved)' = Suspected(session.proved)
         /\ IdsOf(session.suspects)' = IdsOf(session.suspects) \union session.group
<1>1. session.suspects \in Seq(Ids) /\ session.group \in Ids /\ session.proved \in 0..Len(session.suspects)
  BY SessionTyped
<1>2. \A i \in 1..Len(session.suspects) : session'.suspects[i] = session.suspects[i]
  BY <1>1
<1>3. \A i \in 1..session.proved : i \in 1..Len(session.suspects)
  BY <1>1
<1>4. \A i \in 1..session.proved : session'.suspects[i] = session.suspects[i]
  BY <1>2, <1>3
<1>5. \A e : e \in Suspected(session.proved) <=> \E i \in 1..session.proved : e \in session.suspects[i]
  BY Zenon DEF Suspected
<1>6. \A e : e \in Suspected(session.proved)' <=> \E i \in 1..session'.proved : e \in session'.suspects[i]
  BY Zenon DEF Suspected
<1>7. Suspected(session.proved)' = Suspected(session.proved)
  BY <1>4, <1>5, <1>6
<1>8. IdsOf(session.suspects)' = IdsOf(session'.suspects)
  BY DEF IdsOf
<1>9. IdsOf(session'.suspects) = IdsOf(session.suspects) \union session.group
  BY <1>1, IdsOfAppend
<1> QED
  BY <1>7, <1>8, <1>9

LEMMA SuspectedNone ==
  /\ session.suspects = <<>> => IdsOf(session.suspects) = {}
  /\ session.proved = 0 => Suspected(session.proved) = {}
<1>1. \A e : e \in Suspected(session.proved) <=> \E i \in 1..session.proved : e \in session.suspects[i]
  BY Zenon DEF Suspected
<1>2. \A i \in 1..0 : FALSE
  OBVIOUS
<1> QED
  BY <1>1, <1>2, IdsOfNone

\* What Analytics and the network do to a suspect, and to a post of one event.
LEMMA CarriedAddsUp ==
  ASSUME LogForwarderInv, LaunchesInOrder, WindowsInv, GivingUpInv, session' = session,
         \/ Arrive \/ TurnedAway \/ AnswerLost \/ Vanish \/ Unheard \/ \E b \in queue : Store(b) \/ Drop(b)
         \/ UNCHANGED <<net, queue, stored, lost>> /\ alive' \subseteq alive \union {launch + 1}
  PROVE  SuspectsAreJust' /\ LonePostsAddUp'
<1> USE DEF LogForwarderInv, GivingUpInv
<1>1. /\ net \in [launch : Launches \union {None}, ids : Ids,
                  answer : {"none", "sent", "unsettled", "failed", "refused", "rejected"}]
      /\ queue \subseteq [launch : Launches, ids : Ids]
      /\ NoPost.answer = "none" /\ 0 \notin Launches /\ None \notin Launches
  BY LogForwarderAssumption DEF LogForwarderTypeOK, Launches, None, NoPost
<1>2. /\ stored \subseteq stored' /\ lost \subseteq lost'
      /\ alive' \subseteq alive \union {launch + 1}
  BY DEF Arrive, TurnedAway, AnswerLost, Vanish, Unheard, Store, Drop, taken, analytics
<1>3. Accounted \subseteq Accounted'
  BY <1>2 DEF Accounted
<1>4. session.at \notin {"off", "paused"} /\ session.launch \notin alive => session.launch \notin alive'
  <2>1. launch \in Nat
    BY DEF LogForwarderTypeOK, Launches
  <2>2. session.at \notin {"off", "paused"} => session.launch \in Nat /\ session.launch <= launch
    BY DEF LaunchesInOrder, Launches
  <2> QED
    BY <1>2, <2>1, <2>2
<1>5. ASSUME NEW b \in queue, b.launch # session.launch, ~(b.ids \subseteq stored),
             session.isolating, Delivering \/ session.at \in {"next", "confirm", "unpend"}
      PROVE  FALSE
  <2>1. b \in Outstanding /\ b.launch \in Launches
    BY <1>1, InOutstanding
  <2>2. session.at \in {"check", "wait"} /\ b.launch = session.latest
    <3>1. session.at = "posting" => b # Batch(net)
      BY <1>5, InOutstanding DEF WindowsInv, PostIsOnRecord
    <3> QED
      BY <1>5, <2>1, <3>1 DEF WindowsInv, WindowsHold, Delivering
  <2> QED
    BY <1>1, <1>5, <2>1, <2>2 DEF LonePostsAddUp, Delivering
<1>6. ASSUME stored' # stored
      PROVE  \E b \in queue : ~(b.ids \subseteq stored) /\ b.ids \intersect (stored \union Swallowed) = {}
  <2>1. PICK b \in queue : Store(b)
    BY <1>6 DEF Arrive, TurnedAway, AnswerLost, Vanish, Unheard, Store, Drop, taken
  <2> QED
    BY <1>6, <2>1 DEF Store
<1>7. session.suspects # <<>> => session.isolating /\ session.at \notin {"off", "open", "paused"}
  BY DEF DeliveryIsComplete, SuspectsAreJust, Shipping
<1>8. SuspectsAreJust'
  <2>1. CASE session.suspects = <<>>
    <3>1. /\ Suspected(session.proved)' = Suspected(session.proved)
          /\ IdsOf(session.suspects)' = IdsOf(session.suspects)
      BY DEF Suspected, IdsOf
    <3>2. IdsOf(session.suspects) = {}
      BY <2>1, SuspectedNone
    <3> QED
      BY <1>3, <3>1, <3>2 DEF SuspectsAreJust, Shipping
  <2>2. CASE session.suspects # <<>>
    <3>1. /\ Suspected(session.proved)' = Suspected(session.proved)
          /\ IdsOf(session.suspects)' = IdsOf(session.suspects)
      BY DEF Suspected, IdsOf
    <3>2. ASSUME EndedUnstored
          PROVE  EndedUnstored'
      <4>1. session.at \in {"check", "wait", "prepare", "post", "posting", "next", "confirm", "unpend"}
        BY <1>7, <2>2 DEF LogForwarderTypeOK, SessionTypeOK, Session, Stages
      <4>2. stored' = stored
        BY <1>5, <1>6, <1>7, <2>2, <3>2, <4>1 DEF EndedUnstored, Delivering
      <4>3. \A b \in queue' : b \in queue \/ b.launch \in alive
        <5>1. CASE Arrive
          BY <5>1, InOutstanding DEF Arrive
        <5>2. CASE ~Arrive
          BY <5>2 DEF TurnedAway, AnswerLost, Vanish, Unheard, Store, Drop, taken
        <5> QED
          BY <5>1, <5>2
      <4> QED
        BY <1>4, <3>2, <4>1, <4>2, <4>3 DEF EndedUnstored
    <3> QED
      BY <1>3, <3>1, <3>2 DEF SuspectsAreJust, Shipping
  <2> QED
    BY <2>1, <2>2
<1>9. net'.answer = "rejected" => net'.ids \intersect Rejected # {}
  <2>1. CASE Arrive
    BY <1>1, <2>1 DEF Arrive
  <2>2. CASE ~Arrive
    BY <1>1, <2>2 DEF LonePostsAddUp, TurnedAway, AnswerLost, Vanish, Unheard, Store, Drop
  <2> QED
    BY <2>1, <2>2
<1>10. session.isolating /\ Delivering =>
         \/ /\ session.latest \in {None, 0}
            /\ session.at \in {"wait", "prepare", "post"} => session.missing \intersect stored' = {}
         \/ /\ session.latest = session.launch /\ session.at \in {"check", "wait"}
            /\ session.posted \subseteq session.group
  <2>1. CASE stored' = stored
    BY <2>1 DEF LonePostsAddUp
  <2>2. CASE stored' # stored
    <3> SUFFICES ASSUME session.isolating, Delivering, session.latest \in {None, 0},
                        session.at \in {"wait", "prepare", "post"}
                 PROVE  FALSE
      BY DEF LonePostsAddUp
    <3>1. PICK b \in queue : ~(b.ids \subseteq stored)
      BY <1>6, <2>2
    <3>2. b \in Outstanding /\ b.launch \in Launches
      BY <1>1, InOutstanding
    <3> QED
      BY <1>1, <3>1, <3>2 DEF WindowsInv, WindowsHold
  <2> QED
    BY <2>1, <2>2
<1>11. ASSUME TriedAlone'
       PROVE  \/ session.group \subseteq Accounted'
              \/ [launch |-> session.launch, ids |-> session.group] \in queue'
              \/ session.launch \notin alive'
  <2> DEFINE batch == [launch |-> session.launch, ids |-> session.group]
  <2>1. session.isolating /\ Cardinality(session.group) = 1 /\ session.at \in {"check", "wait", "posting"}
    BY <1>11 DEF TriedAlone
  <2>2. session.group \in Ids
    BY SessionTyped
  <2>3. batch.launch = session.launch /\ batch.ids = session.group
    OBVIOUS
  <2> HIDE DEF batch
  <2>4. CASE TriedAlone
    <3>1. \/ session.group \subseteq Accounted \/ batch \in queue \/ session.launch \notin alive
      BY <2>4 DEF LonePostsAddUp, batch
    <3>2. ASSUME batch \in queue, batch \notin queue'
          PROVE  session.group \subseteq Accounted' \/ session.launch \notin alive'
      <4>1. Store(batch) \/ Drop(batch)
        BY <3>2 DEF Arrive, TurnedAway, AnswerLost, Vanish, Unheard, Store, Drop, taken
      <4>2. CASE Drop(batch)
        BY <2>3, <4>2 DEF Drop, analytics
      <4>3. CASE Store(batch) /\ session.group \intersect (stored \union Swallowed) = {}
        <5>1. stored' = stored \union session.group
          BY <2>3, <4>3 DEF Store
        <5> QED
          BY <5>1 DEF Accounted
      <4>4. CASE Store(batch) /\ session.group \intersect (stored \union Swallowed) # {}
        <5> DEFINE part == session.group \intersect (stored \union Swallowed)
        <5>0. part \subseteq session.group /\ part # {}
          BY <4>4
        <5> HIDE DEF part
        <5>1. part = session.group
          BY <2>1, <2>2, <5>0, GroupOfOne
        <5> USE DEF part
        <5> QED
          BY <1>3, <5>1 DEF Accounted
      <4> QED
        BY <4>1, <4>2, <4>3, <4>4
    <3> QED
      BY <1>3, <1>4, <2>1, <3>1, <3>2 DEF batch
  <2>5. CASE ~TriedAlone
    <3>1. session.at = "posting" /\ net'.answer \in {"sent", "unsettled"} /\ net.answer \notin {"sent", "unsettled"}
      BY <1>11, <2>5 DEF TriedAlone
    <3>2. net.ids = session.missing /\ net.launch = session.launch
      BY <3>1 DEF WindowsInv, PostIsOnRecord
    <3>3. net.ids = session.group
      <4>1. session.missing # {} /\ session.missing \subseteq session.group
        BY <2>1, <3>1, SessionTyped DEF WindowsInv, PostIsOnRecord, DeliveryIsComplete, Delivering
      <4> QED
        BY <2>1, <2>2, <3>2, <4>1, GroupOfOne
    <3>4. Arrive \/ Vanish
      BY <1>1, <3>1 DEF TurnedAway, AnswerLost, Unheard, Store, Drop
    <3>5. CASE Arrive
      <4>1. net'.answer # "rejected"
        BY <3>1
      <4>2. queue' = queue \union {Batch(net)}
        BY <1>1, <3>5, <4>1 DEF Arrive
      <4> QED
        BY <3>2, <3>3, <4>2 DEF Batch
    <3>6. CASE Vanish
      BY <2>1, <3>3, <3>6 DEF Vanish, Alone, Accounted
    <3> QED
      BY <3>4, <3>5, <3>6
  <2> QED
    BY <2>4, <2>5 DEF batch
<1> QED
  BY <1>8, <1>9, <1>10, <1>11 DEF LonePostsAddUp, Delivering

\* What keeps its suspects, their proof, and the latest post keeps its reasons.
LEMMA ReasonsStay ==
  ASSUME LogForwarderTypeOK, SuspectsAreJust, UNCHANGED <<stored, lost, queue, alive>>,
         session'.suspects = session.suspects, session'.proved = session.proved,
         session'.launch = session.launch,
         session.suspects # <<>> => session'.posted \intersect stored \subseteq session.posted,
         session'.out \subseteq Rejected, ~Shipping' => session'.suspects = <<>>
  PROVE  SuspectsAreJust'
<1>1. /\ Suspected(session.proved)' = Suspected(session.proved)
      /\ IdsOf(session.suspects)' = IdsOf(session.suspects)
  BY DEF Suspected, IdsOf
<1>2. Accounted' = Accounted
  BY DEF Accounted
<1>3. session.suspects = <<>> => IdsOf(session.suspects) = {}
  BY SuspectedNone
<1>4. session.suspects # <<>> => (EndedUnstored => EndedUnstored')
  BY DEF EndedUnstored
<1> QED
  BY <1>1, <1>2, <1>3, <1>4 DEF SuspectsAreJust

\* A session without suspects has no reasons to give.
LEMMA ReasonsNone ==
  ASSUME session'.suspects = <<>>, session'.proved = 0, session'.out = {}
  PROVE  SuspectsAreJust'
<1>1. \A e : e \in Suspected(session.proved)' <=> \E i \in 1..session'.proved : e \in session'.suspects[i]
  BY Zenon DEF Suspected
<1>2. \A i \in 1..0 : FALSE
  OBVIOUS
<1>3. Suspected(session.proved)' = {}
  BY <1>1, <1>2
<1>4. IdsOf(session.suspects)' = IdsOf(session'.suspects)
  BY DEF IdsOf
<1>5. IdsOf(session.suspects)' = {}
  BY <1>4, IdsOfNone
<1> QED
  BY <1>3, <1>5 DEF SuspectsAreJust

LEMMA GivingUpStep ==
  ASSUME LogForwarderInv, LaunchesInOrder, WindowsInv, GivingUpInv, LogForwarderNext
  PROVE  SuspectsAreJust' /\ LonePostsAddUp'
<1>1. LogForwarderTypeOK /\ DeliveryIsComplete /\ SuspectsAreJust /\ LonePostsAddUp
  BY DEF LogForwarderInv, GivingUpInv
<1>2. /\ session.missing \subseteq session.wanted /\ session.missing \in Ids /\ {} \in Ids
      /\ TRUE \in BOOLEAN /\ FALSE \in BOOLEAN /\ session.group \in Ids /\ session.suspects \in Seq(Ids)
      /\ session.latest \in Launches \union {0, None} /\ session.proved \in 0..Len(session.suspects)
  BY <1>1, SessionTyped DEF Ids
<1>3. /\ 0 \notin Launches /\ None \notin Launches /\ None # 0 /\ NoPost.answer = "none"
  BY LogForwarderAssumption DEF Launches, None, NoPost
<1>4. session.at \notin {"off", "paused"} => session.launch \in Launches
  BY DEF LaunchesInOrder
<1> DEFINE Still == UNCHANGED <<queue, stored, lost, alive>>
           Told == net' = net \/ net' = NoPost \/ net'.answer = "none"
<1>5. ASSUME Told
      PROVE  net'.answer = "rejected" => net'.ids \intersect Rejected # {}
  BY <1>1, <1>3, <1>5 DEF LonePostsAddUp
<1>6. ASSUME Told, ~session'.isolating, session'.suspects = <<>>, session'.proved = 0, session'.out = {}
      PROVE  SuspectsAreJust' /\ LonePostsAddUp'
  BY <1>5, <1>6, ReasonsNone DEF LonePostsAddUp, TriedAlone
<1>7. ASSUME Told, session'.at \in {"next", "confirm", "unpend"}
      PROVE  LonePostsAddUp'
  BY <1>5, <1>7 DEF LonePostsAddUp, TriedAlone, Delivering
<1>8. ASSUME Told, session' = Asleep
      PROVE  SuspectsAreJust' /\ LonePostsAddUp'
  BY <1>6, <1>8, AsleepFields
<1>9. CASE session' = session /\ LogForwarderNext
           /\ \/ Arrive \/ TurnedAway \/ AnswerLost \/ Vanish \/ Unheard \/ \E b \in queue : Store(b) \/ Drop(b)
              \/ UNCHANGED <<net, queue, stored, lost>> /\ alive' \subseteq alive \union {launch + 1}
  BY <1>9, CarriedAddsUp
<1>10. CASE Open
  BY <1>1, <1>6, <1>10, OpenFields, AsleepFields DEF Open, SameGroups
<1>11. CASE Reconcile \/ NextBody
  <2>1. PICK ids, end, known, latest : Settle(ids, end, known, latest)
    BY <1>11 DEF Reconcile, NextBody
  <2>2. net' = net
    BY <1>11 DEF Reconcile, NextBody
  <2> QED
    BY <1>6, <2>1, <2>2, SettleFields, AsleepFields DEF SameGroups
<1>12. CASE Check
  <2> DEFINE proof == session.posted \intersect session.wanted \intersect stored # {}
             proved == IF proof THEN Len(session.suspects) ELSE session.proved
  <2>1. /\ session.at = "check" /\ Delivering /\ Still /\ net' = net
        /\ session'.launch = session.launch /\ session'.wanted = session.wanted
        /\ session'.posted = session.posted /\ session'.group = session.group
        /\ session'.proved = proved /\ session'.latest = session.latest
    BY <1>1, <1>12, CheckFields DEF Check, taken, analytics, SameShipment, Delivering
  <2>2. session'.suspects = session.suspects /\ session'.out = session.out
    <3>1. CASE session.wanted \ stored = {}
      <4>1. LET next == Returns({}, FALSE)
            IN  session'.suspects = next.suspects /\ session'.out = next.out
        BY <1>1, <1>12, <3>1, CheckFields
      <4> QED
        BY <1>1, <1>2, <4>1, ReturnsSuspects
    <3>2. CASE session.wanted \ stored # {}
      BY <1>1, <1>12, <3>2, CheckFields
    <3> QED
      BY <3>1, <3>2
  <2>3. SuspectsAreJust'
    <3>1. CASE ~proof
      <4>1. Shipping'
        BY <1>1, <1>12, CheckFields DEF Shipping
      <4> QED
        BY <1>1, <2>1, <2>2, <3>1, <4>1, ReasonsStay DEF SuspectsAreJust
    <3>2. CASE proof
      <4>1. IdsOf(session.suspects) \subseteq Accounted
        BY <1>1, <3>2 DEF SuspectsAreJust, EndedUnstored
      <4>2. Suspected(session.proved)' \subseteq IdsOf(session.suspects)
        <5>1. \A e : e \in Suspected(session.proved)' <=> \E i \in 1..session'.proved : e \in session'.suspects[i]
          BY Zenon DEF Suspected
        <5>2. session'.proved = Len(session.suspects)
          BY <2>1, <3>2
        <5>3. \A e : e \in Suspected(session.proved)' => e \in IdsOf(session.suspects)
          BY <1>2, <2>2, <5>1, <5>2, InIdsOf
        <5> QED
          BY <5>3
      <4>3. IdsOf(session.suspects)' = IdsOf(session.suspects)
        BY <2>2 DEF IdsOf
      <4>4. Accounted' = Accounted
        BY <2>1 DEF Accounted
      <4>5. Shipping'
        BY <1>1, <1>12, CheckFields DEF Shipping
      <4> QED
        BY <1>1, <2>2, <4>1, <4>2, <4>3, <4>4, <4>5 DEF SuspectsAreJust
    <3> QED
      BY <3>1, <3>2
  <2>4. CASE session.wanted \ stored = {}
    <3>1. session'.at \in {"confirm", "next"}
      BY <1>1, <1>12, <2>4, CheckFields
    <3> QED
      BY <1>7, <2>1, <2>3, <3>1
  <2>5. CASE session.wanted \ stored # {}
    <3>1. /\ session'.missing = session.wanted \ stored /\ session'.isolating = session.isolating
          /\ session'.at = IF session.latest = None THEN "prepare" ELSE "wait"
      BY <1>1, <1>12, <2>5, CheckFields
    <3>2. session.isolating =>
            \/ session.latest \in {None, 0}
            \/ session.latest = session.launch /\ session.posted \subseteq session.group
      BY <1>1, <2>1 DEF LonePostsAddUp
    <3>3. session.latest = session.launch => session'.at = "wait"
      BY <1>3, <1>4, <2>1, <3>1
    <3>4. TriedAlone' => TriedAlone
      BY <2>1, <3>1 DEF TriedAlone
    <3>5. Accounted' = Accounted
      BY <2>1 DEF Accounted
    <3>6. TriedAlone' => \/ session.group \subseteq Accounted
                         \/ [launch |-> session.launch, ids |-> session.group] \in queue
                         \/ session.launch \notin alive
      BY <1>1, <3>4 DEF LonePostsAddUp
    <3>7. session'.missing \intersect stored = {}
      BY <3>1
    <3> HIDE DEF proved, proof
    <3>8. LonePostsAddUp'
      BY <1>5, <2>1, <3>1, <3>2, <3>3, <3>5, <3>6, <3>7 DEF LonePostsAddUp
    <3> QED
      BY <2>3, <3>8
  <2> QED
    BY <2>4, <2>5
<1>13. CASE Poll \/ SlowWrite \/ Elapse
  <2>1. PICK at \in {"check", "prepare"} :
          /\ session' = [session EXCEPT !.at = at]
          /\ at = "prepare" => session.at = "wait" /\ session.latest # session.launch
    BY <1>13 DEF Poll, Elapse, SlowWrite, Goes, SessionStep
  <2>2. /\ session'.at = at /\ SameShipment(session', session)
        /\ SameDelivery(session', session) /\ SameGroups(session', session)
    BY <1>1, <2>1, GoesFields
  <2>3. Still /\ net' = net /\ session.at \in {"wait", "post"}
    BY <1>13 DEF Poll, Elapse, SlowWrite, SessionStep, taken, analytics
  <2>5. SuspectsAreJust'
    BY <1>1, <2>2, <2>3, ReasonsStay DEF SuspectsAreJust, SameShipment, SameDelivery, SameGroups, Shipping
  <2>6. Delivering
    BY <2>3 DEF Delivering
  <2>7. session.isolating =>
          \/ /\ session.latest \in {None, 0}
             /\ session.missing \intersect stored = {}
          \/ session.latest = session.launch /\ session.at = "wait" /\ session.posted \subseteq session.group
    BY <1>1, <2>3, <2>6 DEF LonePostsAddUp
  <2>8. TriedAlone' => TriedAlone
    BY <1>3, <1>4, <2>2, <2>3, <2>7 DEF TriedAlone, SameDelivery, SameGroups, SameShipment
  <2>9. Accounted' = Accounted
    BY <2>3 DEF Accounted
  <2>10. LonePostsAddUp'
    <3>1. TriedAlone' => \/ session.group \subseteq Accounted
                         \/ [launch |-> session.launch, ids |-> session.group] \in queue
                         \/ session.launch \notin alive
      BY <1>1, <2>8 DEF LonePostsAddUp
    <3> QED
      BY <1>5, <2>1, <2>2, <2>3, <2>7, <2>9, <3>1
         DEF LonePostsAddUp, SameDelivery, SameGroups, SameShipment
  <2> QED
    BY <2>5, <2>10

<1>14. CASE Stuck
  <2>1. /\ session.at = "wait" /\ Delivering /\ session.latest = session.launch
        /\ Quiet(session.latest) /\ session' = Returns(session.missing, FALSE)
        /\ Still /\ net' = net
    BY <1>14 DEF Stuck, SessionStep, StuckWindow, taken, analytics, Delivering
  <2>2. /\ session'.at \in {"confirm", "next"} /\ session'.launch = session.launch
        /\ session'.posted = session.posted /\ session'.proved = session.proved
    BY <1>1, <1>2, <2>1, ReturnsLeave DEF SameShipment, SameDelivery
  <2> DEFINE single == session.isolating /\ Cardinality(session.group) = 1
  <2>3. /\ session'.out = session.out
        /\ session'.suspects = IF session.missing # {} /\ single
                               THEN Append(session.suspects, session.group) ELSE session.suspects
    BY <1>1, <1>2, <2>1, ReturnsSuspects
  <2>4. LonePostsAddUp'
    BY <1>7, <2>1, <2>2
  <2>5. Shipping'
    BY <2>2 DEF Shipping
  <2>6. CASE session.missing = {} \/ ~single
    <3>1. session'.suspects = session.suspects
      BY <2>3, <2>6
    <3>2. SuspectsAreJust'
      BY <1>1, <2>1, <2>2, <2>3, <2>5, <3>1, ReasonsStay DEF SuspectsAreJust
    <3> QED
      BY <2>4, <3>2
  <2>7. CASE session.missing # {} /\ single
    <3>1. session'.suspects = Append(session.suspects, session.group)
      BY <2>3, <2>7
    <3>2. /\ Suspected(session.proved)' = Suspected(session.proved)
          /\ IdsOf(session.suspects)' = IdsOf(session.suspects) \union session.group
      BY <1>1, <2>2, <3>1, SuspectsGrow
    <3>3. Accounted' = Accounted
      BY <2>1 DEF Accounted
    <3>4. \A b \in queue : b.launch # session.launch
      BY <2>1 DEF Quiet
    <3>5. session.group \subseteq Accounted \/ session.launch \notin alive
      <4>1. TriedAlone
        BY <2>1, <2>7 DEF TriedAlone
      <4>2. [launch |-> session.launch, ids |-> session.group] \notin queue
        <5> DEFINE batch == [launch |-> session.launch, ids |-> session.group]
        <5>1. batch.launch = session.launch
          OBVIOUS
        <5> HIDE DEF batch
        <5>2. batch \notin queue
          BY <3>4, <5>1
        <5> QED
          BY <5>2 DEF batch
      <4> QED
        BY <1>1, <4>1, <4>2 DEF LonePostsAddUp
    <3>6. ASSUME EndedUnstored
          PROVE  EndedUnstored'
      BY <2>1, <2>2, <3>6 DEF EndedUnstored
    <3>7. ASSUME ~(session.group \subseteq Accounted)
          PROVE  EndedUnstored'
      <4>1. session.launch \in Launches
        BY <1>4, <2>1
      <4>2. session.posted \subseteq session.group
        BY <1>1, <1>3, <2>1, <2>7, <4>1 DEF LonePostsAddUp
      <4>3. session.group \intersect stored = {}
        <5> DEFINE part == session.group \intersect stored
        <5>1. part # session.group
          BY <3>7 DEF Accounted
        <5>2. part \subseteq session.group
          OBVIOUS
        <5> HIDE DEF part
        <5>3. part = {}
          BY <1>2, <2>7, <5>1, <5>2, GroupOfOne
        <5> QED
          BY <5>3 DEF part
      <4> QED
        BY <2>1, <2>2, <3>4, <3>5, <3>7, <4>2, <4>3 DEF EndedUnstored
    <3>8. SuspectsAreJust'
      BY <1>1, <2>3, <2>5, <3>2, <3>3, <3>6, <3>7 DEF SuspectsAreJust
    <3> QED
      BY <2>4, <3>8
  <2> QED
    BY <2>6, <2>7
<1>15. CASE Prepare
  <2>1. /\ session.at = "prepare" /\ Delivering /\ Still /\ net' = net
        /\ session'.launch = session.launch /\ session'.posted = session.posted
        /\ session'.group = session.group /\ session'.proved = session.proved
        /\ session'.latest = session.latest /\ session'.missing \subseteq session.missing
    BY <1>1, <1>15, PrepareFields DEF Prepare, taken, analytics, Delivering
  <2>2. /\ session'.suspects = session.suspects /\ session'.out = session.out
        /\ session'.at \in {"confirm", "next", "post"}
    <3>1. CASE session'.at = "post"
      BY <1>1, <1>15, <3>1, PrepareFields
    <3>2. CASE session'.at # "post"
      <4>1. /\ session'.at \in {"confirm", "next"}
            /\ LET next == Returns({}, FALSE)
               IN  session'.suspects = next.suspects /\ session'.out = next.out
        BY <1>1, <1>15, <3>2, PrepareFields
      <4> QED
        BY <1>1, <1>2, <4>1, ReturnsSuspects
    <3> QED
      BY <3>1, <3>2
  <2>3. Shipping'
    BY <2>2 DEF Shipping
  <2>4. SuspectsAreJust'
    BY <1>1, <2>1, <2>2, <2>3, ReasonsStay DEF SuspectsAreJust
  <2>5. CASE session'.at # "post"
    BY <1>7, <2>1, <2>2, <2>4, <2>5
  <2>6. CASE session'.at = "post"
    <3>1. session'.isolating = session.isolating
      BY <1>1, <1>15, <2>6, PrepareFields
    <3>2. session.isolating => session.latest \in {None, 0} /\ session.missing \intersect stored = {}
      BY <1>1, <2>1 DEF LonePostsAddUp
    <3>3. LonePostsAddUp'
      BY <1>5, <2>1, <2>6, <3>1, <3>2 DEF LonePostsAddUp, TriedAlone
    <3> QED
      BY <2>4, <3>3
  <2> QED
    BY <2>5, <2>6
<1>16. CASE Post
  <2>1. CASE session' = Asleep
    <3>1. net' = net
      BY <1>1, <1>16, <2>1, PostFields, AsleepFields
    <3> QED
      BY <1>8, <2>1, <3>1
  <2>2. CASE session' # Asleep
    <3>1. /\ session.at = "post" /\ Delivering /\ Still /\ session'.at = "posting"
          /\ net' = [launch |-> session.launch, ids |-> session.missing, answer |-> "none"]
          /\ session'.launch = session.launch /\ SameGroups(session', session)
          /\ session'.latest = session.latest /\ session'.posted = session.missing
      BY <1>1, <1>16, <2>2, PostFields DEF Post, SessionStep, taken, analytics, SameShipment, Delivering
    <3>2. net'.answer = "none"
      BY <3>1
    <3>3. session.isolating => session.latest \in {None, 0} /\ session.missing \intersect stored = {}
      BY <1>1, <3>1 DEF LonePostsAddUp
    <3>4. session.suspects # <<>> => session'.posted \intersect stored \subseteq session.posted
      BY <1>1, <3>1, <3>3 DEF DeliveryIsComplete
    <3>5. Shipping'
      BY <3>1 DEF Shipping
    <3>6. SuspectsAreJust'
      BY <1>1, <3>1, <3>4, <3>5, ReasonsStay DEF SuspectsAreJust, SameGroups
    <3>7. LonePostsAddUp'
      BY <1>5, <3>1, <3>2, <3>3 DEF LonePostsAddUp, TriedAlone, SameGroups
    <3> QED
      BY <3>6, <3>7
  <2> QED
    BY <2>1, <2>2
<1>17. CASE Answer
  <2>1. /\ session.at = "posting" /\ Delivering /\ Still /\ net' = NoPost
        /\ session'.launch = session.launch /\ session'.posted = session.posted
        /\ session'.group = session.group /\ session'.proved = session.proved
    BY <1>1, <1>17, AnswerFields DEF Answer, SessionStep, taken, analytics, SameShipment, Delivering
  <2>2. /\ net.ids = session.missing /\ session.missing # {} /\ session.posted = session.missing
        /\ session.isolating => session.missing \subseteq session.group
    BY <1>1, <1>2, <2>1 DEF WindowsInv, PostIsOnRecord, DeliveryIsComplete
  <2>3. CASE net.answer = "rejected"
    <3> DEFINE single == session.isolating /\ Cardinality(session.group) = 1
    <3>1. session' = Returns({}, TRUE) /\ session'.at \in {"confirm", "next"}
      BY <1>1, <1>17, <2>3, AnswerFields
    <3>2. /\ session'.suspects = session.suspects
          /\ session'.out = IF single THEN session.out \union session.group ELSE session.out
      BY <1>1, <1>2, <3>1, ReturnsSuspects
    <3>3. single => session.group \subseteq Rejected
      <4> SUFFICES ASSUME single
                   PROVE  session.group \subseteq Rejected
        OBVIOUS
      <4>1. session.missing = session.group
        BY <1>2, <2>2, GroupOfOne
      <4> DEFINE part == session.group \intersect Rejected
      <4>2. part # {} /\ part \subseteq session.group
        BY <1>1, <2>2, <2>3, <4>1 DEF LonePostsAddUp
      <4> HIDE DEF part
      <4>3. part = session.group
        BY <1>2, <4>2, GroupOfOne
      <4> QED
        BY <4>3 DEF part
    <3>4. Shipping' /\ session'.out \subseteq Rejected
      BY <1>1, <3>1, <3>2, <3>3 DEF Shipping, SuspectsAreJust
    <3>5. SuspectsAreJust'
      BY <1>1, <2>1, <3>2, <3>4, ReasonsStay
    <3> QED
      BY <1>7, <2>1, <3>1, <3>5
  <2>4. CASE net.answer # "rejected"
    <3>1. /\ SameGroups(session', session)
          /\ \/ /\ net.answer \in {"sent", "unsettled"} /\ session'.at = "check"
                /\ session'.latest = session.launch
             \/ net.answer = "failed" /\ session'.at = "check" /\ session'.latest = 0
             \/ session'.at = "unpend"
      BY <1>1, <1>17, <2>4, AnswerFields
    <3>2. Shipping'
      BY <3>1 DEF Shipping
    <3>3. SuspectsAreJust'
      BY <1>1, <2>1, <3>1, <3>2, ReasonsStay DEF SuspectsAreJust, SameGroups
    <3>4. CASE session'.at = "unpend"
      BY <1>7, <2>1, <3>3, <3>4
    <3>5. CASE net.answer = "failed" /\ session'.at = "check" /\ session'.latest = 0
      <4>1. ~TriedAlone'
        BY <1>3, <1>4, <2>1, <3>5 DEF TriedAlone
      <4>2. LonePostsAddUp'
        BY <1>5, <2>1, <3>5, <4>1 DEF LonePostsAddUp
      <4> QED
        BY <3>3, <4>2
    <3>6. CASE net.answer \in {"sent", "unsettled"} /\ session'.at = "check" /\ session'.latest = session.launch
      <4>1. TriedAlone' => TriedAlone
        BY <2>1, <3>1, <3>6 DEF TriedAlone, SameGroups
      <4>2. TriedAlone' => \/ session.group \subseteq Accounted
                           \/ [launch |-> session.launch, ids |-> session.group] \in queue
                           \/ session.launch \notin alive
        BY <1>1, <4>1 DEF LonePostsAddUp
      <4>3. Accounted' = Accounted
        BY <2>1 DEF Accounted
      <4>4. session.isolating => session'.posted \subseteq session'.group
        BY <2>1, <2>2
      <4>5. LonePostsAddUp'
        BY <1>5, <2>1, <3>1, <3>6, <4>2, <4>3, <4>4 DEF LonePostsAddUp, SameGroups
      <4> QED
        BY <3>3, <4>5
    <3> QED
      BY <3>1, <3>4, <3>5, <3>6
  <2> QED
    BY <2>3, <2>4
<1>18. CASE Unpend \/ Confirm
  <2>1. SameGroups(session', Asleep)
    BY <1>18 DEF Unpend, Confirm, SameGroups, Asleep
  <2>2. net' = net
    BY <1>18 DEF Unpend, Confirm
  <2> QED
    BY <1>6, <2>1, <2>2, AsleepFields DEF SameGroups
<1>19. CASE NextGroup
  <2>1. /\ session'.at = "check" /\ session'.launch = session.launch
        /\ session'.latest = None /\ session'.posted = session.posted
        /\ session'.isolating = session.isolating /\ session'.suspects = session.suspects
        /\ session'.proved = session.proved /\ session'.out = session.out
        /\ Still /\ net' = net /\ session.at = "next"
    BY <1>1, <1>19, NextGroupFields DEF NextGroup, taken, analytics, SameShipment
  <2>2. Shipping'
    BY <2>1 DEF Shipping
  <2>3. SuspectsAreJust'
    BY <1>1, <2>1, <2>2, ReasonsStay DEF SuspectsAreJust
  <2>4. ~TriedAlone'
    BY <1>3, <1>4, <2>1 DEF TriedAlone
  <2>5. LonePostsAddUp'
    BY <1>5, <2>1, <2>4 DEF LonePostsAddUp
  <2> QED
    BY <2>3, <2>5
<1>20. CASE RoundEnds
  <2>1. /\ session'.at \in {"confirm", "next"} /\ session'.suspects = <<>> /\ session'.proved = 0
        /\ session'.out = {} /\ net' = net
    BY <1>1, <1>20, RoundEndsFields DEF RoundEnds
  <2> QED
    BY <1>7, <2>1, ReasonsNone
<1>21. CASE Serves \/ Unhealthy \/ Noticed
  <2>1. PICK l : Retarget(l)
    BY <1>21 DEF Serves, Unhealthy, Noticed
  <2>2. Still /\ net' = net
    BY <1>21 DEF Serves, Unhealthy, Noticed, taken, analytics
  <2>3. CASE session' # Asleep
    <3>1. /\ session'.at = session.at /\ SameShipment(session', session)
          /\ SameDelivery(session', session) /\ SameGroups(session', session)
      BY <1>1, <2>1, <2>3, RetargetFields
    <3>2. SuspectsAreJust'
      BY <1>1, <2>2, <3>1, ReasonsStay DEF SuspectsAreJust, SameShipment, SameDelivery, SameGroups, Shipping
    <3>3. (TriedAlone' => TriedAlone) /\ Accounted' = Accounted
      BY <2>2, <3>1 DEF TriedAlone, Accounted, SameShipment, SameDelivery, SameGroups
    <3>4. LonePostsAddUp'
      BY <1>1, <1>5, <2>2, <3>1, <3>3
         DEF LonePostsAddUp, Delivering, SameShipment, SameDelivery, SameGroups
    <3> QED
      BY <3>2, <3>4
  <2> QED
    BY <1>8, <2>2, <2>3
<1>22. CASE Interrupt \/ OwnerCrashes
  BY <1>8, <1>22 DEF Interrupt, OwnerCrashes
<1>23. CASE Relaunch \/ OwnerStarts \/ Retire \/ \E l \in alive : Exit(l)
  BY <1>9, <1>23 DEF Relaunch, OwnerStarts, Retire, Exit, taken, analytics
<1>24. CASE Arrive \/ TurnedAway \/ AnswerLost \/ Vanish \/ Unheard \/ \E b \in queue : Store(b) \/ Drop(b)
  BY <1>9, <1>24 DEF Arrive, TurnedAway, AnswerLost, Vanish, Unheard, Store, Drop
<1> QED
  BY <1>10, <1>11, <1>12, <1>13, <1>14, <1>15, <1>16, <1>17, <1>18, <1>19, <1>20, <1>21, <1>22, <1>23,
     <1>24 DEF LogForwarderNext, Forward, Carries, Stores, Owns, Troubles

LEMMA SkipsStep ==
  ASSUME LogForwarderInv, GivingUpInv, LogForwarderNext
  PROVE  SkipsAreJust'
<1>1. stored \subseteq stored' /\ lost \subseteq lost'
  BY DEF LogForwarderNext, Forward, Carries, Stores, Owns, Troubles, Open, Reconcile, NextBody,
         Interrupt, Check, Poll, Stuck, Elapse, Prepare, Post, Answer, Unpend, NextGroup, RoundEnds,
         Confirm, Arrive, Vanish, Unheard, Store, Drop, Serves, Noticed, Relaunch, OwnerStarts,
         SlowWrite, TurnedAway, AnswerLost, Unhealthy, Exit, OwnerCrashes, Retire, taken
<1>2. SkipsAreJust /\ session.out \subseteq Rejected /\ Suspected(session.proved) \subseteq Accounted
  BY DEF GivingUpInv, SuspectsAreJust
<1>3. CASE skipped' = skipped
  BY <1>1, <1>2, <1>3 DEF SkipsAreJust
<1>4. CASE RoundEnds
  <2>1. skipped' = skipped \union GivenUp
    BY <1>4 DEF RoundEnds
  <2> QED
    BY <1>1, <1>2, <2>1 DEF SkipsAreJust, GivenUp, Accounted
<1> QED
  BY <1>3, <1>4
     DEF LogForwarderNext, Forward, Carries, Stores, Owns, Troubles, Open, Reconcile, NextBody,
         Interrupt, Check, Poll, Stuck, Elapse, Prepare, Post, Answer, Unpend, NextGroup,
         Confirm, Arrive, Vanish, Unheard, Store, Drop, Serves, Noticed, Relaunch, OwnerStarts,
         SlowWrite, TurnedAway, AnswerLost, Unhealthy, Exit, OwnerCrashes, Retire

-----------------------------------------------------------------------------
(* The theorems.                                                           *)

LEMMA WindowsInit == LogForwarderInit => LogWindowsInv
<1> SUFFICES ASSUME LogForwarderInit
             PROVE  LogWindowsInv
  OBVIOUS
<1>1. /\ session = Asleep /\ net = NoPost /\ queue = {} /\ cursor.pending = NoPending
      /\ skipped = {} /\ launch = 1 /\ own = 1 /\ alive = {1} /\ target = 0 /\ ownerUp
  BY DEF LogForwarderInit
<1>2. Outstanding = {}
  BY <1>1 DEF Outstanding
<1>3. LaunchesInOrder
  BY <1>1, AsleepFields DEF LaunchesInOrder
<1>4. GroupsAreApart
  BY <1>1, AsleepFields, ApartNone, IdsOfNone DEF GroupsAreApart, Delivering
<1>5. WindowsInv
  BY <1>1, <1>2, AsleepFields
     DEF WindowsInv, WindowsHold, PostIsOnRecord, NothingIsQueuedTwice, PostsAreOnRecord
<1>6. NoPost.answer = "none"
  BY DEF NoPost
<1>7. GivingUpInv
  <2>1. IdsOf(session.suspects) = {} /\ Suspected(session.proved) = {}
    BY <1>1, AsleepFields, SuspectedNone
  <2>2. SuspectsAreJust
    BY <1>1, <2>1, AsleepFields DEF SuspectsAreJust
  <2>3. LonePostsAddUp
    BY <1>1, <1>6, AsleepFields DEF LonePostsAddUp, TriedAlone
  <2> QED
    BY <1>1, <2>2, <2>3 DEF GivingUpInv, SkipsAreJust
<1> QED
  BY <1>3, <1>4, <1>5, <1>7 DEF LogWindowsInv

LEMMA WindowsStutter ==
  ASSUME LogWindowsInv, UNCHANGED lfVars
  PROVE  LogWindowsInv'
<1>1. /\ UNCHANGED <<cursor, session, target, launch, own, alive, ownerUp, net, queue, stored, gone,
                     skipped, lost, troubles>>
  BY DEF lfVars
<1>2. LaunchesInOrder'
  BY <1>1 DEF LogWindowsInv, LaunchesInOrder
<1>3. GroupsAreApart'
  BY <1>1 DEF LogWindowsInv, GroupsAreApart, Delivering
<1>4. Outstanding' = Outstanding /\ Batch(net)' = Batch(net)
  BY <1>1 DEF Outstanding, Batch
<1>5. WindowsInv'
  BY <1>1, <1>4 DEF LogWindowsInv, WindowsInv, WindowsHold, PostIsOnRecord, NothingIsQueuedTwice,
                    PostsAreOnRecord
<1>6. /\ Suspected(session.proved)' = Suspected(session.proved)
      /\ IdsOf(session.suspects)' = IdsOf(session.suspects)
  BY <1>1 DEF Suspected, IdsOf
<1>7. SuspectsAreJust'
  BY <1>1, <1>6 DEF LogWindowsInv, GivingUpInv, SuspectsAreJust, Shipping, EndedUnstored, Accounted
<1>8. LonePostsAddUp' /\ SkipsAreJust'
  BY <1>1 DEF LogWindowsInv, GivingUpInv, LonePostsAddUp, SkipsAreJust, Delivering, TriedAlone, Accounted
<1> QED
  BY <1>2, <1>3, <1>5, <1>7, <1>8 DEF LogWindowsInv, GivingUpInv

\* The windows, the groups and the reasons to give an event up hold in every
\* behaviour of the forwarder and what surrounds it.
THEOREM LogWindowsInvariant == LogForwarderSpec => []LogWindowsInv
<1>1. LogForwarderInv /\ LogWindowsInv /\ [LogForwarderNext]_lfVars => LogWindowsInv'
  <2> SUFFICES ASSUME LogForwarderInv, LogWindowsInv, LogForwarderNext
               PROVE  LogWindowsInv'
    BY WindowsStutter
  <2>1. LogForwarderTypeOK /\ LaunchesInOrder /\ GroupsAreApart /\ WindowsInv /\ GivingUpInv
    BY DEF LogForwarderInv, LogWindowsInv
  <2>2. LaunchesInOrder' /\ GroupsAreApart'
    BY <2>1, LaunchesStep, ApartStep
  <2>3. WindowsInv'
    BY <2>1, WindowsStep
  <2>4. GivingUpInv'
    BY <2>1, GivingUpStep, SkipsStep DEF GivingUpInv
  <2> QED
    BY <2>2, <2>3, <2>4 DEF LogWindowsInv
<1> QED
  BY <1>1, WindowsInit, LogForwarderInvariant, PTL DEF LogForwarderSpec

\* No id is on its way or queued twice, whatever crashes, gets lost or is launched
\* again: Analytics never drops a batch for an id it holds of an earlier one that it
\* has yet to store (the windows of LogForwarder.ts:604-623).
THEOREM NothingEverQueuedTwice == LogForwarderSpec => []NothingIsQueuedTwice
<1>1. LogWindowsInv => NothingIsQueuedTwice
  BY DEF LogWindowsInv, WindowsInv
<1> QED
  BY <1>1, LogWindowsInvariant, PTL

\* At every instant the record tells the next owner which launch may yet store which
\* ids (LogForwarder.ts:639-652).
THEOREM PostsAlwaysOnRecord == LogForwarderSpec => []PostsAreOnRecord
<1>1. LogWindowsInv => PostsAreOnRecord
  BY DEF LogWindowsInv, WindowsInv
<1> QED
  BY <1>1, LogWindowsInvariant, PTL

\* An event is given up only if Analytics rejects it or never stores it, or if a post
\* of it alone got lost: never because the launch ended (LogForwarder.ts:676-725).
THEOREM SkipsAlwaysJust == LogForwarderSpec => []SkipsAreJust
<1>1. LogWindowsInv => SkipsAreJust
  BY DEF LogWindowsInv, GivingUpInv
<1> QED
  BY <1>1, LogWindowsInvariant, PTL
==============================================================================
