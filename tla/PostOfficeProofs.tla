-------------------------- MODULE PostOfficeProofs --------------------------
(***************************************************************************)
(* Theorems about the post offices of ThreadTest (code/threads/            *)
(* threadtest.cc, tasks 5 and 6) for any number of people and messages and *)
(* any size of a mailbox: what a move of a person keeps (ExerciseProofs    *)
(* says what the moves are), and what follows for the tasks; and the types *)
(* of all the exercises.                                                   *)
(***************************************************************************)
EXTENDS ExerciseProofs

-----------------------------------------------------------------------------
(***************************************************************************)
(* What a move keeps                                                       *)
(***************************************************************************)

\* A thread other than the one that moves keeps its place and its wait.
LEMMA MailOthers ==
    ASSUME MailInv, MailWaits, NEW i \in Person, NEW to, NEW d, MailMove(i, to, d)
    PROVE  /\ d \in Person /\ i \in Threads
           /\ \A t \in Threads : pc'[t] = IF t = i THEN to ELSE pc[t]
           /\ \A j \in Person : iSendTo'[j] = IF j = i THEN d ELSE iSendTo[j]
           /\ \A t \in Threads \ {i} : waitsOn'[t] = waitsOn[t]
           /\ waitsOn'[i] # NoSem => waitsOn'[i] = WaitsFor(i, to, d) /\ MailClaim(i, to, d)
<1>1. /\ pc \in [Threads -> MailPlace] /\ i \in Threads /\ iSendTo \in [Person -> Person]
      /\ waitsOn \in [Threads -> MailSem \cup {NoSem}]
  BY MainIsNobody DEF MailInv, MailTypes, MailWaits
<1>2. /\ pc' = [pc EXCEPT ![i] = to] /\ iSendTo' = [iSendTo EXCEPT ![i] = d]
      /\ waitsOn[i] = NoSem /\ d \in Person
  BY DEF MailMove
<1>3. waitsOn' = waitsOn \/ (MailClaim(i, to, d) /\ waitsOn' = [waitsOn EXCEPT ![i] = WaitsFor(i, to, d)])
  <2>1. CASE MailClaim(i, to, d)
    BY <2>1 DEF MailClaim, Claims
  <2>2. CASE ~MailClaim(i, to, d)
    BY <2>2 DEF MailMove, MailGive, MailQuiet, MailTake, MailPut, MailHome, Gives
  <2>3. QED
    BY <2>1, <2>2
<1>4. QED
  BY <1>1, <1>2, <1>3

\* How the owners of a semaphore change when person i moves.
LEMMA OwnersChange ==
    ASSUME MailInv, MailWaits, NEW i \in Person, NEW to, NEW d, MailMove(i, to, d), NEW s
    PROVE  /\ Cardinality(Owners(s)) \in Nat /\ Cardinality(Owners(s))' \in Nat
           /\ i \in Owners(s) <=> s \in HeldAt(i, pc[i], iSendTo[i]) /\ s # NoSem
           /\ i \in Owners(s)' <=> s \in HeldAt(i, to, d) /\ waitsOn'[i] # s
           /\ i \in Owners(s)' /\ i \notin Owners(s) =>
                 Cardinality(Owners(s))' = Cardinality(Owners(s)) + 1
           /\ i \notin Owners(s)' /\ i \in Owners(s) =>
                 /\ Cardinality(Owners(s))' = Cardinality(Owners(s)) - 1
                 /\ Cardinality(Owners(s)) >= 1
           /\ (i \in Owners(s)' <=> i \in Owners(s)) =>
                 Cardinality(Owners(s))' = Cardinality(Owners(s))
<1> DEFINE A == {j \in Person : s \in HeldAt(j, pc[j], iSendTo[j]) /\ waitsOn[j] # s}
           B == {j \in Person : s \in HeldAt(j, pc'[j], iSendTo'[j]) /\ waitsOn'[j] # s}
<1>1. /\ \A j \in Person : pc'[j] = IF j = i THEN to ELSE pc[j]
      /\ \A j \in Person : iSendTo'[j] = IF j = i THEN d ELSE iSendTo[j]
      /\ \A j \in Person \ {i} : waitsOn'[j] = waitsOn[j]
      /\ waitsOn[i] = NoSem
  <2>1. /\ \A t \in Threads : pc'[t] = IF t = i THEN to ELSE pc[t]
        /\ \A j \in Person : iSendTo'[j] = IF j = i THEN d ELSE iSendTo[j]
        /\ \A t \in Threads \ {i} : waitsOn'[t] = waitsOn[t]
    BY MailOthers
  <2>2. waitsOn[i] = NoSem
    BY DEF MailMove
  <2>3. QED
    BY <2>1, <2>2, MainIsNobody
<1>2. /\ A \in SUBSET Person /\ B \in SUBSET Person /\ Owners(s) = A /\ Owners(s)' = B
      /\ \A j \in Person \ {i} : j \in A <=> j \in B
      /\ i \in A <=> s \in HeldAt(i, pc[i], iSendTo[i]) /\ s # NoSem
      /\ i \in B <=> s \in HeldAt(i, to, d) /\ waitsOn'[i] # s
  <2>1. Owners(s) = A /\ Owners(s)' = B
    BY DEF Owners, HeldAt
  <2>2. QED
    BY <1>1, <2>1
<1> HIDE DEF A, B
<1>3. /\ Cardinality(A) \in Nat /\ Cardinality(B) \in Nat
      /\ i \in B /\ i \notin A => Cardinality(B) = Cardinality(A) + 1
      /\ i \notin B /\ i \in A => Cardinality(B) = Cardinality(A) - 1
      /\ (i \in A <=> i \in B) => Cardinality(B) = Cardinality(A)
      /\ i \in A => Cardinality(A) >= 1
  BY <1>2, WithinChanges, Counted
<1>4. QED
  BY <1>2, <1>3

\* Units of the semaphore s change hands: person i claims one, gives one back,
\* or keeps what he has.
Claimed(i, to, d, s) ==
    /\ Claims(i, s) /\ s \notin HeldAt(i, pc[i], iSendTo[i]) /\ s \in HeldAt(i, to, d)
Given(i, to, d, s) ==
    /\ Gives(s) /\ s \in HeldAt(i, pc[i], iSendTo[i]) /\ s \notin HeldAt(i, to, d)
Kept(i, to, d, s) ==
    /\ value'[s] = value[s] /\ waitsOn'[i] # s
    /\ s \in HeldAt(i, pc[i], iSendTo[i]) <=> s \in HeldAt(i, to, d)

\* In a move of task 6 that fills or frees a slot the unit of freeSpace is
\* given or used up.
Freed(i, to, d, s) ==
    /\ Task = 6 /\ s = fs(i) /\ Gives(s) /\ MailTake(i, to, d)
    /\ s \notin HeldAt(i, pc[i], iSendTo[i]) /\ s \notin HeldAt(i, to, d)
Filled(i, to, d, s) ==
    /\ Task = 6 /\ s = fs(d) /\ value'[s] = value[s] /\ waitsOn'[i] # s /\ MailPut(i, to, d)
    /\ s \in HeldAt(i, pc[i], iSendTo[i]) /\ s \notin HeldAt(i, to, d)

Exchanged(i, to, d, s) ==
    \/ Claimed(i, to, d, s) \/ Given(i, to, d, s) \/ Kept(i, to, d, s)

\* P and V change no other semaphore.
LEMMA OthersKeep ==
    ASSUME MailWaits, NEW i \in Person, NEW s \in MailSem, NEW r \in MailSem, r # s,
           waitsOn[i] = NoSem, Claims(i, r) \/ Gives(r)
    PROVE  value'[s] = value[s] /\ waitsOn'[i] # s
<1>1. i \in Threads /\ s # NoSem
  BY MainIsNobody, MailNames
<1>2. QED
  BY <1>1 DEF MailWaits, Claims, Gives

\* Every P, V and quiet move exchanges the units of every semaphore.
LEMMA ClaimExchanges ==
    ASSUME MailInv, MailWaits, NEW i \in Person, NEW to, NEW d \in Person, MailMove(i, to, d),
           MailClaim(i, to, d), NEW s \in MailSem
    PROVE  Exchanged(i, to, d, s)
<1> DEFINE r == WaitsFor(i, to, d)
           H == HeldAt(i, pc[i], iSendTo[i])
           G == HeldAt(i, to, d)
<1>1. /\ r \in MailSem /\ r \notin H /\ r \in G
      /\ s # r => (s \in H <=> s \in G)
  <2> USE DEF MailClaim
  <2>1. CASE to = "read"
    BY <2>1, MailPlaces, MailNames
  <2>2. CASE to = "claimed"
    BY <2>2, MailPlaces, MailNames
  <2>3. CASE to = "send" /\ Task = 5
    BY <2>3, MailPlaces, MailNames
  <2>4. CASE to = "gotSpace"
    BY <2>4, MailPlaces, MailNames
  <2>5. CASE to = "gotBox"
    <3>1. pc[i] = "gotSpace" /\ d = iSendTo[i]
      BY <2>5
    <3>2. QED
      BY <2>5, <3>1, MailPlaces, MailNames
  <2>6. CASE to = "send" /\ Task = 6
    <3>1. pc[i] = "gotBox" /\ d = iSendTo[i]
      BY <2>6
    <3>2. QED
      BY <2>6, <3>1, MailPlaces, MailNames
  <2>7. QED
    BY <2>1, <2>2, <2>3, <2>4, <2>5, <2>6
<1>2. Claims(i, r) /\ waitsOn[i] = NoSem
  BY DEF MailClaim, MailMove
<1> HIDE DEF r, H, G
<1>3. s # r => value'[s] = value[s] /\ waitsOn'[i] # s
  BY <1>1, <1>2, OthersKeep
<1>4. QED
  BY <1>1, <1>2, <1>3 DEF Exchanged, Claimed, Kept, H, G

\* Who gives a unit back owns it no longer, and nothing else changes hands (V).
LEMMA GiveExchanges ==
    ASSUME MailInv, MailWaits, NEW i \in Person, NEW to, NEW d \in Person, MailMove(i, to, d),
           MailGive(i, to, d), NEW s \in MailSem
    PROVE  Exchanged(i, to, d, s)
<1> DEFINE H == HeldAt(i, pc[i], iSendTo[i])
           G == HeldAt(i, to, d)
<1>1. \E r \in MailSem : /\ Gives(r) /\ r \in H /\ r \notin G
                         /\ s # r => (s \in H <=> s \in G)
  <2> USE DEF MailGive
  <2>1. CASE to = "stall"
    BY <2>1, MailPlaces, MailNames
  <2>2. CASE to = "readYield"
    BY <2>2, MailPlaces, MailNames
  <2>3. CASE to = "abort"
    <3>1. pc[i] = "send" /\ d = iSendTo[i] /\ Gives(fs(d)) /\ Task = 6
      BY <2>3
    <3>2. QED
      BY <2>3, <3>1, MailPlaces, MailNames
  <2>4. CASE to = "sent"
    <3>1. pc[i] = "abort" /\ d = iSendTo[i] /\ Gives(mb(d))
      BY <2>4
    <3>2. QED
      BY <2>4, <3>1, MailPlaces, MailNames
  <2>5. QED
    BY <2>1, <2>2, <2>3, <2>4
<1>2. PICK r \in MailSem : /\ Gives(r) /\ r \in H /\ r \notin G
                           /\ s # r => (s \in H <=> s \in G)
  BY <1>1
<1>3. waitsOn[i] = NoSem
  BY DEF MailMove
<1> HIDE DEF H, G
<1>4. s # r => value'[s] = value[s] /\ waitsOn'[i] # s
  BY <1>2, <1>3, OthersKeep
<1>5. QED
  BY <1>2, <1>4 DEF Exchanged, Given, Kept, H, G

\* Reading, writing and going home change hands as the V that ends them does.
LEMMA OtherExchanges ==
    ASSUME MailInv, MailWaits, NEW i \in Person, NEW to, NEW d \in Person, MailMove(i, to, d),
           MailQuiet(i, to, d) \/ MailTake(i, to, d) \/ MailPut(i, to, d) \/ MailHome(i, to, d),
           NEW s \in MailSem
    PROVE  Exchanged(i, to, d, s) \/ Freed(i, to, d, s) \/ Filled(i, to, d, s)
<1> DEFINE H == HeldAt(i, pc[i], iSendTo[i])
           G == HeldAt(i, to, d)
<1>1. waitsOn[i] = NoSem /\ s # NoSem /\ i \in Threads
  BY MailNames, MainIsNobody DEF MailMove
<1>2. CASE MailQuiet(i, to, d) \/ MailHome(i, to, d)
  <2>1. value' = value /\ waitsOn' = waitsOn
    BY <1>2 DEF MailQuiet, MailHome
  <2>2. H = G
    <3>1. CASE to \in {"visit", "decide", "stall"}
      BY <1>2, <3>1, MailPlaces DEF MailQuiet, MailHome
    <3>2. CASE to = "full"
      <4>1. pc[i] = "claimed" \/ pc[i] = "full"
        BY <1>2, <3>2 DEF MailQuiet, MailHome
      <4>2. \A e : HeldAt(i, "claimed", e) = {mc} /\ HeldAt(i, "full", e) = {mc}
        BY MailPlaces
      <4>3. QED
        BY <3>2, <4>1, <4>2
    <3>3. CASE to = "finished"
      BY <1>2, <3>3, MailPlaces DEF MailQuiet, MailHome
    <3>4. QED
      BY <1>2, <3>1, <3>2, <3>3 DEF MailQuiet, MailHome
  <2>3. QED
    BY <1>1, <2>1, <2>2 DEF Exchanged, Kept
<1>3. CASE MailTake(i, to, d) /\ Task = 5
  <2>1. /\ Gives(mb(i)) /\ mb(i) \in MailSem /\ H = {mb(i)} /\ G = {}
    BY <1>3, MailPlaces, MailNames DEF MailTake
  <2>2. s # mb(i) => value'[s] = value[s] /\ waitsOn'[i] # s
    BY <1>1, <2>1, OthersKeep
  <2>3. QED
    BY <2>1, <2>2 DEF Exchanged, Given, Kept
<1>4. CASE MailTake(i, to, d) /\ Task = 6
  <2>1. /\ Gives(fs(i)) /\ fs(i) \in MailSem /\ H = {mb(i)} /\ G = {mb(i)} /\ fs(i) # mb(i)
    BY <1>4, MailPlaces, MailNames DEF MailTake
  <2>2. s # fs(i) => value'[s] = value[s] /\ waitsOn'[i] # s
    BY <1>1, <2>1, OthersKeep
  <2>3. QED
    BY <1>4, <2>1, <2>2 DEF Exchanged, Kept, Freed
<1>5. CASE MailPut(i, to, d)
  <2>1. /\ Gives(mb(d)) /\ mb(d) \in MailSem /\ H = {fs(d), mb(d), mc} /\ G = {mc} /\ fs(d) # mb(d)
        /\ mc # mb(d) /\ fs(d) # mc
    BY <1>5, MailPlaces, MailNames DEF MailPut
  <2>2. s # mb(d) => value'[s] = value[s] /\ waitsOn'[i] # s
    BY <1>1, <2>1, OthersKeep
  <2>3. fs(d) \in MailSem <=> Task = 6
    BY MailNames
  <2>4. QED
    BY <1>5, <2>1, <2>2, <2>3 DEF Exchanged, Given, Kept, Filled
<1>6. QED
  BY <1>2, <1>3, <1>4, <1>5 DEF MailTake

\* Every unit stays accounted for.
LEMMA AccountsMove ==
    ASSUME MailInv, MailWaits, MailWaits', Task \in {5, 6}, Task' = Task,
           NEW i \in Person, NEW to, NEW d, MailMove(i, to, d)
    PROVE  Accounts'
<1>1. d \in Person /\ i \in Threads /\ waitsOn[i] = NoSem
  BY MailOthers DEF MailMove
<1>2. MailSem' = MailSem
  BY DEF MailSem
<1>3. \A s \in MailSem : value[s] \in Nat /\ value'[s] \in Nat /\ s # NoSem
  BY <1>2, MailNames DEF MailWaits
<1>4. ASSUME NEW s \in MailSem
      PROVE  Exchanged(i, to, d, s) \/ Freed(i, to, d, s) \/ Filled(i, to, d, s)
  BY <1>1, ClaimExchanges, GiveExchanges, OtherExchanges DEF MailMove
<1>5. ASSUME NEW s \in MailSem, Exchanged(i, to, d, s)
      PROVE  value'[s] + Cardinality(Owners(s))' = value[s] + Cardinality(Owners(s))
  <2>1. /\ Claims(i, s) => \/ value'[s] = value[s] /\ waitsOn'[i] = s
                           \/ value'[s] = value[s] - 1 /\ waitsOn'[i] # s
        /\ Gives(s) => value'[s] = value[s] + 1 /\ waitsOn'[i] # s
    BY <1>1, <1>3 DEF MailWaits, Claims, Gives
  <2>2. CASE Claimed(i, to, d, s)
    BY <1>3, <2>1, <2>2, OwnersChange DEF Claimed
  <2>3. CASE Given(i, to, d, s)
    BY <1>3, <2>1, <2>3, OwnersChange DEF Given
  <2>4. CASE Kept(i, to, d, s)
    BY <1>3, <2>4, OwnersChange DEF Kept
  <2>5. QED
    BY <1>5, <2>2, <2>3, <2>4 DEF Exchanged
<1>6. ASSUME NEW s \in {mc} \cup {mb(j) : j \in Person}
      PROVE  value'[s] + Cardinality(Owners(s))' = 1
  <2>1. s \in MailSem /\ \A j \in Person : s # fs(j)
    BY MailNames
  <2>2. Exchanged(i, to, d, s)
    BY <1>1, <1>4, <2>1 DEF Freed, Filled
  <2>3. value[s] + Cardinality(Owners(s)) = 1
    BY DEF MailInv, Accounts
  <2>4. QED
    BY <1>5, <2>1, <2>2, <2>3
<1>7. ASSUME NEW j \in Person, Task = 6
      PROVE  value'[fs(j)] + MsgPtr'[j] + Cardinality(Owners(fs(j)))' = S
  <2> DEFINE s == fs(j)
  <2>1. s \in MailSem /\ \A k \in Person : s = fs(k) => j = k
    BY <1>7, MailNames
  <2>2. /\ value[s] + MsgPtr[j] + Cardinality(Owners(s)) = S
        /\ MsgPtr \in [Person -> 0..S] /\ MsgPtr[j] \in Nat
    BY <1>7, ExerciseAssumption DEF MailInv, Accounts, MailTypes
  <2>3. CASE Freed(i, to, d, s)
    <3>1. i = j /\ MsgPtr'[j] = MsgPtr[j] - 1
      BY <1>1, <2>1, <2>2, <2>3 DEF Freed, MailTake
    <3>2. Cardinality(Owners(s))' = Cardinality(Owners(s)) /\ Cardinality(Owners(s)) \in Nat
      BY <1>3, <2>1, <2>3, OwnersChange DEF Freed
    <3>3. value'[s] = value[s] + 1
      BY <2>1, <2>3 DEF Freed, Gives, MailWaits
    <3> HIDE DEF s
    <3>4. QED
      BY <1>3, <2>1, <2>2, <3>1, <3>2, <3>3 DEF s
  <2>4. CASE Filled(i, to, d, s)
    <3>1. d = j /\ MsgPtr'[j] = MsgPtr[j] + 1
      BY <1>1, <2>1, <2>2, <2>4 DEF Filled, MailPut
    <3>2. Cardinality(Owners(s))' = Cardinality(Owners(s)) - 1 /\ Cardinality(Owners(s)) \in Nat
      BY <1>3, <2>1, <2>4, OwnersChange DEF Filled
    <3>3. value'[s] = value[s]
      BY <2>4 DEF Filled
    <3>4. QED
      BY <1>3, <2>1, <2>2, <3>1, <3>2, <3>3
  <2>5. CASE Exchanged(i, to, d, s) /\ ~Freed(i, to, d, s) /\ ~Filled(i, to, d, s)
    <3>1. value'[s] + Cardinality(Owners(s))' = value[s] + Cardinality(Owners(s))
      BY <1>5, <2>1, <2>5
    <3>2. MsgPtr'[j] = MsgPtr[j]
      <4>1. CASE MailTake(i, to, d)
        <5>1. CASE i # j
          BY <2>2, <4>1, <5>1 DEF MailTake
        <5>2. CASE i = j
          <6>1. Gives(s) /\ pc[i] = "read" /\ to = "hasRead" /\ s # mb(i)
            BY <1>7, <4>1, <5>2, MailNames DEF MailTake
          <6>2. s \notin HeldAt(i, pc[i], iSendTo[i]) /\ s \notin HeldAt(i, to, d)
            BY <6>1, MailPlaces
          <6>3. QED
            BY <1>7, <2>5, <4>1, <5>2, <6>1, <6>2 DEF Freed
        <5>3. QED
          BY <5>1, <5>2
      <4>2. CASE MailPut(i, to, d)
        <5>1. CASE d # j
          BY <1>1, <2>2, <4>2, <5>1 DEF MailPut
        <5>2. CASE d = j
          <6>1. Gives(mb(d)) /\ pc[i] = "send" /\ to = "sent" /\ s # mb(d) /\ s # mc /\ d = iSendTo[i]
            BY <1>1, <4>2, <5>2, MailNames DEF MailPut
          <6>2. s \in HeldAt(i, pc[i], iSendTo[i]) /\ s \notin HeldAt(i, to, d)
            BY <5>2, <6>1, MailPlaces
          <6>3. value'[s] = value[s] /\ waitsOn'[i] # s
            BY <1>1, <2>1, <6>1, OthersKeep, MailNames
          <6>4. QED
            BY <1>7, <2>5, <4>2, <5>2, <6>2, <6>3 DEF Filled
        <5>3. QED
          BY <5>1, <5>2
      <4>3. CASE ~MailTake(i, to, d) /\ ~MailPut(i, to, d)
        BY <4>3 DEF MailMove, MailClaim, MailGive, MailQuiet, MailHome
      <4>4. QED
        BY <4>1, <4>2, <4>3
    <3>3. Cardinality(Owners(s)) \in Nat /\ Cardinality(Owners(s))' \in Nat
      BY OwnersChange
    <3>4. QED
      BY <1>3, <2>1, <2>2, <3>1, <3>2, <3>3
  <2>6. QED
    BY <1>4, <2>1, <2>3, <2>4, <2>5
<1>8. QED
  BY <1>6, <1>7 DEF Accounts

\* A mutex has one owner.
LEMMA OneOwner ==
    ASSUME MailInv, MailWaits, NEW s \in {mc} \cup {mb(j) : j \in Person},
           NEW i \in Owners(s), NEW j \in Owners(s)
    PROVE  i = j
<1>1. value[s] \in Nat /\ value[s] + Cardinality(Owners(s)) = 1
  BY MailNames DEF MailInv, Accounts, MailWaits
<1>2. Owners(s) \in SUBSET Person /\ i \in Person
  BY DEF Owners
<1>3. Cardinality(Owners(s)) \in Nat /\ Cardinality(Owners(s) \ {i}) = Cardinality(Owners(s)) - 1
  BY <1>2, Counted
<1>4. Owners(s) \ {i} \in SUBSET Person /\ Cardinality(Owners(s) \ {i}) \in Nat
  BY <1>2, Counted
<1>5. Cardinality(Owners(s) \ {i}) = 0
  BY <1>1, <1>3, <1>4
<1>6. Owners(s) \ {i} = {}
  BY <1>4, <1>5, CountedAll
<1>7. QED
  BY <1>6

\* A person who can deliver has room for the message, and it is not too many.
LEMMA RoomToSend ==
    ASSUME MailInv, MailWaits, Task \in {5, 6}, NEW i \in Person, NEW to, NEW d,
           MailMove(i, to, d), MailPut(i, to, d)
    PROVE  MsgPtr[d] < S /\ MsgSentCnt < M
<1>1. pc[i] = "send" /\ d = iSendTo[i] /\ d \in Person /\ waitsOn[i] = NoSem
  BY DEF MailMove, MailPut
<1>2. CASE Task = 5
  BY <1>1, <1>2 DEF MailInv, Sending
<1>3. CASE Task = 6
  <2>1. fs(d) \in MailSem /\ fs(d) # NoSem
    BY <1>1, <1>3, MailNames
  <2>2. fs(d) \in HeldAt(i, pc[i], iSendTo[i])
    BY <1>1, MailPlaces
  <2>3. i \in Owners(fs(d)) /\ Owners(fs(d)) \in SUBSET Person
    BY <1>1, <2>1, <2>2 DEF Owners
  <2>4. Cardinality(Owners(fs(d))) \in Nat /\ Cardinality(Owners(fs(d))) >= 1
    BY <2>3, Counted
  <2>5. /\ value[fs(d)] + MsgPtr[d] + Cardinality(Owners(fs(d))) = S
        /\ MsgPtr[d] \in 0..S /\ value[fs(d)] \in Nat
    BY <1>1, <1>3, <2>1 DEF MailInv, Accounts, MailTypes, MailWaits
  <2>6. MsgPtr[d] < S
    BY <2>4, <2>5, ExerciseAssumption
  <2>7. QED
    BY <1>3, <2>6 DEF MailPut
<1>4. QED
  BY <1>2, <1>3

\* A move leads to a place of the task; the counters stay within their bounds.
LEMMA MailTypesMove ==
    ASSUME MailInv, MailWaits, Task \in {5, 6}, Task' = Task,
           NEW i \in Person, NEW to, NEW d, MailMove(i, to, d)
    PROVE  MailTypes'
<1>1. /\ pc \in [Threads -> MailPlace] /\ i \in Threads /\ d \in Person
      /\ pc[i] \notin (IF Task = 5 THEN SpacePlace ELSE LoopPlace)
      /\ iSendTo \in [Person -> Person] /\ MsgPtr \in [Person -> 0..S]
      /\ MailBox \in [Person -> [1..S -> Nat]] /\ MsgSentCnt \in 0..M
      /\ done \in [Person -> BOOLEAN]
  BY MainIsNobody DEF MailInv, MailTypes, MailMove
<1>2. to \in MailPlace /\ to \notin (IF Task = 5 THEN SpacePlace ELSE LoopPlace)
  <2>1. CASE Task = 5
    <3>1. pc[i] \notin SpacePlace
      BY <1>1, <2>1
    <3>2. to \in MailPlace /\ to \notin SpacePlace
      BY <2>1, <3>1 DEF MailMove, MailClaim, MailGive, MailQuiet, MailTake, MailPut, MailHome,
         MailPlace, SpacePlace, LoopPlace
    <3>3. QED
      BY <2>1, <3>2
  <2>2. CASE Task = 6
    <3>1. pc[i] \notin LoopPlace
      BY <1>1, <2>2
    <3>2. to \in MailPlace /\ to \notin LoopPlace
      BY <2>2, <3>1 DEF MailMove, MailClaim, MailGive, MailQuiet, MailTake, MailPut, MailHome,
         MailPlace, SpacePlace, LoopPlace
    <3>3. QED
      BY <2>2, <3>2
  <2>3. QED
    BY <2>1, <2>2
<1>3. /\ pc' \in [Threads -> MailPlace]
      /\ \A j \in Person : pc'[j] \notin (IF Task' = 5 THEN SpacePlace ELSE LoopPlace)
      /\ iSendTo' \in [Person -> Person]
  BY <1>1, <1>2, MainIsNobody DEF MailMove, MailInv, MailTypes
<1>4. MsgPtr' \in [Person -> 0..S] /\ MailBox' \in [Person -> [1..S -> Nat]] /\ MsgSentCnt' \in 0..M
  <2>1. CASE MailTake(i, to, d)
    <3>1. MsgPtr[i] \in 0..S /\ MsgPtr[i] > 0
      BY <1>1, <2>1 DEF MailTake, MailInv, Reading
    <3>2. MsgPtr[i] - 1 \in 0..S
      BY <3>1, ExerciseAssumption
    <3>3. QED
      BY <1>1, <2>1, <3>2 DEF MailTake
  <2>2. CASE MailPut(i, to, d)
    <3>1. MsgPtr[d] < S /\ MsgSentCnt < M /\ MsgPtr[d] \in 0..S
      BY <1>1, <2>2, RoomToSend
    <3>2. MsgPtr[d] + 1 \in 0..S /\ MsgSentCnt + 1 \in 0..M /\ MsgSentCnt + 1 \in Nat
      BY <1>1, <3>1, ExerciseAssumption
    <3>3. MailBox[d] \in [1..S -> Nat]
      BY <1>1
    <3>4. [MailBox[d] EXCEPT ![MsgPtr[d] + 1] = MsgSentCnt + 1] \in [1..S -> Nat]
      BY <3>2, <3>3
    <3>5. QED
      BY <1>1, <2>2, <3>2, <3>4 DEF MailPut
  <2>3. CASE ~MailTake(i, to, d) /\ ~MailPut(i, to, d)
    BY <1>1, <2>3 DEF MailMove, MailClaim, MailGive, MailQuiet, MailHome
  <2>4. QED
    BY <2>1, <2>2, <2>3
<1>5. done' \in [Person -> BOOLEAN]
  <2>1. done' = done \/ done' = [done EXCEPT ![i] = TRUE]
    BY DEF MailMove, MailClaim, MailGive, MailQuiet, MailTake, MailPut, MailHome
  <2>2. QED
    BY <1>1, <2>1
<1>6. ASSUME NEW t \in Threads, waitsOn'[t] # NoSem
      PROVE  t \in Person /\ waitsOn'[t] = WaitsFor(t, pc'[t], iSendTo'[t])
  <2>1. CASE t = i
    BY <1>6, <2>1, MailOthers
  <2>2. CASE t # i
    <3>1. waitsOn'[t] = waitsOn[t] /\ pc'[t] = pc[t]
      BY <2>2, MailOthers
    <3>2. t \in Person /\ waitsOn[t] = WaitsFor(t, pc[t], iSendTo[t])
      BY <1>6, <3>1 DEF MailInv, MailTypes
    <3>3. iSendTo'[t] = iSendTo[t]
      BY <2>2, <3>2, MailOthers
    <3>4. QED
      BY <3>1, <3>2, <3>3
  <2>3. QED
    BY <2>1, <2>2
<1>7. \A t \in Threads : waitsOn'[t] # NoSem =>
          t \in Person /\ waitsOn'[t] = WaitsFor(t, pc[t], iSendTo[t])'
  BY <1>6 DEF WaitsFor
<1>8. QED
  BY <1>3, <1>4, <1>5, <1>7 DEF MailTypes

\* Nobody else takes one's mail, and nothing happens once all is done.
LEMMA ReadingMove ==
    ASSUME MailInv, MailWaits, Task \in {5, 6}, Task' = Task,
           NEW i \in Person, NEW to, NEW d, MailMove(i, to, d)
    PROVE  Reading'
<1>1. /\ d \in Person /\ MsgPtr \in [Person -> 0..S] /\ MsgSentCnt \in 0..M
      /\ done \in [Person -> BOOLEAN]
      /\ \A j \in Person : pc'[j] = IF j = i THEN to ELSE pc[j]
  BY MailOthers, MainIsNobody DEF MailInv, MailTypes
<1>2. /\ \A j \in Person : pc[j] = "read" => MsgPtr[j] > 0
      /\ \A j \in Person : pc[j] = "finished" <=> done[j]
      /\ \A j \in Person : done[j] => Empty
  BY DEF MailInv, Reading
<1>3. CASE MailTake(i, to, d)
  <2>1. /\ MsgPtr[i] > 0 /\ MsgPtr' = [MsgPtr EXCEPT ![i] = @ - 1] /\ done' = done
        /\ pc[i] = "read" /\ to \in {"readYield", "hasRead"}
    BY <1>2, <1>3 DEF MailTake
  <2>2. \A j \in Person : ~done[j]
    BY <1>2, <2>1 DEF Empty
  <2>3. QED
    BY <1>1, <1>2, <2>1, <2>2 DEF Reading
<1>4. CASE MailPut(i, to, d)
  <2>1. /\ MsgSentCnt < M /\ MsgPtr' = [MsgPtr EXCEPT ![d] = @ + 1] /\ done' = done
        /\ pc[i] = "send" /\ to = "sent"
    BY <1>4, RoomToSend DEF MailPut
  <2>2. \A j \in Person : ~done[j]
    BY <1>1, <1>2, <2>1 DEF Empty
  <2>3. \A j \in Person : MsgPtr'[j] >= MsgPtr[j] /\ MsgPtr[j] \in Nat
    BY <1>1, <2>1, ExerciseAssumption
  <2>4. QED
    BY <1>1, <1>2, <2>1, <2>2, <2>3 DEF Reading
<1>5. CASE MailHome(i, to, d)
  <2>1. /\ UNCHANGED <<MsgPtr, MsgSentCnt>> /\ done' = [done EXCEPT ![i] = TRUE] /\ Empty
        /\ to = "finished"
    BY <1>5 DEF MailHome
  <2>2. Empty' /\ \A j \in Person : done'[j] = IF j = i THEN TRUE ELSE done[j]
    BY <1>1, <2>1 DEF Empty
  <2>3. QED
    BY <1>1, <1>2, <2>1, <2>2 DEF Reading
<1>6. CASE MailClaim(i, to, d) \/ MailGive(i, to, d) \/ MailQuiet(i, to, d)
  <2>1. UNCHANGED <<MsgPtr, MsgSentCnt, done>> /\ to # "finished" /\ pc[i] # "finished"
    BY <1>6 DEF MailClaim, MailGive, MailQuiet
  <2>2. to = "read" => MsgPtr[i] # 0
    BY <1>6 DEF MailClaim, MailGive, MailQuiet
  <2>3. Empty' <=> Empty
    BY <2>1 DEF Empty
  <2>4. QED
    BY <1>1, <1>2, <2>1, <2>2, <2>3 DEF Reading
<1>7. QED
  BY <1>3, <1>4, <1>5, <1>6 DEF MailMove

\* Task 5: who sends has the message counter, so nobody else sends.
LEMMA SendingMove ==
    ASSUME MailInv, MailWaits, Task \in {5, 6}, Task' = Task,
           NEW i \in Person, NEW to, NEW d, MailMove(i, to, d)
    PROVE  Sending'
<1> SUFFICES ASSUME Task = 5
             PROVE  \A j \in Person :
                        /\ pc'[j] \in {"full", "send"} => MsgSentCnt' < M
                        /\ pc'[j] = "send" => MsgPtr'[iSendTo'[j]] < S
  BY DEF Sending
<1>1. /\ d \in Person /\ MsgPtr \in [Person -> 0..S] /\ MsgSentCnt \in 0..M
      /\ iSendTo \in [Person -> Person]
      /\ \A j \in Person : pc'[j] = IF j = i THEN to ELSE pc[j]
      /\ \A j \in Person : iSendTo'[j] = IF j = i THEN d ELSE iSendTo[j]
  BY MailOthers, MainIsNobody DEF MailInv, MailTypes
<1>2. /\ \A j \in Person : pc[j] \in {"full", "send"} => MsgSentCnt < M
      /\ \A j \in Person : pc[j] = "send" => MsgPtr[iSendTo[j]] < S
  BY DEF MailInv, Sending
<1>3. CASE MailPut(i, to, d)
  <2>1. ASSUME NEW j \in Person, j # i PROVE pc[j] \notin {"full", "send"}
    <3>1. CASE pc[j] \in {"full", "send"}
      <4>1. mc \in HeldAt(j, pc[j], iSendTo[j])
        BY <3>1, MailPlaces
      <4>2. pc[j] = "full" => WaitsFor(j, pc[j], iSendTo[j]) = NoSem
        <5>1. WaitsFor(j, "full", iSendTo[j]) = NoSem
          BY DEF WaitsFor
        <5>2. QED
          BY <5>1
      <4>3. pc[j] = "send" => WaitsFor(j, pc[j], iSendTo[j]) = mb(iSendTo[j])
        <5>1. WaitsFor(j, "send", iSendTo[j]) = mb(iSendTo[j])
          BY MailPlaces
        <5>2. QED
          BY <5>1
      <4>4. waitsOn[j] # mc
        BY <1>1, <3>1, <4>2, <4>3, MailNames, MainIsNobody DEF MailInv, MailTypes
      <4>5. pc[i] = "send" /\ waitsOn[i] = NoSem
        BY <1>3 DEF MailPut, MailMove
      <4>6. mc \in HeldAt(i, pc[i], iSendTo[i]) /\ waitsOn[i] # mc
        BY <4>5, MailPlaces, MailNames
      <4>7. i \in Owners(mc) /\ j \in Owners(mc)
        BY <4>1, <4>4, <4>6 DEF Owners
      <4>8. QED
        BY <2>1, <4>7, OneOwner
    <3>2. QED
      BY <3>1
  <2>2. to = "sent"
    BY <1>3 DEF MailPut
  <2>3. QED
    BY <1>1, <2>1, <2>2
<1>4. CASE MailTake(i, to, d)
  <2>1. /\ to = "readYield" /\ MsgSentCnt' = MsgSentCnt
        /\ MsgPtr' = [MsgPtr EXCEPT ![i] = @ - 1]
    BY <1>4 DEF MailTake
  <2>2. \A j \in Person : MsgPtr'[j] <= MsgPtr[j] /\ MsgPtr[j] \in Nat /\ MsgPtr'[j] \in Int
    BY <1>1, <2>1, ExerciseAssumption
  <2>3. QED
    BY <1>1, <1>2, <2>1, <2>2, ExerciseAssumption
<1>5. CASE ~MailPut(i, to, d) /\ ~MailTake(i, to, d)
  <2>1. UNCHANGED <<MsgPtr, MsgSentCnt>>
    BY <1>5 DEF MailMove, MailClaim, MailGive, MailQuiet, MailHome
  <2>2. to \in {"full", "send"} => MsgSentCnt < M
    BY <1>2, <1>5 DEF MailMove, MailClaim, MailGive, MailQuiet, MailHome
  <2>3. to = "send" => MsgPtr[d] # S
    BY <1>5 DEF MailMove, MailClaim, MailGive, MailQuiet, MailHome
  <2>4. MsgPtr[d] # S => MsgPtr[d] < S
    BY <1>1, ExerciseAssumption
  <2>5. QED
    BY <1>1, <1>2, <2>1, <2>2, <2>3, <2>4
<1>6. QED
  BY <1>3, <1>4, <1>5

\* Who starts to wait for room has no mail, and of two waiting people neither
\* can send any to the other.
LEMMA FacingMove ==
    ASSUME MailInv, MailWaits, Task \in {5, 6}, Task' = Task,
           NEW i \in Person, NEW to, NEW d, MailMove(i, to, d)
    PROVE  Facing'
<1>1. /\ d \in Person /\ MsgPtr \in [Person -> 0..S] /\ waitsOn[i] = NoSem
      /\ \A j \in Person : pc'[j] = IF j = i THEN to ELSE pc[j]
      /\ \A j \in Person : iSendTo'[j] = IF j = i THEN d ELSE iSendTo[j]
      /\ \A j \in Person \ {i} : waitsOn'[j] = waitsOn[j]
      /\ waitsOn'[i] # NoSem => MailClaim(i, to, d)
  <2>1. d \in Person /\ MsgPtr \in [Person -> 0..S] /\ waitsOn[i] = NoSem
    BY DEF MailMove, MailInv, MailTypes
  <2>2. /\ \A j \in Person : pc'[j] = IF j = i THEN to ELSE pc[j]
        /\ \A j \in Person : iSendTo'[j] = IF j = i THEN d ELSE iSendTo[j]
        /\ \A j \in Person \ {i} : waitsOn'[j] = waitsOn[j]
        /\ waitsOn'[i] # NoSem => MailClaim(i, to, d)
    BY MailOthers, MainIsNobody
  <2>3. QED
    BY <2>1, <2>2
<1>2. to = "gotSpace" => d # i /\ MsgPtr[i] = 0 /\ UNCHANGED MsgPtr
  BY DEF MailMove, MailClaim, MailGive, MailQuiet, MailTake, MailPut, MailHome
<1>3. \A j \in Person : pc'[j] = "gotSpace" => iSendTo'[j] # j
  BY <1>1, <1>2 DEF MailInv, Facing
<1>4. ASSUME NumPeople = 2, NEW j \in Person, NEW k \in Person, j # k,
             pc'[j] = "gotSpace", pc'[k] = "gotSpace",
             waitsOn'[j] # NoSem, waitsOn'[k] # NoSem
      PROVE  MsgPtr'[j] = 0 \/ MsgPtr'[k] = 0
  <2>1. i = j \/ i = k
    BY <1>4 DEF Person
  <2>2. to = "gotSpace"
    BY <1>1, <1>4, <2>1
  <2>3. QED
    BY <1>2, <2>1, <2>2
<1>5. QED
  BY <1>3, <1>4 DEF Facing

\* Every move keeps the invariant.
LEMMA MailMoveKeeps ==
    ASSUME MailInv, MailWaits, MailWaits', Task \in {5, 6}, Task' = Task,
           NEW i \in Person, NEW to, NEW d, MailMove(i, to, d)
    PROVE  MailInv'
<1>1. MailTypes' /\ Reading' /\ Sending'
  BY MailTypesMove, ReadingMove, SendingMove
<1>2. Accounts' /\ Facing'
  BY AccountsMove, FacingMove
<1>3. QED
  BY <1>1, <1>2 DEF MailInv

\* He stays where he is, and now owns the unit.
LEMMA MailServedKeeps ==
    ASSUME MailInv, MailWaits, MailWaits', Task \in {5, 6}, Task' = Task,
           NEW t \in Threads, MailServed(t),
           UNCHANGED <<pc, iSendTo, MsgPtr, MailBox, MsgSentCnt, done>>
    PROVE  MailInv'
<1> DEFINE r == waitsOn[t]
<1>1. /\ t \in Person /\ r = WaitsFor(t, pc[t], iSendTo[t]) /\ r \in MailSem /\ r # NoSem
      /\ iSendTo[t] \in Person /\ pc[t] \in MailPlace
  BY MailNames DEF MailInv, MailTypes, MailServed
<1>2. \A j \in Threads : waitsOn'[j] = IF j = t THEN NoSem ELSE waitsOn[j]
  BY DEF MailWaits, MailServed
<1>3. \A s \in MailSem : /\ value[s] \in Nat /\ value'[s] \in Nat /\ s # NoSem
                         /\ s # r => value'[s] = value[s]
                         /\ s = r => value'[s] = value[s] - 1
  BY MailNames DEF MailWaits, MailServed, MailSem
<1>4. MailTypes'
  BY <1>2 DEF MailInv, MailTypes, WaitsFor
<1>5. Reading' /\ Sending'
  BY DEF MailInv, Reading, Sending, Empty
<1>6. Facing'
  BY <1>2, MainIsNobody DEF MailInv, Facing
<1>7. r \in HeldAt(t, pc[t], iSendTo[t])
  <2>1. pc[t] \in {"read", "claimed", "gotSpace", "gotBox", "send"}
    BY <1>1 DEF WaitsFor
  <2>2. CASE pc[t] = "send"
    BY <1>1, <2>2, MailPlaces
  <2>3. CASE pc[t] # "send"
    BY <1>1, <2>1, <2>3, MailPlaces
  <2>4. QED
    BY <2>2, <2>3
<1>8. ASSUME NEW s \in MailSem
      PROVE  /\ value'[s] + Cardinality(Owners(s))' = value[s] + Cardinality(Owners(s))
             /\ Cardinality(Owners(s)) \in Nat /\ Cardinality(Owners(s))' \in Nat
  <2> DEFINE A == {j \in Person : s \in HeldAt(j, pc[j], iSendTo[j]) /\ waitsOn[j] # s}
             B == {j \in Person : s \in HeldAt(j, pc[j], iSendTo[j]) /\ waitsOn'[j] # s}
  <2>1. /\ A \in SUBSET Person /\ B \in SUBSET Person /\ Owners(s) = A /\ Owners(s)' = B
    BY DEF Owners, HeldAt
  <2>2. /\ \A j \in Person \ {t} : j \in A <=> j \in B
        /\ s = r => t \notin A /\ t \in B
        /\ s # r => (t \in A <=> t \in B)
    BY <1>1, <1>2, <1>3, <1>7, MainIsNobody
  <2> HIDE DEF A, B
  <2>3. /\ Cardinality(A) \in Nat /\ Cardinality(B) \in Nat
        /\ t \in B /\ t \notin A => Cardinality(B) = Cardinality(A) + 1
        /\ (t \in A <=> t \in B) => Cardinality(B) = Cardinality(A)
    BY <1>1, <2>1, <2>2, WithinChanges
  <2>4. QED
    BY <1>3, <2>1, <2>2, <2>3
<1>9. Accounts'
  <2>1. ASSUME NEW s \in {mc} \cup {mb(j) : j \in Person}
        PROVE  value'[s] + Cardinality(Owners(s))' = 1
    BY <1>8, MailNames DEF MailInv, Accounts
  <2>2. ASSUME NEW j \in Person, Task = 6
        PROVE  value'[fs(j)] + MsgPtr'[j] + Cardinality(Owners(fs(j)))' = S
    <3>1. value[fs(j)] + MsgPtr[j] + Cardinality(Owners(fs(j))) = S
      BY <2>2 DEF MailInv, Accounts
    <3>2. fs(j) \in MailSem /\ MsgPtr[j] \in 0..S /\ MsgPtr'[j] = MsgPtr[j]
      BY <2>2, MailNames DEF MailInv, MailTypes
    <3>3. /\ value'[fs(j)] + Cardinality(Owners(fs(j)))' = value[fs(j)] + Cardinality(Owners(fs(j)))
          /\ Cardinality(Owners(fs(j))) \in Nat /\ Cardinality(Owners(fs(j)))' \in Nat
          /\ value[fs(j)] \in Nat /\ value'[fs(j)] \in Nat
      BY <1>3, <1>8, <3>2
    <3>4. QED
      BY <3>1, <3>2, <3>3, ExerciseAssumption
  <2>3. QED
    BY <2>1, <2>2 DEF Accounts
<1>10. QED
  BY <1>4, <1>5, <1>6, <1>9 DEF MailInv

\* The main thread is nobody's place, and waits for nothing.
LEMMA MailMain ==
    ASSUME MailInv, Task' = Task,
           UNCHANGED <<value, waitsOn, iSendTo, MsgPtr, MailBox, MsgSentCnt, done>>,
           \/ pc' = [pc EXCEPT ![MainThread] = "finished"] /\ waitsOn[MainThread] = NoSem
           \/ pc' = pc
    PROVE  MailInv'
<1>1. pc' \in [Threads -> MailPlace] /\ \A i \in Person : pc'[i] = pc[i]
  <2>1. pc \in [Threads -> MailPlace] /\ "finished" \in MailPlace
    BY DEF MailInv, MailTypes, MailPlace
  <2>2. QED
    BY <2>1, MainIsNobody
<1>2. MailTypes'
  <2>1. \A t \in Threads : waitsOn'[t] # NoSem =>
            t \in Person /\ waitsOn'[t] = WaitsFor(t, pc[t], iSendTo[t])'
    BY <1>1 DEF MailInv, MailTypes, WaitsFor
  <2>2. QED
    BY <1>1, <2>1 DEF MailInv, MailTypes
<1>3. \A s : Owners(s)' = Owners(s)
  BY <1>1 DEF Owners, HeldAt
<1>4. Accounts'
  BY <1>3 DEF MailInv, Accounts
<1>5. Reading' /\ Sending' /\ Facing'
  BY <1>1 DEF MailInv, Reading, Sending, Facing, Empty
<1>6. QED
  BY <1>2, <1>4, <1>5 DEF MailInv

-----------------------------------------------------------------------------
(***************************************************************************)
(* Who was forked and who has finished                                     *)
(***************************************************************************)
Started ==
    /\ \A i \in Person : kpc[i] = "new" => i >= cnt[MainThread]
    /\ \A t \in Threads : kpc[t] = "finish" <=> pc[t] = "finished"
    /\ kpc[MainThread] # "new"
    /\ pc[MainThread] = "finished" => cnt[MainThread] = NumPeople

\* A person who moves forks nobody, and finishes when he goes home.
LEMMA StartedMove ==
    ASSUME Started, MailInv, MailWaits, NEW i \in Person, NEW to, NEW d, MailMove(i, to, d),
           IF to = "finished" THEN Ends(i) ELSE StacksStay, cnt'[MainThread] = cnt[MainThread]
    PROVE  Started'
<1>1. /\ \A t \in Threads : pc'[t] = IF t = i THEN to ELSE pc[t]
      /\ i \in Threads /\ i # MainThread /\ MainThread \in Threads
  BY MailOthers, MainIsNobody
<1>2. pc[i] # "finished"
  BY DEF MailMove, MailClaim, MailGive, MailQuiet, MailTake, MailPut, MailHome
<1>3. /\ \A x \in Threads : kpc'[x] = "new" <=> kpc[x] = "new"
      /\ \A x \in Threads : kpc'[x] = "finish" <=> kpc[x] = "finish" \/ (x = i /\ to = "finished")
  BY DEF Ends, StacksStay
<1>4. QED
  BY <1>1, <1>2, <1>3, MainIsNobody DEF Started

\* The kernel by itself forks nobody and ends nobody.
LEMMA StartedStay ==
    ASSUME Started, StacksStay, UNCHANGED <<pc, cnt>>
    PROVE  Started'
BY MainIsNobody DEF Started, StacksStay

\* The main thread forks the people one after the other ...
LEMMA StartedFork ==
    ASSUME Started, cnt \in [Threads -> Nat], cnt[MainThread] \in Person, Starts(cnt[MainThread]),
           cnt' = [cnt EXCEPT ![MainThread] = @ + 1], pc' = pc, pc[MainThread] = "fork"
    PROVE  Started'
<1>1. /\ MainThread \in Threads
      /\ \A i \in Person : i \in Threads /\ i # MainThread /\ i \in Nat
  BY MainIsNobody, ExerciseAssumption DEF Person
<1>2. cnt'[MainThread] = cnt[MainThread] + 1 /\ cnt[MainThread] \in Nat
  BY <1>1
<1>3. QED
  BY <1>1, <1>2 DEF Started, Starts

\* ... and then finishes.
LEMMA StartedFinish ==
    ASSUME Started, MailTypes, cnt[MainThread] = NumPeople, Ends(MainThread), cnt' = cnt,
           pc' = [pc EXCEPT ![MainThread] = "finished"]
    PROVE  Started'
<1>1. /\ pc \in [Threads -> MailPlace] /\ MainThread \in Threads
      /\ \A i \in Person : i \in Threads /\ i # MainThread
  BY MainIsNobody DEF MailTypes
<1>2. \A t \in Threads : pc'[t] = IF t = MainThread THEN "finished" ELSE pc[t]
  BY <1>1
<1>3. QED
  BY <1>1, <1>2 DEF Started, Ends

\* The loop counters of task 5: a person counts only his own.
LEMMA LoopCounters ==
    ASSUME Counters, NEW i \in Person, PL!PersonStep(i)
    PROVE  Counters' /\ cnt'[MainThread] = cnt[MainThread]
<1>1. cnt \in [Threads -> Nat] /\ i \in Threads /\ i # MainThread /\ MainThread \in Threads
  BY MainIsNobody DEF Counters
<1>2. \A n \in StallCycles : n - 1 \in Nat
  BY ExerciseAssumption
<1>3. \/ cnt' = cnt \/ (cnt[i] # 0 /\ cnt' = [cnt EXCEPT ![i] = @ - 1])
      \/ \E n \in Nat : cnt' = [cnt EXCEPT ![i] = n]
  BY <1>2 DEF PL!PersonStep, PL!Visit, PL!Decide, PL!Read, PL!Claimed, PL!Full, PL!Send, PL!Sent, PL!YieldAfterRead, PL!Stall, PL!GoHome
<1>4. QED
  BY <1>1, <1>3 DEF Counters

\* The main thread of task 5 forks the next person, or finishes.
LEMMA LoopForks ==
    ASSUME KL!KernelInv, Task = 5, Counters, PL!ForkPeople
    PROVE  /\ waitsOn[MainThread] = NoSem /\ Counters'
           /\ UNCHANGED <<value, waitsOn, iSendTo, MsgPtr, MailBox, MsgSentCnt, done>>
           /\ \/ /\ cnt[MainThread] \in Person /\ Starts(cnt[MainThread])
                 /\ cnt' = [cnt EXCEPT ![MainThread] = @ + 1] /\ pc' = pc
                 /\ pc[MainThread] = "fork"
                 /\ PL!K!Fork(MainThread, cnt[MainThread])
              \/ /\ cnt[MainThread] = NumPeople /\ Ends(MainThread)
                 /\ cnt' = cnt /\ pc' = [pc EXCEPT ![MainThread] = "finished"]
                 /\ PL!K!Finish(MainThread)
<1>1. /\ cnt \in [Threads -> Nat] /\ MainThread \in Threads /\ MainThread = PL!MainThread
      /\ cnt[MainThread] \in Nat
  BY MainIsNobody, LoopNames DEF Counters
<1>2. UNCHANGED <<iSendTo, MsgPtr, MailBox, MsgSentCnt, done>> /\ pc[MainThread] = "fork"
  BY <1>1 DEF PL!ForkPeople, PL!mailvars, PL!At
<1>3. CASE cnt[MainThread] < NumPeople
  <2>1. /\ PL!K!Fork(MainThread, cnt[MainThread]) /\ pc' = pc
        /\ cnt' = [cnt EXCEPT ![MainThread] = @ + 1]
    <3>1. cnt[MainThread] # NumPeople
      BY <1>1, <1>3, ExerciseAssumption
    <3>2. QED
      BY <1>1, <3>1 DEF PL!ForkPeople
  <2>2. cnt[MainThread] \in Person /\ cnt[MainThread] \in Threads
    BY <1>1, <1>3, ExerciseAssumption DEF Person, Threads
  <2>3. waitsOn[MainThread] = NoSem /\ UNCHANGED <<value, waitsOn>> /\ Starts(cnt[MainThread])
    BY <1>1, <2>1, <2>2, LoopEffects
  <2>4. QED
    BY <1>1, <1>2, <2>1, <2>2, <2>3 DEF Counters
<1>4. CASE ~(cnt[MainThread] < NumPeople)
  <2>1. /\ cnt[MainThread] = NumPeople /\ PL!K!Finish(MainThread) /\ cnt' = cnt
        /\ pc' = [pc EXCEPT ![MainThread] = "finished"]
    BY <1>1, <1>4 DEF PL!ForkPeople, PL!Goto
  <2>2. waitsOn[MainThread] = NoSem /\ UNCHANGED <<value, waitsOn>> /\ Ends(MainThread)
    BY <1>1, <2>1, LoopEffects
  <2>3. QED
    BY <1>1, <1>2, <2>1, <2>2 DEF Counters
<1>5. QED
  BY <1>3, <1>4

\* Every step of task 5 calls the kernel once, or is one of the kernel's own.
LEMMA LoopClient ==
    ASSUME KL!KernelInv, Task = 5, Counters, MailInv, PL!Next
    PROVE  [KL!ClientNext]_(KL!kvars)
<1>1. Threads = PL!Threads /\ Person = PL!Person /\ MainThread = PL!MainThread
  BY LoopNames
<1>2. ASSUME NEW t \in Threads,
             \/ \E s \in PL!Semaphores : PL!K!P(t, s) \/ PL!K!V(t, s)
             \/ PL!K!Yield(t) \/ PL!K!Finish(t)
             \/ \E u \in Threads : PL!K!Fork(t, u)
      PROVE  KL!ClientNext
  BY <1>1, <1>2, LoopCalls DEF KL!ClientNext, KL!Call
<1>3. CASE PL!ForkPeople
  <2>1. \/ PL!K!Finish(MainThread)
        \/ cnt[MainThread] \in Person /\ PL!K!Fork(MainThread, cnt[MainThread])
    BY <1>3, LoopForks
  <2>2. QED
    BY <1>2, <2>1, MainIsNobody
<1>4. ASSUME NEW i \in Person, PL!PersonStep(i) PROVE KL!ClientNext
  <2>1. i \in Threads /\ iSendTo[i] \in Person
    BY MainIsNobody DEF MailInv, MailTypes
  <2>2. /\ PL!MsgCntSemaphore \in PL!Semaphores
        /\ \A j \in Person : PL!mailboxSemaphore(j) \in PL!Semaphores
    BY <1>1 DEF PL!Semaphores
  <2>3. \/ \E s \in PL!Semaphores : PL!K!P(i, s) \/ PL!K!V(i, s)
        \/ PL!K!Yield(i) \/ PL!K!Finish(i)
    <3>1. CASE PL!Visit(i) \/ PL!Decide(i) \/ PL!Read(i) \/ PL!Sent(i)
      BY <2>2, <3>1 DEF PL!Visit, PL!Decide, PL!Enter, PL!ClaimOwnBox, PL!Read, PL!ReleaseOwnBox, PL!Sent
    <3>2. ASSUME NEW to \in Person, PL!TestBox(i, to)
          PROVE  PL!K!Yield(i) \/ \E s \in PL!Semaphores : PL!K!P(i, s)
      BY <2>2, <3>2 DEF PL!TestBox
    <3>3. CASE PL!Claimed(i) \/ PL!Full(i)
      BY <1>1, <2>1, <2>2, <3>2, <3>3 DEF PL!Claimed, PL!Full
    <3>4. CASE PL!Send(i) \/ PL!YieldAfterRead(i) \/ PL!Stall(i) \/ PL!GoHome(i)
      BY <2>1, <2>2, <3>4 DEF PL!Send, PL!YieldAfterRead, PL!Stall, PL!GoHome
    <3>5. QED
      BY <1>4, <3>1, <3>3, <3>4 DEF PL!PersonStep
  <2>4. QED
    BY <1>2, <2>1, <2>3
<1>5. CASE \E t \in Threads : PL!K!KernelStep(t)
  BY <1>1, <1>5, LoopCalls DEF KL!ClientNext
<1>6. CASE PL!Terminated
  BY <1>6 DEF PL!Terminated, PL!vars, PL!kvars, KL!kvars
<1>7. QED
  BY <1>1, <1>3, <1>4, <1>5, <1>6 DEF PL!Next

\* The invariant of task 5, with that of its kernel.
LoopInv == KL!KernelInv /\ Counters /\ Started /\ MailInv

\* Everybody is outside, nothing was sent and every unit is there at the start.
LEMMA LoopInit == Init /\ Task = 5 => LoopInv
<1> SUFFICES ASSUME Init, Task = 5 PROVE LoopInv
  OBVIOUS
<1>1. PL!Init /\ PL!PInit
  BY DEF Init, PL!Init
<1>2. Threads = PL!Threads /\ Person = PL!Person /\ MainThread = PL!MainThread
  BY LoopNames
<1>3. /\ pc = [t \in Threads |-> IF t = MainThread THEN "fork" ELSE "visit"]
      /\ cnt = [t \in Threads |-> 0]
  BY <1>1, <1>2 DEF PL!PInit, PL!ExerciseInit
<1>4. \A i \in Person : i \in Threads /\ i # MainThread /\ pc[i] = "visit"
  BY <1>3, MainIsNobody
<1>5. KL!KernelInv
  BY <1>1, LoopCalls, KL!KernelInit, LoopKernel DEF PL!PInit
<1>6. /\ \A t \in Threads : waitsOn[t] = NoSem
      /\ kpc = [t \in Threads |-> IF t = MainThread THEN "body" ELSE "new"]
      /\ value = [s \in MailSem |-> IF s[1] = "freeSpace" THEN S ELSE 1]
  BY <1>1, <1>2, LoopNames DEF PL!PInit, PL!K!Init, NoSem
<1>7. /\ iSendTo = [i \in Person |-> i] /\ MsgPtr = [i \in Person |-> 0]
      /\ MailBox = [i \in Person |-> [k \in 1..S |-> 0]]
      /\ MsgSentCnt = 0 /\ done = [i \in Person |-> FALSE]
  BY <1>1, <1>2 DEF PL!PInit
<1>8. Counters /\ Started
  <2>1. Counters /\ cnt[MainThread] = 0 /\ MainThread \in Threads
    BY <1>3, MainIsNobody DEF Counters
  <2>2. \A i \in Person : i >= 0
    BY ExerciseAssumption DEF Person
  <2>3. \A t \in Threads : kpc[t] # "finish" /\ pc[t] # "finished"
    BY <1>3, <1>6
  <2>4. kpc[MainThread] # "new"
    BY <1>6, <2>1
  <2>5. QED
    BY <2>1, <2>2, <2>3, <2>4 DEF Started
<1>9. MailTypes
  <2>1. pc \in [Threads -> MailPlace]
    BY <1>3 DEF MailPlace
  <2>2. \A i \in Person : pc[i] \notin (IF Task = 5 THEN SpacePlace ELSE LoopPlace)
    BY <1>4 DEF SpacePlace, LoopPlace
  <2>3. MsgPtr \in [Person -> 0..S] /\ MsgSentCnt \in 0..M
    BY <1>7, ExerciseAssumption
  <2>4. MailBox \in [Person -> [1..S -> Nat]]
    BY <1>7
  <2>5. QED
    BY <1>6, <1>7, <2>1, <2>2, <2>3, <2>4 DEF MailTypes
<1>10. Reading /\ Sending /\ Facing
  BY <1>4, <1>7 DEF Reading, Sending, Facing
<1>11. Accounts
  <2>1. \A s : Owners(s) = {}
    <3>1. \A i : HeldAt(i, "visit", iSendTo[i]) = {}
      BY MailPlaces
    <3>2. QED
      BY <1>4, <3>1 DEF Owners
  <2>2. \A s : Cardinality(Owners(s)) = 0
    BY <2>1, FS_EmptySet
  <2>3. ASSUME NEW s \in {mc} \cup {mb(j) : j \in Person} PROVE value[s] = 1
    <3>1. s \in MailSem
      BY MailNames
    <3>2. s[1] # "freeSpace"
      BY DEF mc, mb
    <3>3. QED
      BY <1>6, <3>1, <3>2
  <2>4. ASSUME Task = 6, NEW j \in Person PROVE value[fs(j)] = S
    <3>1. fs(j) \in MailSem
      BY <2>4, MailNames
    <3>2. fs(j)[1] = "freeSpace"
      BY DEF fs
    <3>3. QED
      BY <1>6, <3>1, <3>2
  <2>5. QED
    BY <1>7, <2>2, <2>3, <2>4, ExerciseAssumption DEF Accounts
<1>12. QED
  BY <1>5, <1>8, <1>9, <1>10, <1>11 DEF LoopInv, MailInv

\* The kernel's invariant types the values and the waits.
LEMMA LoopWaits == KL!KernelInv /\ Task = 5 => MailWaits
BY LoopEffects, MainIsNobody

\* A step of task 5 keeps the invariant, and is a move of a person or changes
\* nothing of the mail.
LEMMA LoopNext ==
    ASSUME LoopInv, Task = 5, [Next]_vars
    PROVE  /\ LoopInv'
           /\ \/ \E i \in Person : \E to, d : MailMove(i, to, d)
              \/ UNCHANGED <<MsgPtr, MailBox, MsgSentCnt, done>>
<1>1. Threads = PL!Threads /\ MainThread = PL!MainThread /\ Person = PL!Person
  BY LoopNames
<1>2. (PL!Next \/ UNCHANGED vars) /\ Task' = Task /\ MainThread \in Threads
  BY TaskStays, MainIsNobody DEF Next, ShoutStep, BusyWaitStep, SemaphoreStep, MailLoopStep, MailSemaphoreStep
<1>3. KL!KernelInv /\ Counters /\ Started /\ MailInv
  BY DEF LoopInv
<1>4. KL!KernelInv'
  <2>1. [KL!ClientNext]_(KL!kvars)
    BY <1>2, <1>3, LoopClient DEF vars, kvars, KL!kvars
  <2>2. QED
    BY <1>3, <2>1, KL!KernelNext, LoopKernel
<1>5. MailWaits /\ MailWaits'
  <2>1. KL!KernelInv' /\ (Task = 5)'
    BY <1>2, <1>4
  <2>2. MailWaits'
    BY <2>1, LoopWaits, PTL
  <2>3. QED
    BY <1>3, <2>2, LoopWaits
<1>6. CASE PL!ForkPeople
  <2>1. Started'
    BY <1>3, <1>6, LoopForks, StartedFork, StartedFinish DEF MailInv, Counters
  <2>2. MailInv'
    BY <1>2, <1>3, <1>6, LoopForks, MailMain
  <2>3. Counters' /\ UNCHANGED <<MsgPtr, MailBox, MsgSentCnt, done>>
    BY <1>3, <1>6, LoopForks
  <2>4. QED
    BY <1>4, <2>1, <2>2, <2>3 DEF LoopInv
<1>7. ASSUME NEW i \in Person, PL!PersonStep(i)
      PROVE  LoopInv' /\ \E to, d : MailMove(i, to, d)
  <2>1. PICK to, d : MailMove(i, to, d) /\ (IF to = "finished" THEN Ends(i) ELSE StacksStay)
    BY <1>3, <1>7, LoopMoves
  <2>2. Counters' /\ cnt'[MainThread] = cnt[MainThread]
    BY <1>3, <1>7, LoopCounters
  <2>3. Started'
    BY <1>3, <1>5, <2>1, <2>2, StartedMove
  <2>4. MailInv'
    BY <1>2, <1>3, <1>5, <2>1, MailMoveKeeps
  <2>5. QED
    BY <1>4, <2>1, <2>2, <2>3, <2>4 DEF LoopInv
<1>8. ASSUME NEW t \in Threads, PL!K!KernelStep(t),
             UNCHANGED <<pc, cnt, iSendTo, done, PL!mailvars>>
      PROVE  LoopInv' /\ UNCHANGED <<MsgPtr, MailBox, MsgSentCnt, done>>
  <2>1. StacksStay /\ (UNCHANGED <<value, waitsOn>> \/ MailServed(t))
    BY <1>3, <1>8, LoopEffects
  <2>2. UNCHANGED <<pc, cnt, iSendTo, done, MsgPtr, MailBox, MsgSentCnt>>
    BY <1>8 DEF PL!mailvars
  <2>3. Started' /\ Counters'
    BY <1>3, <2>1, <2>2, StartedStay DEF Counters
  <2>4. MailInv'
    BY <1>2, <1>3, <1>5, <2>1, <2>2, MailServedKeeps, MailMain
  <2>5. QED
    BY <1>4, <2>2, <2>3, <2>4 DEF LoopInv
<1>9. CASE PL!Terminated \/ UNCHANGED vars
  <2>1. UNCHANGED <<pc, cnt, kpc, value, waitsOn, iSendTo, done, MsgPtr, MailBox, MsgSentCnt>>
    BY <1>9 DEF PL!Terminated, PL!vars, PL!kvars, PL!mailvars, vars, kvars, mvars
  <2>2. Started' /\ Counters'
    BY <1>3, <2>1 DEF Counters, Started
  <2>3. MailInv'
    BY <1>2, <1>3, <2>1, MailMain
  <2>4. QED
    BY <1>4, <2>1, <2>2, <2>3 DEF LoopInv
<1>10. QED
  BY <1>1, <1>2, <1>6, <1>7, <1>8, <1>9 DEF PL!Next

\* The loop counters of task 6: a person counts only his own.
LEMMA SpaceCounters ==
    ASSUME Counters, NEW i \in Person, PS!PersonStep(i)
    PROVE  Counters' /\ cnt'[MainThread] = cnt[MainThread]
<1>1. cnt \in [Threads -> Nat] /\ i \in Threads /\ i # MainThread /\ MainThread \in Threads
  BY MainIsNobody DEF Counters
<1>2. \A n \in StallCycles : n - 1 \in Nat
  BY ExerciseAssumption
<1>3. \/ cnt' = cnt \/ (cnt[i] # 0 /\ cnt' = [cnt EXCEPT ![i] = @ - 1])
      \/ \E n \in Nat : cnt' = [cnt EXCEPT ![i] = n]
  BY <1>2 DEF PS!PersonStep, PS!Visit, PS!Decide, PS!Read, PS!HasRead, PS!ClaimBox, PS!Send, PS!Release, PS!YieldAfterRead, PS!Stall, PS!GoHome
<1>4. QED
  BY <1>1, <1>3 DEF Counters

\* The main thread of task 6 forks the next person, or finishes.
LEMMA SpaceForks ==
    ASSUME KP!KernelInv, Task = 6, Counters, PS!ForkPeople
    PROVE  /\ waitsOn[MainThread] = NoSem /\ Counters'
           /\ UNCHANGED <<value, waitsOn, iSendTo, MsgPtr, MailBox, MsgSentCnt, done>>
           /\ \/ /\ cnt[MainThread] \in Person /\ Starts(cnt[MainThread])
                 /\ cnt' = [cnt EXCEPT ![MainThread] = @ + 1] /\ pc' = pc
                 /\ pc[MainThread] = "fork"
                 /\ PS!K!Fork(MainThread, cnt[MainThread])
              \/ /\ cnt[MainThread] = NumPeople /\ Ends(MainThread)
                 /\ cnt' = cnt /\ pc' = [pc EXCEPT ![MainThread] = "finished"]
                 /\ PS!K!Finish(MainThread)
<1>1. /\ cnt \in [Threads -> Nat] /\ MainThread \in Threads /\ MainThread = PS!MainThread
      /\ cnt[MainThread] \in Nat
  BY MainIsNobody, SpaceNames DEF Counters
<1>2. UNCHANGED <<iSendTo, MsgPtr, MailBox, MsgSentCnt, done>> /\ pc[MainThread] = "fork"
  BY <1>1 DEF PS!ForkPeople, PS!mailvars, PS!At
<1>3. CASE cnt[MainThread] < NumPeople
  <2>1. /\ PS!K!Fork(MainThread, cnt[MainThread]) /\ pc' = pc
        /\ cnt' = [cnt EXCEPT ![MainThread] = @ + 1]
    <3>1. cnt[MainThread] # NumPeople
      BY <1>1, <1>3, ExerciseAssumption
    <3>2. QED
      BY <1>1, <3>1 DEF PS!ForkPeople
  <2>2. cnt[MainThread] \in Person /\ cnt[MainThread] \in Threads
    BY <1>1, <1>3, ExerciseAssumption DEF Person, Threads
  <2>3. waitsOn[MainThread] = NoSem /\ UNCHANGED <<value, waitsOn>> /\ Starts(cnt[MainThread])
    BY <1>1, <2>1, <2>2, SpaceEffects
  <2>4. QED
    BY <1>1, <1>2, <2>1, <2>2, <2>3 DEF Counters
<1>4. CASE ~(cnt[MainThread] < NumPeople)
  <2>1. /\ cnt[MainThread] = NumPeople /\ PS!K!Finish(MainThread) /\ cnt' = cnt
        /\ pc' = [pc EXCEPT ![MainThread] = "finished"]
    BY <1>1, <1>4 DEF PS!ForkPeople, PS!Goto
  <2>2. waitsOn[MainThread] = NoSem /\ UNCHANGED <<value, waitsOn>> /\ Ends(MainThread)
    BY <1>1, <2>1, SpaceEffects
  <2>3. QED
    BY <1>1, <1>2, <2>1, <2>2 DEF Counters
<1>5. QED
  BY <1>3, <1>4

\* Every step of task 6 calls the kernel once, or is one of the kernel's own.
LEMMA SpaceClient ==
    ASSUME KP!KernelInv, Task = 6, Counters, MailInv, PS!Next
    PROVE  [KP!ClientNext]_(KP!kvars)
<1>1. Threads = PS!Threads /\ Person = PS!Person /\ MainThread = PS!MainThread
  BY SpaceNames
<1>2. ASSUME NEW t \in Threads,
             \/ \E s \in PS!Semaphores : PS!K!P(t, s) \/ PS!K!V(t, s)
             \/ PS!K!Yield(t) \/ PS!K!Finish(t)
             \/ \E u \in Threads : PS!K!Fork(t, u)
      PROVE  KP!ClientNext
  BY <1>1, <1>2, SpaceCalls DEF KP!ClientNext, KP!Call
<1>3. CASE PS!ForkPeople
  <2>1. \/ PS!K!Finish(MainThread)
        \/ cnt[MainThread] \in Person /\ PS!K!Fork(MainThread, cnt[MainThread])
    BY <1>3, SpaceForks
  <2>2. QED
    BY <1>2, <2>1, MainIsNobody
<1>4. ASSUME NEW i \in Person, PS!PersonStep(i) PROVE KP!ClientNext
  <2>1. i \in Threads /\ iSendTo[i] \in Person
    BY MainIsNobody DEF MailInv, MailTypes
  <2>2. /\ PS!MsgCntSemaphore \in PS!Semaphores
        /\ \A j \in Person : PS!mailboxSemaphore(j) \in PS!Semaphores /\ PS!freeSpaceSemaphore(j) \in PS!Semaphores
    BY <1>1 DEF PS!Semaphores
  <2>3. \/ \E s \in PS!Semaphores : PS!K!P(i, s) \/ PS!K!V(i, s)
        \/ PS!K!Yield(i) \/ PS!K!Finish(i)
    <3>1. CASE PS!Visit(i) \/ PS!Decide(i) \/ PS!Read(i) \/ PS!HasRead(i)
      BY <1>1, <2>2, <3>1 DEF PS!Visit, PS!Decide, PS!Enter, PS!ClaimOwnBox, PS!Read, PS!HasRead,
         PS!ReleaseOwnBox
    <3>2. CASE PS!ClaimBox(i) \/ PS!Send(i) \/ PS!Release(i)
      BY <2>1, <2>2, <3>2 DEF PS!ClaimBox, PS!Send, PS!Release
    <3>3. CASE PS!YieldAfterRead(i) \/ PS!Stall(i) \/ PS!GoHome(i)
      BY <3>3 DEF PS!YieldAfterRead, PS!Stall, PS!GoHome
    <3>4. QED
      BY <1>4, <3>1, <3>2, <3>3 DEF PS!PersonStep
  <2>4. QED
    BY <1>2, <2>1, <2>3
<1>5. CASE \E t \in Threads : PS!K!KernelStep(t)
  BY <1>1, <1>5, SpaceCalls DEF KP!ClientNext
<1>6. CASE PS!Terminated
  BY <1>6 DEF PS!Terminated, PS!vars, PS!kvars, KP!kvars
<1>7. QED
  BY <1>1, <1>3, <1>4, <1>5, <1>6 DEF PS!Next

\* The invariant of task 6, with that of its kernel.
SpaceInv == KP!KernelInv /\ Counters /\ Started /\ MailInv

\* Everybody is outside, nothing was sent and every unit is there at the start.
LEMMA SpaceInit == Init /\ Task = 6 => SpaceInv
<1> SUFFICES ASSUME Init, Task = 6 PROVE SpaceInv
  OBVIOUS
<1>1. PS!Init /\ PS!PInit
  BY DEF Init, PS!Init
<1>2. Threads = PS!Threads /\ Person = PS!Person /\ MainThread = PS!MainThread
  BY SpaceNames
<1>3. /\ pc = [t \in Threads |-> IF t = MainThread THEN "fork" ELSE "visit"]
      /\ cnt = [t \in Threads |-> 0]
  BY <1>1, <1>2 DEF PS!PInit, PS!ExerciseInit
<1>4. \A i \in Person : i \in Threads /\ i # MainThread /\ pc[i] = "visit"
  BY <1>3, MainIsNobody
<1>5. KP!KernelInv
  BY <1>1, SpaceCalls, KP!KernelInit, SpaceKernel DEF PS!PInit
<1>6. /\ \A t \in Threads : waitsOn[t] = NoSem
      /\ kpc = [t \in Threads |-> IF t = MainThread THEN "body" ELSE "new"]
      /\ value = [s \in MailSem |-> IF s[1] = "freeSpace" THEN S ELSE 1]
  BY <1>1, <1>2, SpaceNames DEF PS!PInit, PS!K!Init, NoSem
<1>7. /\ iSendTo = [i \in Person |-> i] /\ MsgPtr = [i \in Person |-> 0]
      /\ MailBox = [i \in Person |-> [k \in 1..S |-> 0]]
      /\ MsgSentCnt = 0 /\ done = [i \in Person |-> FALSE]
  BY <1>1, <1>2 DEF PS!PInit
<1>8. Counters /\ Started
  <2>1. Counters /\ cnt[MainThread] = 0 /\ MainThread \in Threads
    BY <1>3, MainIsNobody DEF Counters
  <2>2. \A i \in Person : i >= 0
    BY ExerciseAssumption DEF Person
  <2>3. \A t \in Threads : kpc[t] # "finish" /\ pc[t] # "finished"
    BY <1>3, <1>6
  <2>4. kpc[MainThread] # "new"
    BY <1>6, <2>1
  <2>5. QED
    BY <2>1, <2>2, <2>3, <2>4 DEF Started
<1>9. MailTypes
  <2>1. pc \in [Threads -> MailPlace]
    BY <1>3 DEF MailPlace
  <2>2. \A i \in Person : pc[i] \notin (IF Task = 5 THEN SpacePlace ELSE LoopPlace)
    BY <1>4 DEF SpacePlace, LoopPlace
  <2>3. MsgPtr \in [Person -> 0..S] /\ MsgSentCnt \in 0..M
    BY <1>7, ExerciseAssumption
  <2>4. MailBox \in [Person -> [1..S -> Nat]]
    BY <1>7
  <2>5. QED
    BY <1>6, <1>7, <2>1, <2>2, <2>3, <2>4 DEF MailTypes
<1>10. Reading /\ Sending /\ Facing
  BY <1>4, <1>7 DEF Reading, Sending, Facing
<1>11. Accounts
  <2>1. \A s : Owners(s) = {}
    <3>1. \A i : HeldAt(i, "visit", iSendTo[i]) = {}
      BY MailPlaces
    <3>2. QED
      BY <1>4, <3>1 DEF Owners
  <2>2. \A s : Cardinality(Owners(s)) = 0
    BY <2>1, FS_EmptySet
  <2>3. ASSUME NEW s \in {mc} \cup {mb(j) : j \in Person} PROVE value[s] = 1
    <3>1. s \in MailSem
      BY MailNames
    <3>2. s[1] # "freeSpace"
      BY DEF mc, mb
    <3>3. QED
      BY <1>6, <3>1, <3>2
  <2>4. ASSUME Task = 6, NEW j \in Person PROVE value[fs(j)] = S
    <3>1. fs(j) \in MailSem
      BY <2>4, MailNames
    <3>2. fs(j)[1] = "freeSpace"
      BY DEF fs
    <3>3. QED
      BY <1>6, <3>1, <3>2
  <2>5. QED
    BY <1>7, <2>2, <2>3, <2>4, ExerciseAssumption DEF Accounts
<1>12. QED
  BY <1>5, <1>8, <1>9, <1>10, <1>11 DEF SpaceInv, MailInv

\* The kernel's invariant types the values and the waits.
LEMMA SpaceWaits == KP!KernelInv /\ Task = 6 => MailWaits
BY SpaceEffects, MainIsNobody

\* A step of task 6 keeps the invariant, and is a move of a person or changes
\* nothing of the mail.
LEMMA SpaceNext ==
    ASSUME SpaceInv, Task = 6, [Next]_vars
    PROVE  /\ SpaceInv'
           /\ \/ \E i \in Person : \E to, d : MailMove(i, to, d)
              \/ UNCHANGED <<MsgPtr, MailBox, MsgSentCnt, done>>
<1>1. Threads = PS!Threads /\ MainThread = PS!MainThread /\ Person = PS!Person
  BY SpaceNames
<1>2. (PS!Next \/ UNCHANGED vars) /\ Task' = Task /\ MainThread \in Threads
  BY TaskStays, MainIsNobody DEF Next, ShoutStep, BusyWaitStep, SemaphoreStep, MailLoopStep, MailSemaphoreStep
<1>3. KP!KernelInv /\ Counters /\ Started /\ MailInv
  BY DEF SpaceInv
<1>4. KP!KernelInv'
  <2>1. [KP!ClientNext]_(KP!kvars)
    BY <1>2, <1>3, SpaceClient DEF vars, kvars, KP!kvars
  <2>2. QED
    BY <1>3, <2>1, KP!KernelNext, SpaceKernel
<1>5. MailWaits /\ MailWaits'
  <2>1. KP!KernelInv' /\ (Task = 6)'
    BY <1>2, <1>4
  <2>2. MailWaits'
    BY <2>1, SpaceWaits, PTL
  <2>3. QED
    BY <1>3, <2>2, SpaceWaits
<1>6. CASE PS!ForkPeople
  <2>1. Started'
    BY <1>3, <1>6, SpaceForks, StartedFork, StartedFinish DEF MailInv, Counters
  <2>2. MailInv'
    BY <1>2, <1>3, <1>6, SpaceForks, MailMain
  <2>3. Counters' /\ UNCHANGED <<MsgPtr, MailBox, MsgSentCnt, done>>
    BY <1>3, <1>6, SpaceForks
  <2>4. QED
    BY <1>4, <2>1, <2>2, <2>3 DEF SpaceInv
<1>7. ASSUME NEW i \in Person, PS!PersonStep(i)
      PROVE  SpaceInv' /\ \E to, d : MailMove(i, to, d)
  <2>1. PICK to, d : MailMove(i, to, d) /\ (IF to = "finished" THEN Ends(i) ELSE StacksStay)
    BY <1>3, <1>7, SpaceMoves
  <2>2. Counters' /\ cnt'[MainThread] = cnt[MainThread]
    BY <1>3, <1>7, SpaceCounters
  <2>3. Started'
    BY <1>3, <1>5, <2>1, <2>2, StartedMove
  <2>4. MailInv'
    BY <1>2, <1>3, <1>5, <2>1, MailMoveKeeps
  <2>5. QED
    BY <1>4, <2>1, <2>2, <2>3, <2>4 DEF SpaceInv
<1>8. ASSUME NEW t \in Threads, PS!K!KernelStep(t),
             UNCHANGED <<pc, cnt, iSendTo, done, PS!mailvars>>
      PROVE  SpaceInv' /\ UNCHANGED <<MsgPtr, MailBox, MsgSentCnt, done>>
  <2>1. StacksStay /\ (UNCHANGED <<value, waitsOn>> \/ MailServed(t))
    BY <1>3, <1>8, SpaceEffects
  <2>2. UNCHANGED <<pc, cnt, iSendTo, done, MsgPtr, MailBox, MsgSentCnt>>
    BY <1>8 DEF PS!mailvars
  <2>3. Started' /\ Counters'
    BY <1>3, <2>1, <2>2, StartedStay DEF Counters
  <2>4. MailInv'
    BY <1>2, <1>3, <1>5, <2>1, <2>2, MailServedKeeps, MailMain
  <2>5. QED
    BY <1>4, <2>2, <2>3, <2>4 DEF SpaceInv
<1>9. CASE PS!Terminated \/ UNCHANGED vars
  <2>1. UNCHANGED <<pc, cnt, kpc, value, waitsOn, iSendTo, done, MsgPtr, MailBox, MsgSentCnt>>
    BY <1>9 DEF PS!Terminated, PS!vars, PS!kvars, PS!mailvars, vars, kvars, mvars
  <2>2. Started' /\ Counters'
    BY <1>3, <2>1 DEF Counters, Started
  <2>3. MailInv'
    BY <1>2, <1>3, <2>1, MailMain
  <2>4. QED
    BY <1>4, <2>1, <2>2, <2>3 DEF SpaceInv
<1>10. QED
  BY <1>1, <1>2, <1>6, <1>7, <1>8, <1>9 DEF PS!Next

-----------------------------------------------------------------------------
(***************************************************************************)
(* The free slots                                                          *)
(***************************************************************************)

\* The invariant of the task that was selected.
OfficeInv == (Task = 5 => LoopInv) /\ (Task = 6 => SpaceInv)

\* Both tasks start in their invariant ...
LEMMA OfficeInit == Init => OfficeInv
BY LoopInit, SpaceInit DEF OfficeInv

\* ... and keep it.
LEMMA OfficeNext == OfficeInv /\ [Next]_vars => OfficeInv'
<1> SUFFICES ASSUME OfficeInv, [Next]_vars PROVE OfficeInv'
  OBVIOUS
<1>1. Task' = Task
  BY TaskStays
<1>2. CASE Task = 5
  BY <1>1, <1>2, LoopNext DEF OfficeInv
<1>3. CASE Task = 6
  BY <1>1, <1>3, SpaceNext DEF OfficeInv
<1>4. QED
  BY <1>1, <1>2, <1>3 DEF OfficeInv

\* The owners of a unit of freeSpaceSemaphore[j] are those who hold it.
LEMMA HoldersOwn ==
    ASSUME SpaceInv, Task = 6, NEW j \in Person
    PROVE  PS!Holding(j) = Owners(fs(j))
<1>1. MailTypes
  BY DEF SpaceInv, MailInv
<1>2. ASSUME NEW i \in Person
      PROVE  fs(j) \in HeldAt(i, pc[i], iSendTo[i]) <=>
                 pc[i] \in {"gotSpace", "gotBox", "send"} /\ iSendTo[i] = j
  <2>1. i \in Threads /\ iSendTo[i] \in Person /\ pc[i] \in MailPlace
    BY <1>1, MainIsNobody DEF MailTypes
  <2>2. pc[i] # "fork" => (fs(j) \in HeldAt(i, pc[i], iSendTo[i]) <=>
                 pc[i] \in {"gotSpace", "gotBox", "send"} /\ iSendTo[i] = j)
    BY <2>1, MailPlaces, MailNames DEF MailPlace, LoopPlace, SpacePlace
  <2>3. HeldAt(i, "fork", iSendTo[i]) = {}
    BY DEF HeldAt
  <2>4. QED
    BY <2>2, <2>3
<1>3. Person = PS!Person /\ PS!freeSpaceSemaphore(j) = fs(j)
  BY SpaceNames
<1>4. QED
  BY <1>2, <1>3 DEF PS!Holding, Owners

\* freeSpaceSemaphore[j] counts the free slots of mailbox j, for any number of
\* people, messages and slots: each slot is free, taken, or in the hands of a
\* sender who has passed P and not yet delivered or given up
\* (PostOfficeSemaphore of threadtest.cc).
THEOREM FreeSlotsCounted == Spec => []FreeSpaceCounts
<1>1. OfficeInv => FreeSpaceCounts
  <2> SUFFICES ASSUME SpaceInv, Task = 6, NEW j \in Person
               PROVE  value[PS!freeSpaceSemaphore(j)] + MsgPtr[j] + PS!Cardinality(PS!Holding(j)) = S
    BY SpaceNames DEF OfficeInv, FreeSpaceCounts, PS!FreeSpaceCounts
  <2>1. value[fs(j)] + MsgPtr[j] + Cardinality(Owners(fs(j))) = S
    BY DEF SpaceInv, MailInv, Accounts
  <2>2. PS!Cardinality(PS!Holding(j)) = Cardinality(Owners(fs(j)))
    BY HoldersOwn DEF PS!Cardinality, Cardinality
  <2>3. QED
    BY <2>1, <2>2, SpaceNames
<1>2. QED
  BY <1>1, OfficeInit, OfficeNext, PTL DEF Spec

-----------------------------------------------------------------------------
(***************************************************************************)
(* The machine halts                                                       *)
(***************************************************************************)

\* When the machine has halted, everybody was forked, and who has not finished
\* waits for a semaphore whose value is 0.
Stopped ==
    \A i \in Person : pc[i] = "finished" \/ (waitsOn[i] # NoSem /\ value[waitsOn[i]] = 0)

\* What the kernel leaves behind when it halts, in both tasks.
LEMMA HaltStops ==
    ASSUME Started, MailInv,
           \A x \in Threads : kpc[x] = "new" \/ kpc[x] = "finish"
                                 \/ (waitsOn[x] # NoSem /\ value[waitsOn[x]] = 0)
    PROVE  Stopped
<1>1. MainThread \in Threads /\ MainThread \notin Person
  BY MainIsNobody
<1>2. waitsOn[MainThread] = NoSem
  BY <1>1 DEF MailInv, MailTypes
<1>3. kpc[MainThread] = "finish"
  BY <1>1, <1>2 DEF Started
<1>4. cnt[MainThread] = NumPeople
  BY <1>1, <1>3 DEF Started
<1>5. ASSUME NEW i \in Person PROVE kpc[i] # "new" /\ i \in Threads
  <2>1. i \in Nat /\ i < NumPeople /\ NumPeople \in Nat
    BY ExerciseAssumption DEF Person
  <2>2. QED
    BY <1>4, <2>1, MainIsNobody DEF Started
<1>6. QED
  BY <1>5 DEF Stopped, Started

\* In tasks 5 and 6 alike.
LEMMA OfficeStops ==
    ASSUME OfficeInv, halted, Task \in {5, 6}
    PROVE  Stopped /\ MailInv /\ MailWaits
<1>1. CASE Task = 5
  <2>1. KL!KernelInv /\ Started /\ MailInv
    BY <1>1 DEF OfficeInv, LoopInv
  <2>2. \A x \in PL!Threads : kpc[x] = "new" \/ kpc[x] = "finish"
                                 \/ (waitsOn[x] # NoSem /\ value[waitsOn[x]] = 0)
    BY <2>1, KL!HaltedThreads, LoopKernel
  <2>3. QED
    BY <1>1, <2>1, <2>2, LoopNames, HaltStops, LoopWaits
<1>2. CASE Task = 6
  <2>1. KP!KernelInv /\ Started /\ MailInv
    BY <1>2 DEF OfficeInv, SpaceInv
  <2>2. \A x \in PS!Threads : kpc[x] = "new" \/ kpc[x] = "finish"
                                 \/ (waitsOn[x] # NoSem /\ value[waitsOn[x]] = 0)
    BY <2>1, KP!HaltedThreads, SpaceKernel
  <2>3. QED
    BY <1>2, <2>1, <2>2, SpaceNames, HaltStops, SpaceWaits
<1>3. QED
  BY <1>1, <1>2

\* A semaphore that nobody owns has all its units, so nobody waits for it.
LEMMA NobodyWaits ==
    ASSUME MailInv, MailWaits, NEW s \in {mc} \cup {mb(j) : j \in Person}, Owners(s) = {}
    PROVE  value[s] = 1
<1>1. value[s] + Cardinality(Owners(s)) = 1 /\ value[s] \in Nat
  BY MailNames DEF MailInv, Accounts, MailWaits
<1>2. QED
  BY <1>1, FS_EmptySet

\* Where a person can be when the machine has halted.
LEMMA StoppedPlaces ==
    ASSUME Stopped, MailInv, MailWaits, Task \in {5, 6}, NEW i \in Person, pc[i] # "finished"
    PROVE  /\ pc[i] \in (IF Task = 5 THEN {"read", "claimed", "send"}
                                     ELSE {"read", "gotSpace", "gotBox", "send"})
           /\ waitsOn[i] = WaitsFor(i, pc[i], iSendTo[i]) /\ value[waitsOn[i]] = 0
           /\ iSendTo[i] \in Person
<1>1. waitsOn[i] # NoSem /\ value[waitsOn[i]] = 0
  BY DEF Stopped
<1>2. /\ i \in Threads /\ waitsOn[i] = WaitsFor(i, pc[i], iSendTo[i]) /\ iSendTo[i] \in Person
      /\ pc[i] \notin (IF Task = 5 THEN SpacePlace ELSE LoopPlace)
  BY <1>1, MainIsNobody DEF MailInv, MailTypes
<1>3. pc[i] \in {"read", "claimed", "gotSpace", "gotBox", "send"}
  BY <1>1, <1>2 DEF WaitsFor
<1>4. QED
  BY <1>1, <1>2, <1>3 DEF SpacePlace, LoopPlace

\* Task 5: the owner of the message counter waits for a mailbox, whose owner
\* waits for nothing, so at a halt nobody has either and nobody waits.
LEMMA LoopStops ==
    ASSUME Stopped, MailInv, MailWaits, Task = 5
    PROVE  AllFinished
<1> SUFFICES ASSUME NEW i \in Person, pc[i] # "finished" PROVE FALSE
  BY DEF AllFinished
<1>1. ASSUME NEW j \in Person PROVE Owners(mb(j)) = {}
  <2> SUFFICES ASSUME NEW k \in Owners(mb(j)) PROVE FALSE
    OBVIOUS
  <2>1. k \in Person /\ mb(j) \in HeldAt(k, pc[k], iSendTo[k]) /\ waitsOn[k] # mb(j)
    BY DEF Owners
  <2>2. pc[k] # "finished"
    BY <2>1, MailPlaces
  <2>3. pc[k] \in {"read", "claimed", "send"} /\ waitsOn[k] = WaitsFor(k, pc[k], iSendTo[k])
        /\ iSendTo[k] \in Person
    BY <2>1, <2>2, StoppedPlaces
  <2>4. QED
    BY <2>1, <2>3, MailPlaces, MailNames
<1>2. \A j \in Person : value[mb(j)] = 1
  BY <1>1, NobodyWaits
<1>3. ASSUME NEW k \in Person, pc[k] # "finished"
      PROVE  pc[k] = "claimed" /\ waitsOn[k] = mc /\ value[mc] = 0
  <2>1. /\ pc[k] \in {"read", "claimed", "send"} /\ waitsOn[k] = WaitsFor(k, pc[k], iSendTo[k])
        /\ value[waitsOn[k]] = 0 /\ iSendTo[k] \in Person
    BY <1>3, StoppedPlaces
  <2>2. QED
    BY <1>2, <2>1, MailPlaces
<1>4. Owners(mc) = {}
  <2> SUFFICES ASSUME NEW k \in Owners(mc) PROVE FALSE
    OBVIOUS
  <2>1. k \in Person /\ mc \in HeldAt(k, pc[k], iSendTo[k]) /\ waitsOn[k] # mc
    BY DEF Owners
  <2>2. pc[k] # "finished"
    BY <2>1, MailPlaces
  <2>3. QED
    BY <1>3, <2>1, <2>2
<1>5. QED
  BY <1>3, <1>4, NobodyWaits

\* Task 6 with two people: nobody waits for a mutex, whose owner would wait for
\* nothing; so all who are left wait for room in the mailbox of the other, and
\* all its slots are taken.  If one has gone home, all mailboxes are empty; else
\* one of them has no mail (Facing).
LEMMA SpaceStops ==
    ASSUME Stopped, MailInv, MailWaits, Task = 6, NumPeople = 2
    PROVE  AllFinished
<1> SUFFICES ASSUME NEW i \in Person, pc[i] # "finished" PROVE FALSE
  BY DEF AllFinished
<1>1. ASSUME NEW k \in Person, pc[k] # "finished"
      PROVE  /\ pc[k] \in {"read", "gotSpace", "gotBox", "send"}
             /\ waitsOn[k] = WaitsFor(k, pc[k], iSendTo[k]) /\ value[waitsOn[k]] = 0
             /\ iSendTo[k] \in Person
  BY <1>1, StoppedPlaces
<1>2. Owners(mc) = {}
  <2> SUFFICES ASSUME NEW k \in Owners(mc) PROVE FALSE
    OBVIOUS
  <2>1. k \in Person /\ mc \in HeldAt(k, pc[k], iSendTo[k]) /\ waitsOn[k] # mc
    BY DEF Owners
  <2>2. pc[k] # "finished"
    BY <2>1, MailPlaces
  <2>3. QED
    BY <1>1, <2>1, <2>2, MailPlaces, MailNames
<1>3. value[mc] = 1
  BY <1>2, NobodyWaits
<1>4. ASSUME NEW k \in Person, pc[k] # "finished" PROVE pc[k] # "send"
  BY <1>1, <1>3, <1>4, MailPlaces
<1>5. ASSUME NEW j \in Person PROVE Owners(mb(j)) = {}
  <2> SUFFICES ASSUME NEW k \in Owners(mb(j)) PROVE FALSE
    OBVIOUS
  <2>1. k \in Person /\ mb(j) \in HeldAt(k, pc[k], iSendTo[k]) /\ waitsOn[k] # mb(j)
    BY DEF Owners
  <2>2. pc[k] # "finished"
    BY <2>1, MailPlaces
  <2>3. QED
    BY <1>1, <1>4, <2>1, <2>2, MailPlaces, MailNames
<1>6. \A j \in Person : value[mb(j)] = 1
  BY <1>5, NobodyWaits
<1>7. ASSUME NEW k \in Person, pc[k] # "finished"
      PROVE  /\ pc[k] = "gotSpace" /\ iSendTo[k] \in Person /\ iSendTo[k] # k
             /\ waitsOn[k] = fs(iSendTo[k]) /\ value[fs(iSendTo[k])] = 0
  <2>1. pc[k] = "gotSpace"
    BY <1>1, <1>4, <1>6, <1>7, MailPlaces
  <2>2. iSendTo[k] # k
    BY <2>1 DEF MailInv, Facing
  <2>3. QED
    BY <1>1, <1>7, <2>1, <2>2, MailPlaces
<1>8. ASSUME NEW j \in Person PROVE Owners(fs(j)) = {}
  <2> SUFFICES ASSUME NEW k \in Owners(fs(j)) PROVE FALSE
    OBVIOUS
  <2>1. k \in Person /\ fs(j) \in HeldAt(k, pc[k], iSendTo[k]) /\ waitsOn[k] # fs(j)
    BY DEF Owners
  <2>2. pc[k] # "finished"
    BY <2>1, MailPlaces
  <2>3. QED
    BY <1>7, <2>1, <2>2, MailPlaces, MailNames
<1>9. ASSUME NEW j \in Person, value[fs(j)] = 0 PROVE MsgPtr[j] = S /\ S # 0
  <2>1. /\ value[fs(j)] + MsgPtr[j] + Cardinality(Owners(fs(j))) = S
        /\ MsgPtr[j] \in 0..S /\ S \in Nat /\ S # 0
    BY ExerciseAssumption DEF MailInv, MailTypes, Accounts
  <2>2. Cardinality(Owners(fs(j))) = 0
    BY <1>8, FS_EmptySet
  <2>3. QED
    BY <1>9, <2>1, <2>2
<1> DEFINE j == iSendTo[i]
<1>10. /\ pc[i] = "gotSpace" /\ j \in Person /\ j # i /\ waitsOn[i] = fs(j)
       /\ MsgPtr[j] = S /\ S # 0
  BY <1>7, <1>9
<1>11. pc[j] # "finished"
  <2>1. ASSUME pc[j] = "finished" PROVE FALSE
    <3>1. Empty
      BY <1>10, <2>1 DEF MailInv, Reading
    <3>2. QED
      BY <1>10, <3>1 DEF Empty
  <2>2. QED
    BY <2>1
<1>12. /\ pc[j] = "gotSpace" /\ iSendTo[j] = i /\ waitsOn[j] = fs(i) /\ MsgPtr[i] = S
  <2>1. /\ pc[j] = "gotSpace" /\ iSendTo[j] \in Person /\ iSendTo[j] # j
        /\ waitsOn[j] = fs(iSendTo[j]) /\ MsgPtr[iSendTo[j]] = S
    BY <1>7, <1>9, <1>10, <1>11
  <2>2. iSendTo[j] = i
    <3>1. Person = {0, 1}
      BY DEF Person
    <3>2. QED
      BY <1>10, <2>1, <3>1
  <2>3. QED
    BY <2>1, <2>2
<1>13. waitsOn[i] # NoSem /\ waitsOn[j] # NoSem
  BY <1>10, <1>12, MailNames
<1>14. QED
  BY <1>10, <1>12, <1>13 DEF MailInv, Facing

\* The post offices do not get stuck: when the machine halts because nobody can
\* run, everybody has gone home, in task 5 for any number of people, messages
\* and slots, in task 6 for two people (PostOfficeLoop, PostOfficeSemaphore of
\* threadtest.cc; Interrupt::Idle, which halts).
THEOREM NobodyIsLeft == Spec => []NobodyLeftBehind
<1>1. OfficeInv => NobodyLeftBehind
  <2> SUFFICES ASSUME OfficeInv, halted, Task = 5 \/ (Task = 6 /\ NumPeople = 2)
               PROVE  AllFinished
    BY DEF NobodyLeftBehind
  <2>1. Stopped /\ MailInv /\ MailWaits
    BY OfficeStops
  <2>2. QED
    BY <2>1, LoopStops, SpaceStops
<1>2. QED
  BY <1>1, OfficeInit, OfficeNext, PTL DEF Spec

-----------------------------------------------------------------------------
(***************************************************************************)
(* The promise of Mail                                                     *)
(***************************************************************************)

\* The slots of a mailbox are a sequence; the first n of them, without the last
\* one, or with one more.
LEMMA BoxSlots ==
    ASSUME NEW b \in [1..S -> Nat], NEW n \in 0..S
    PROVE  /\ SubSeq(b, 1, n) \in Seq(Nat) /\ Len(SubSeq(b, 1, n)) = n
           /\ n # 0 => SubSeq(SubSeq(b, 1, n), 1, n - 1) = SubSeq(b, 1, n - 1)
           /\ n < S => \A x \in Nat :
                 SubSeq([b EXCEPT ![n + 1] = x], 1, n + 1) = Append(SubSeq(b, 1, n), x)
<1>1. S \in Nat /\ n \in Nat /\ n <= S
  BY ExerciseAssumption
<1>2. ASSUME NEW c \in [1..S -> Nat] PROVE c \in Seq(Nat) /\ Len(c) = S
  BY <1>1
<1>3. ASSUME NEW c \in [1..S -> Nat], NEW m \in 0..S
      PROVE  /\ SubSeq(c, 1, m) \in Seq(Nat) /\ Len(SubSeq(c, 1, m)) = m
             /\ SubSeq(c, 1, m) = [k \in 1..m |-> c[k]]
  <2>1. m \in Nat /\ m <= S /\ c \in Seq(Nat) /\ Len(c) = S
    BY <1>1, <1>2
  <2>2. SubSeq(c, 1, m) = [k \in 1..m |-> c[k]]
    BY <2>1
  <2>3. [k \in 1..m |-> c[k]] \in Seq(Nat) /\ Len([k \in 1..m |-> c[k]]) = m
    BY <1>1, <2>1
  <2>4. QED
    BY <2>2, <2>3
<1>4. ASSUME n # 0 PROVE SubSeq(SubSeq(b, 1, n), 1, n - 1) = SubSeq(b, 1, n - 1)
  <2> DEFINE a == SubSeq(b, 1, n)
  <2>1. a \in Seq(Nat) /\ Len(a) = n /\ a = [k \in 1..n |-> b[k]] /\ n - 1 \in 0..S
    BY <1>1, <1>3, <1>4
  <2>2. SubSeq(b, 1, n - 1) = [k \in 1..(n - 1) |-> b[k]]
    BY <1>3, <2>1
  <2> HIDE DEF a
  <2>3. SubSeq(a, 1, n - 1) = [k \in 1..(n - 1) |-> a[k]]
    BY <1>1, <2>1
  <2>4. \A k \in 1..(n - 1) : a[k] = b[k]
    BY <1>1, <2>1
  <2>5. QED
    BY <2>2, <2>3, <2>4 DEF a
<1>5. ASSUME n < S, NEW x \in Nat
      PROVE  SubSeq([b EXCEPT ![n + 1] = x], 1, n + 1) = Append(SubSeq(b, 1, n), x)
  <2> DEFINE c == [b EXCEPT ![n + 1] = x]
             a == SubSeq(b, 1, n)
  <2>1. /\ c \in [1..S -> Nat] /\ n + 1 \in 0..S
        /\ \A k \in 1..S : c[k] = IF k = n + 1 THEN x ELSE b[k]
    BY <1>1, <1>5
  <2>2. a \in Seq(Nat) /\ Len(a) = n /\ a = [k \in 1..n |-> b[k]]
    BY <1>3
  <2> HIDE DEF c, a
  <2>3. SubSeq(c, 1, n + 1) = [k \in 1..(n + 1) |-> c[k]]
    BY <1>3, <2>1
  <2>4. Append(a, x) = [k \in 1..(n + 1) |-> IF k = n + 1 THEN x ELSE a[k]]
    BY <1>1, <2>2
  <2>5. \A k \in 1..(n + 1) : c[k] = IF k = n + 1 THEN x ELSE a[k]
    BY <1>1, <1>5, <2>1, <2>2
  <2>6. QED
    BY <2>3, <2>4, <2>5 DEF c, a
<1>6. QED
  BY <1>3, <1>4, <1>5

\* The mailboxes are empty at the start.
LEMMA MailBegins == Init /\ OfficeInv => Post!Init
<1> SUFFICES ASSUME Init, OfficeInv PROVE Post!Init
  OBVIOUS
<1>1. Post!Person = Person
  BY DEF Post!Person, Person
<1>2. CASE Task \in {5, 6}
  <2>1. PL!PInit \/ PS!PInit
    BY <1>2 DEF Init, PL!Init, PS!Init
  <2>2. /\ MsgPtr = [i \in Person |-> 0] /\ MsgSentCnt = 0 /\ done = [i \in Person |-> FALSE]
    BY <2>1, LoopNames, SpaceNames DEF PL!PInit, PS!PInit
  <2>3. MailInv
    BY <1>2 DEF OfficeInv, LoopInv, SpaceInv
  <2>4. ASSUME NEW i \in Person PROVE Box(i) = << >>
    <3>1. /\ MailBox[i] \in [1..S -> Nat] /\ MsgPtr[i] = 0 /\ 0 \in 0..S
      BY <2>2, <2>3, ExerciseAssumption DEF MailInv, MailTypes
    <3>2. SubSeq(MailBox[i], 1, 0) \in Seq(Nat) /\ Len(SubSeq(MailBox[i], 1, 0)) = 0
      BY <3>1, BoxSlots
    <3>3. QED
      BY <1>2, <3>1, <3>2 DEF Box
  <2>5. QED
    BY <1>1, <1>2, <2>2, <2>4 DEF Post!Init, SeenBox, SeenSent, SeenHome
<1>3. CASE Task \notin {5, 6}
  BY <1>1, <1>3 DEF Post!Init, SeenBox, SeenSent, SeenHome, Box
<1>4. QED
  BY <1>2, <1>3

\* A step that changes nothing of the mail is not seen.
LEMMA MailUnseen ==
    ASSUME Task' = Task, Task \notin {5, 6} \/ UNCHANGED <<MsgPtr, MailBox, MsgSentCnt, done>>
    PROVE  UNCHANGED Post!vars
<1>1. \A i : Box(i)' = Box(i)
  BY DEF Box
<1>2. SeenBox' = SeenBox
  BY <1>1 DEF SeenBox
<1>3. SeenSent' = SeenSent /\ SeenHome' = SeenHome
  BY DEF SeenSent, SeenHome
<1>4. QED
  BY <1>2, <1>3 DEF Post!vars

\* What the promise sees of a mailbox.
LEMMA SeenBoxes ==
    ASSUME MailTypes, Task \in {5, 6}
    PROVE  /\ SeenBox = [i \in Person |-> SubSeq(MailBox[i], 1, MsgPtr[i])]
           /\ SeenSent = MsgSentCnt /\ SeenHome = {i \in Person : done[i]}
           /\ \A i \in Person : /\ MailBox[i] \in [1..S -> Nat] /\ MsgPtr[i] \in 0..S
                                /\ SeenBox[i] \in Seq(Nat) /\ Len(SeenBox[i]) = MsgPtr[i]
<1>1. /\ SeenBox = [i \in Person |-> SubSeq(MailBox[i], 1, MsgPtr[i])]
      /\ SeenSent = MsgSentCnt /\ SeenHome = {i \in Person : done[i]}
  BY DEF SeenBox, Box, SeenSent, SeenHome
<1>2. \A i \in Person : MailBox[i] \in [1..S -> Nat] /\ MsgPtr[i] \in 0..S
  BY DEF MailTypes
<1>3. QED
  BY <1>1, <1>2, BoxSlots

\* Reading the last message of one's own mailbox collects it.
LEMMA TakeCollects ==
    ASSUME MailInv, MailTypes', Task \in {5, 6}, Task' = Task,
           NEW i \in Person, NEW to, NEW d, MailTake(i, to, d)
    PROVE  Post!Collect(i)
<1>1. /\ MsgPtr' = [MsgPtr EXCEPT ![i] = @ - 1] /\ UNCHANGED <<MailBox, MsgSentCnt, done>>
      /\ pc[i] = "read"
  BY DEF MailTake
<1>2. MailTypes /\ MsgPtr[i] > 0 /\ MsgPtr \in [Person -> 0..S] /\ S \in Nat
  BY <1>1, ExerciseAssumption DEF MailInv, Reading, MailTypes
<1>3. /\ SeenBox = [j \in Person |-> SubSeq(MailBox[j], 1, MsgPtr[j])]
      /\ SeenBox[i] \in Seq(Nat) /\ Len(SeenBox[i]) = MsgPtr[i]
      /\ MailBox[i] \in [1..S -> Nat] /\ MsgPtr[i] \in 0..S
  BY <1>2, SeenBoxes
<1>4. SeenBox' = [j \in Person |-> SubSeq(MailBox'[j], 1, MsgPtr'[j])]
  BY DEF SeenBox, Box
<1>5. SubSeq(SubSeq(MailBox[i], 1, MsgPtr[i]), 1, MsgPtr[i] - 1) = SubSeq(MailBox[i], 1, MsgPtr[i] - 1)
  BY <1>2, <1>3, BoxSlots
<1>6. SeenBox' = [SeenBox EXCEPT ![i] = SubSeq(@, 1, Len(@) - 1)]
  <2>1. \A j \in Person : MsgPtr'[j] = IF j = i THEN MsgPtr[i] - 1 ELSE MsgPtr[j]
    BY <1>1, <1>2
  <2>2. SeenBox'[i] = SubSeq(SeenBox[i], 1, Len(SeenBox[i]) - 1)
    BY <1>1, <1>3, <1>4, <1>5, <2>1
  <2>3. ASSUME NEW j \in Person, j # i PROVE SeenBox'[j] = SeenBox[j]
    <3>1. MsgPtr'[j] = MsgPtr[j] /\ MailBox'[j] = MailBox[j]
      BY <1>1, <2>1, <2>3
    <3>2. SeenBox'[j] = SubSeq(MailBox'[j], 1, MsgPtr'[j]) /\ SeenBox[j] = SubSeq(MailBox[j], 1, MsgPtr[j])
      BY <1>3, <1>4
    <3>3. QED
      BY <3>1, <3>2
  <2>4. QED
    BY <1>3, <1>4, <2>2, <2>3
<1>7. SeenBox[i] # << >>
  BY <1>2, <1>3
<1>8. SeenSent' = SeenSent /\ SeenHome' = SeenHome
  BY <1>1 DEF SeenSent, SeenHome
<1>9. QED
  BY <1>6, <1>7, <1>8 DEF Post!Collect

\* Writing to the first free slot of the recipient delivers the message.
LEMMA PutDelivers ==
    ASSUME MailInv, MailWaits, Task \in {5, 6}, Task' = Task,
           NEW i \in Person, NEW to, NEW d, MailMove(i, to, d), MailPut(i, to, d)
    PROVE  d \in Person /\ Post!Deliver(d)
<1>1. /\ MsgPtr' = [MsgPtr EXCEPT ![d] = @ + 1] /\ MsgSentCnt' = MsgSentCnt + 1 /\ done' = done
      /\ MailBox' = [MailBox EXCEPT ![d] = [@ EXCEPT ![MsgPtr[d] + 1] = MsgSentCnt + 1]]
      /\ d \in Person
  BY DEF MailMove, MailPut
<1>2. MsgPtr[d] < S /\ MsgSentCnt < M
  BY RoomToSend
<1>3. /\ MailTypes /\ MsgPtr \in [Person -> 0..S] /\ MailBox \in [Person -> [1..S -> Nat]]
      /\ MsgSentCnt + 1 \in Nat
  BY ExerciseAssumption DEF MailInv, MailTypes
<1>4. /\ SeenBox = [j \in Person |-> SubSeq(MailBox[j], 1, MsgPtr[j])]
      /\ SeenBox[d] \in Seq(Nat) /\ Len(SeenBox[d]) = MsgPtr[d]
      /\ MailBox[d] \in [1..S -> Nat] /\ MsgPtr[d] \in 0..S /\ SeenSent = MsgSentCnt
  BY <1>1, <1>3, SeenBoxes
<1>5. SeenBox' = [j \in Person |-> SubSeq(MailBox'[j], 1, MsgPtr'[j])]
  BY DEF SeenBox, Box
<1>6. SubSeq([MailBox[d] EXCEPT ![MsgPtr[d] + 1] = MsgSentCnt + 1], 1, MsgPtr[d] + 1)
          = Append(SubSeq(MailBox[d], 1, MsgPtr[d]), MsgSentCnt + 1)
  BY <1>2, <1>3, <1>4, BoxSlots
<1>7. SeenBox' = [SeenBox EXCEPT ![d] = Append(@, SeenSent + 1)]
  <2>1. /\ MsgPtr'[d] = MsgPtr[d] + 1
        /\ MailBox'[d] = [MailBox[d] EXCEPT ![MsgPtr[d] + 1] = MsgSentCnt + 1]
        /\ \A j \in Person \ {d} : MsgPtr'[j] = MsgPtr[j] /\ MailBox'[j] = MailBox[j]
    BY <1>1, <1>3
  <2>2. SeenBox'[d] = Append(SeenBox[d], SeenSent + 1)
    BY <1>1, <1>4, <1>5, <1>6, <2>1
  <2>3. \A j \in Person \ {d} : SeenBox'[j] = SeenBox[j]
    BY <1>4, <1>5, <2>1
  <2>4. QED
    BY <1>4, <1>5, <2>2, <2>3
<1>8. SeenSent' = SeenSent + 1 /\ SeenHome' = SeenHome
  BY <1>1, <1>4 DEF SeenSent, SeenHome
<1>9. QED
  BY <1>1, <1>2, <1>4, <1>7, <1>8 DEF Post!Deliver

\* A person who finishes has seen that all is sent and read.
LEMMA HomeGoes ==
    ASSUME MailInv, Task \in {5, 6}, Task' = Task,
           NEW i \in Person, NEW to, NEW d, MailHome(i, to, d)
    PROVE  Post!GoHome(i)
<1>1. /\ Empty /\ done' = [done EXCEPT ![i] = TRUE] /\ UNCHANGED <<MsgPtr, MailBox, MsgSentCnt>>
  BY DEF MailHome
<1>2. MailTypes /\ done \in [Person -> BOOLEAN]
  BY DEF MailInv, MailTypes
<1>3. SeenHome = {j \in Person : done[j]} /\ SeenHome' = {j \in Person : done'[j]}
  BY DEF SeenHome
<1>4. SeenHome' = SeenHome \cup {i}
  BY <1>1, <1>2, <1>3
<1>5. SeenSent = M /\ SeenSent' = SeenSent
  BY <1>1 DEF SeenSent, Empty
<1>6. SeenBox' = SeenBox
  BY <1>1 DEF SeenBox, Box
<1>7. \A j \in Person : SeenBox[j] = << >>
  <2>1. \A j \in Person : SeenBox[j] \in Seq(Nat) /\ Len(SeenBox[j]) = MsgPtr[j]
    BY <1>2, SeenBoxes
  <2>2. QED
    BY <1>1, <2>1 DEF Empty
<1>8. Post!Person = Person
  BY DEF Post!Person, Person
<1>9. QED
  BY <1>4, <1>5, <1>6, <1>7, <1>8 DEF Post!GoHome

\* Both post offices keep, for any number of people, messages and slots, the
\* promise of Mail: a message is delivered once to one mailbox with room for it,
\* read once and last one first, and a person goes home only when everything was
\* sent and read (PostOfficeLoop and PostOfficeSemaphore of threadtest.cc).
THEOREM MailKeepsItsPromise == Spec => ImplementsMail
<1>1. Init => OfficeInv /\ Post!Init
  BY OfficeInit, MailBegins
<1>2. OfficeInv /\ OfficeInv' /\ [Next]_vars => [Post!Next]_(Post!vars)
  <2> SUFFICES ASSUME OfficeInv, OfficeInv', [Next]_vars
               PROVE  Post!Next \/ UNCHANGED Post!vars
    OBVIOUS
  <2>1. Task' = Task
    BY TaskStays
  <2>2. CASE Task \notin {5, 6}
    BY <2>1, <2>2, MailUnseen
  <2>3. CASE Task \in {5, 6}
    <3>1. MailInv /\ MailInv' /\ MailWaits
      BY <2>1, <2>3, LoopWaits, SpaceWaits DEF OfficeInv, LoopInv, SpaceInv
    <3>2. \/ \E i \in Person : \E to, d : MailMove(i, to, d)
          \/ UNCHANGED <<MsgPtr, MailBox, MsgSentCnt, done>>
      BY <2>3, LoopNext, SpaceNext DEF OfficeInv
    <3>3. ASSUME NEW i \in Person, NEW to, NEW d, MailMove(i, to, d)
          PROVE  Post!Next \/ UNCHANGED Post!vars
      <4>1. Post!Person = Person
        BY DEF Post!Person, Person
      <4>2. CASE MailTake(i, to, d)
        BY <2>1, <2>3, <3>1, <4>1, <4>2, TakeCollects DEF MailInv, Post!Next
      <4>3. CASE MailPut(i, to, d)
        BY <2>1, <2>3, <3>1, <3>3, <4>1, <4>3, PutDelivers DEF Post!Next
      <4>4. CASE MailHome(i, to, d)
        BY <2>1, <2>3, <3>1, <4>1, <4>4, HomeGoes DEF Post!Next
      <4>5. CASE MailClaim(i, to, d) \/ MailGive(i, to, d) \/ MailQuiet(i, to, d)
        <5>1. UNCHANGED <<MsgPtr, MailBox, MsgSentCnt, done>>
          BY <4>5 DEF MailClaim, MailGive, MailQuiet
        <5>2. QED
          BY <2>1, <5>1, MailUnseen
      <4>6. QED
        BY <3>3, <4>2, <4>3, <4>4, <4>5 DEF MailMove
    <3>4. QED
      BY <2>1, <3>2, <3>3, MailUnseen
  <2>4. QED
    BY <2>2, <2>3
<1>3. QED
  BY <1>1, <1>2, OfficeNext, PTL DEF Spec, ImplementsMail, Post!Spec

-----------------------------------------------------------------------------
(***************************************************************************)
(* The types of all tasks                                                  *)
(***************************************************************************)

\* In every reachable state of tasks 3 to 6, for any number of philosophers or
\* people, meals, messages and slots, the variables have their types: no meal is
\* eaten and no message sent that is not there, no mailbox holds more than S
\* messages, no count of philosophers leaves 0..NumPeople, and no semaphore is
\* negative (threadtest.cc, whose counters several threads change).
THEOREM ExercisesTyped == Spec => []TypeOK
<1> DEFINE Inv == OfficeInv /\ (Task = 3 => BusyWaitInv) /\ (Task = 4 => SemaphoreInv)
<1>1. Init => Inv
  BY OfficeInit, BusyWaitInit, SemInit
<1>2. Inv /\ [Next]_vars => Inv'
  BY OfficeNext, BusyWaitNext, SemNext, TaskStays
<1>3. Inv => TypeOK
  <2> SUFFICES ASSUME Inv PROVE TypeOK
    OBVIOUS
  <2>1. (Task = 3 => DB!TypeOK) /\ (Task = 4 => DS!TypeOK)
    BY DinnerTypes
  <2>2. ASSUME Task = 5 PROVE PL!PTypeOK
    <3>1. KL!KernelInv /\ MailTypes
      BY <2>2 DEF OfficeInv, LoopInv, MailInv
    <3>2. PL!K!TypeOK
      BY <3>1, LoopCalls
    <3>3. QED
      BY <3>1, <3>2, LoopNames DEF PL!PTypeOK, MailTypes
  <2>3. ASSUME Task = 6 PROVE PS!PTypeOK
    <3>1. KP!KernelInv /\ MailTypes
      BY <2>3 DEF OfficeInv, SpaceInv, MailInv
    <3>2. PS!K!TypeOK
      BY <3>1, SpaceCalls
    <3>3. QED
      BY <3>1, <3>2, SpaceNames DEF PS!PTypeOK, MailTypes
  <2>4. QED
    BY <2>1, <2>2, <2>3 DEF TypeOK
<1>4. QED
  BY <1>1, <1>2, <1>3, PTL DEF Spec
=============================================================================
