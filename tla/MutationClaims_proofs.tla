----------------------- MODULE MutationClaims_proofs -----------------------
(***************************************************************************)
(* Theorems about MutationClaims, for every set of calls and processes,    *)
(* every relation of their paths and every limit.                          *)
(***************************************************************************)
EXTENDS MutationClaims, SequenceTheorems, TLAPS
LOCAL INSTANCE SequencesExt

Held == {"wait", "operate", "remove"}
Has(s, i, admitted) == \E n \in 1..Len(s) : s[n].id = i /\ (admitted => s[n].running)
Keeps(s, places) == \A i \in Calls : places[i] \in Held => Has(s, i, places[i] = "operate")

(* What the three changes and the reaper do to a list of claims.            *)

LEMMA RemoveAtIs ==
  ASSUME NEW s \in Seq(ClaimRecords), NEW n \in 1..Len(s)
  PROVE  /\ RemoveAt(s, n) \in Seq(ClaimRecords)
         /\ Len(RemoveAt(s, n)) = Len(s) - 1
         /\ \A m \in 1..(n - 1) : RemoveAt(s, n)[m] = s[m]
         /\ \A m \in (n + 1)..Len(s) : RemoveAt(s, n)[m - 1] = s[m]
<1> DEFINE before == SubSeq(s, 1, n - 1)
           after == SubSeq(s, n + 1, Len(s))
<1>1. Len(s) \in Nat /\ n \in Nat /\ 1 <= n /\ n <= Len(s)
  BY LenProperties
<1>2. /\ before \in Seq(ClaimRecords) /\ Len(before) = n - 1
      /\ \A m \in 1..(n - 1) : before[m] = s[m]
  <2>1. \A m \in 1..(n - 1) : s[m] \in ClaimRecords
    BY <1>1, ElementOfSeq
  <2>2. /\ before \in Seq(ClaimRecords)
        /\ Len(before) = IF 1 <= n - 1 THEN (n - 1) - 1 + 1 ELSE 0
        /\ \A m \in 1..((n - 1) - 1 + 1) : before[m] = s[1 + m - 1]
    <3> HIDE DEF before
    <3> QED BY <1>1, <2>1, SubSeqProperties DEF before
  <2> HIDE DEF before
  <2> QED BY <1>1, <2>2
<1>3. /\ after \in Seq(ClaimRecords) /\ Len(after) = Len(s) - n
      /\ \A m \in 1..(Len(s) - n) : after[m] = s[n + m]
  <2>1. \A m \in (n + 1)..Len(s) : s[m] \in ClaimRecords
    BY <1>1, ElementOfSeq
  <2>2. /\ after \in Seq(ClaimRecords)
        /\ Len(after) = IF n + 1 <= Len(s) THEN Len(s) - (n + 1) + 1 ELSE 0
        /\ \A m \in 1..(Len(s) - (n + 1) + 1) : after[m] = s[(n + 1) + m - 1]
    BY <1>1, <2>1, SubSeqProperties, SMTT(60)
  <2> HIDE DEF after
  <2> QED BY <1>1, <2>2
<1>4. RemoveAt(s, n) = before \o after
  BY DEF RemoveAt
<1> HIDE DEF before, after
<1>5. /\ before \o after \in Seq(ClaimRecords)
      /\ Len(before \o after) = Len(s) - 1
      /\ \A m \in 1..(Len(s) - 1) :
           (before \o after)[m] = IF m <= n - 1 THEN before[m] ELSE after[m - (n - 1)]
  BY <1>1, <1>2, <1>3, ConcatProperties, SMTT(60)
<1>6. \A m \in (n + 1)..Len(s) : (before \o after)[m - 1] = s[m]
  <2> TAKE m \in (n + 1)..Len(s)
  <2>1. m - 1 \in 1..(Len(s) - 1) /\ ~(m - 1 <= n - 1) /\ m - 1 - (n - 1) = m - n
    BY <1>1
  <2>2. m - n \in 1..(Len(s) - n) /\ n + (m - n) = m
    BY <1>1
  <2> QED BY <2>1, <2>2, <1>3, <1>5
<1> QED BY <1>1, <1>2, <1>4, <1>5, <1>6

LEMMA DropKeepsOthers ==
  ASSUME NEW s \in Seq(ClaimRecords), NEW n \in 1..Len(s)
  PROVE  \A j \in Calls, admitted \in BOOLEAN :
           j # s[n].id /\ Has(s, j, admitted) => Has(RemoveAt(s, n), j, admitted)
<1> SUFFICES ASSUME NEW j \in Calls, NEW admitted \in BOOLEAN,
                    j # s[n].id, Has(s, j, admitted)
             PROVE  Has(RemoveAt(s, n), j, admitted)
  OBVIOUS
<1>1. PICK m \in 1..Len(s) : s[m].id = j /\ (admitted => s[m].running)
  BY DEF Has
<1>2. m # n /\ Len(s) \in Nat
  BY <1>1, LenProperties
<1>3. CASE m < n
  <2>1. m \in 1..(n - 1) /\ m \in 1..(Len(s) - 1)
    BY <1>2, <1>3
  <2> QED BY <1>1, <2>1, RemoveAtIs DEF Has
<1>4. CASE m > n
  <2>1. m \in (n + 1)..Len(s) /\ m - 1 \in 1..(Len(s) - 1)
    BY <1>2, <1>4
  <2> QED BY <1>1, <2>1, RemoveAtIs, ZenonT(60) DEF Has
<1> QED BY <1>2, <1>3, <1>4

LEMMA RegisterAdds ==
  ASSUME NEW s \in Seq(ClaimRecords), NEW i \in Calls
  PROVE  LET written == Register(s, i).written IN
         /\ written \in Seq(ClaimRecords)
         /\ Has(written, i, FALSE)
         /\ \A j \in Calls, admitted \in BOOLEAN : Has(s, j, admitted) => Has(written, j, admitted)
<1> DEFINE claim == [id |-> i, running |-> FALSE]
<1>1. claim \in ClaimRecords /\ claim.id = i
  BY DEF ClaimRecords
<1> HIDE DEF claim
<1>2. /\ Append(s, claim) \in Seq(ClaimRecords) /\ Len(Append(s, claim)) = Len(s) + 1
      /\ \A n \in 1..Len(s) : Append(s, claim)[n] = s[n]
      /\ Append(s, claim)[Len(s) + 1] = claim
      /\ Len(s) \in Nat
  BY <1>1, AppendProperties, LenProperties
<1>3. Register(s, i).written = Append(s, claim)
  BY DEF Register, claim
<1> QED BY <1>1, <1>2, <1>3 DEF Has

LEMMA UnregisterDropsOne ==
  ASSUME NEW s \in Seq(ClaimRecords), NEW i \in Calls, IndexIn(s, i) # {}
  PROVE  LET written == Unregister(s, i).written IN
         /\ written \in Seq(ClaimRecords)
         /\ \A j \in Calls \ {i}, admitted \in BOOLEAN :
              Has(s, j, admitted) => Has(written, j, admitted)
<1> DEFINE n == CHOOSE n \in IndexIn(s, i) : TRUE
<1>1. n \in IndexIn(s, i)
  OBVIOUS
<1> HIDE DEF n
<1>2. n \in 1..Len(s) /\ s[n].id = i
  BY <1>1, LenProperties DEF IndexIn
<1>3. Unregister(s, i).written = RemoveAt(s, n)
  BY DEF Unregister, n
<1> QED BY <1>2, <1>3, RemoveAtIs, DropKeepsOthers, SMTT(60)

LEMMA OverlapIsMutual == ASSUME NEW i, NEW j, overlap(i, j) PROVE overlap(j, i)
BY DEF overlap

LEMMA AdmitIsExclusive ==
  ASSUME NEW s \in Seq(ClaimRecords), NEW i \in Calls
  PROVE  LET change == AdmitClaim(s, i) IN
         /\ change.written \in Seq(ClaimRecords)
         /\ change.then \in {"wait", "operate"}
         /\ \A j \in Calls, admitted \in BOOLEAN :
              Has(s, j, admitted) => Has(change.written, j, admitted)
         /\ change.then = "operate" =>
              /\ Has(change.written, i, TRUE)
              /\ \A j \in Calls \ {i} : Has(s, j, TRUE) => ~overlap(i, j)
<1> DEFINE admit(n) == n \in IndexIn(s, i) /\ ~Blocked(s, i, n)
           entry(n) == IF admit(n) THEN [s[n] EXCEPT !.running = TRUE] ELSE s[n]
           w == [n \in 1..Len(s) |-> entry(n)]
<1>1. Len(s) \in Nat /\ DOMAIN s = 1..Len(s) /\ \A n \in 1..Len(s) : s[n] \in ClaimRecords
  BY LenProperties, ElementOfSeq
<1>2. AdmitClaim(s, i).written = w
  BY <1>1 DEF AdmitClaim
<1>3. AdmitClaim(s, i).then = IF \E n \in 1..Len(s) : admit(n) THEN "operate" ELSE "wait"
  BY <1>1 DEF AdmitClaim, IndexIn
<1>4. \A n \in 1..Len(s) :
        /\ entry(n) \in ClaimRecords /\ entry(n).id = s[n].id
        /\ s[n].running => entry(n).running
        /\ admit(n) => entry(n).running /\ s[n].id = i
  BY <1>1 DEF ClaimRecords, IndexIn
<1>5. w \in Seq(ClaimRecords) /\ Len(w) = Len(s) /\ \A n \in 1..Len(s) : w[n] = entry(n)
  <2>1. w \in [1..Len(s) -> ClaimRecords]
    BY <1>4
  <2>2. w \in Seq(ClaimRecords)
    BY <1>1, <2>1, SeqDef
  <2> QED BY <1>1, <2>2, LenProperties
<1>6. ASSUME NEW n \in 1..Len(s), admit(n), NEW j \in Calls \ {i}, Has(s, j, TRUE)
      PROVE  ~overlap(i, j)
  <2>1. PICK m \in 1..Len(s) : s[m].id = j /\ s[m].running
    BY <1>6 DEF Has
  <2>2. m # n
    BY <1>6, <2>1 DEF IndexIn
  <2>3. ~overlap(s[m].id, i)
    BY <1>1, <1>6, <2>1, <2>2 DEF Blocked
  <2> QED BY <2>1, <2>3, OverlapIsMutual
<1> HIDE DEF w, admit, entry
<1> QED BY <1>1, <1>2, <1>3, <1>4, <1>5, <1>6 DEF Has

----------------------------------------------------------------------------
(* The argument: a call that lives holds its own lease, so its claim is in  *)
(* the file and in every copy that another call is about to write; a claim  *)
(* that is admitted is marked in both, and its admission was decided on a   *)
(* copy in which every claim under way was marked.                          *)

ClaimInv ==
  /\ ClaimTypeOK
  /\ \A i \in Calls : call[i] \in Live => i \in owners
  /\ registry.by # NoCall =>
       call[registry.by] \in {"register", "wait", "remove"} /\ Keeps(registry.copy, call)
  /\ Keeps(claims, call)
  /\ ClaimExclusion

LEMMA KeepsLess ==
  ASSUME NEW s, NEW before, NEW after, Keeps(s, before),
         \A i \in Calls : after[i] \in Held =>
           before[i] \in Held /\ (after[i] = "operate" => before[i] = "operate")
  PROVE  Keeps(s, after)
<1> SUFFICES ASSUME NEW i \in Calls, after[i] \in Held
             PROVE  Has(s, i, after[i] = "operate")
  BY DEF Keeps
<1>1. Has(s, i, before[i] = "operate")
  BY DEF Keeps
<1> QED BY <1>1 DEF Has

(* A step in which no call comes to wait or to operate, and neither the file *)
(* nor a copy is written.                                                    *)
LEMMA LivesLess ==
  ASSUME ClaimInv, ClaimTypeOK', UNCHANGED claims,
         \A i \in Calls : call'[i] \in Held =>
           call[i] \in Held /\ (call'[i] = "operate" => call[i] = "operate"),
         \A i \in Calls : call'[i] \in Live => i \in owners',
         \/ registry' = registry /\ (registry.by # NoCall => call'[registry.by] = call[registry.by])
         \/ registry'.by = NoCall
  PROVE  ClaimInv'
<1>1. Keeps(claims, call) /\ Keeps(claims', call')
  BY KeepsLess DEF ClaimInv
<1>2. registry'.by # NoCall => 
        call'[registry'.by] \in {"register", "wait", "remove"} /\ Keeps(registry'.copy, call')
  BY KeepsLess DEF ClaimInv
<1>3. ClaimExclusion'
  BY DEF ClaimInv, ClaimExclusion, Held
<1> QED BY <1>1, <1>2, <1>3 DEF ClaimInv

LEMMA InitInv == ClaimInit => ClaimInv
<1> SUFFICES ASSUME ClaimInit PROVE ClaimInv
  OBVIOUS
<1>1. ClaimTypeOK
  BY ClaimShape, EmptySeq DEF ClaimInit, ClaimTypeOK, Free
<1> QED BY <1>1 DEF ClaimInit, ClaimInv, ClaimExclusion, Keeps, Held, Live, Free

LEMMA QuietInv ==
  ASSUME ClaimInv, NEW i \in Calls,
         Acquire(i) \/ Abort(i) \/ OperationSettles(i) \/ ReleaseOwner(i)
  PROVE  ClaimInv'
<1> USE DEF ClaimTypeOK, Live, Ended, Held
<1>1. CASE Acquire(i)
  <2>1. ClaimTypeOK' /\ call' = [call EXCEPT ![i] = "register"] /\ owners' = owners \cup {i}
    BY <1>1 DEF Acquire, ClaimInv
  <2> QED BY <1>1, <2>1, LivesLess DEF Acquire, ClaimInv
<1>2. CASE Abort(i)
  <2>1. ClaimTypeOK'
    BY <1>2 DEF Abort, AfterError, ClaimInv
  <2> QED BY <1>2, <2>1, LivesLess DEF Abort, AfterError, ClaimInv
<1>3. CASE OperationSettles(i)
  <2>1. ClaimTypeOK'
    BY <1>3 DEF OperationSettles, ClaimInv
  <2> QED BY <1>3, <2>1, LivesLess DEF OperationSettles, ClaimInv
<1>4. CASE ReleaseOwner(i)
  <2>1. ClaimTypeOK'
    BY <1>4 DEF ReleaseOwner, ClaimInv
  <2> QED BY <1>4, <2>1, LivesLess DEF ReleaseOwner, ClaimInv
<1> QED BY <1>1, <1>2, <1>3, <1>4

LEMMA DeathInv == ASSUME ClaimInv, NEW p \in Processes, ProcessDies(p) PROVE ClaimInv'
<1> DEFINE lost == {i \in Calls : HostOf[i] = p /\ call[i] \in Live}
<1>1. /\ \A i \in lost : i \in Calls /\ call[i] \in Live
      /\ call' = [i \in Calls |-> IF i \in lost THEN "dead" ELSE call[i]]
      /\ owners' = owners \ lost
      /\ registry' = (IF registry.by \in lost THEN Free ELSE registry)
      /\ UNCHANGED <<claims, faults>>
  BY DEF ProcessDies
<1> HIDE DEF lost
<1>2. ClaimTypeOK'
  BY <1>1, EmptySeq DEF ClaimInv, ClaimTypeOK, Free, Ended
<1>3. (registry' = registry /\ registry.by \notin lost) \/ registry'.by = NoCall
  BY <1>1 DEF Free
<1> QED BY <1>1, <1>2, <1>3, LivesLess DEF ClaimInv, ClaimTypeOK, Live, Held

LEMMA OpenInv == ASSUME ClaimInv, NEW i \in Calls, OpenRegistry(i) PROVE ClaimInv'
<1>1. Len(claims) \in Nat
  BY LenProperties DEF ClaimInv, ClaimTypeOK
<1>2. ClaimTypeOK'
  BY <1>1 DEF OpenRegistry, ClaimInv, ClaimTypeOK
<1> QED BY <1>2 DEF OpenRegistry, ClaimInv, ClaimExclusion, Keeps

LEMMA ProbeInv == ASSUME ClaimInv, NEW i \in Calls, Probe(i) PROVE ClaimInv'
<1> DEFINE s == registry.copy
           n == registry.left
<1>1. /\ s \in Seq(ClaimRecords) /\ Len(s) \in Nat /\ n \in 1..Len(s)
      /\ registry.by = i /\ i # NoCall
  BY ClaimShape, LenProperties DEF ClaimInv, ClaimTypeOK, Probe
<1>2. PICK t : /\ t = s \/ (Dead(i, s[n].id) /\ t = RemoveAt(s, n))
               /\ registry' = [registry EXCEPT !.left = n - 1, !.copy = t]
  BY DEF Probe
<1>3. t \in Seq(ClaimRecords) /\ n - 1 <= Len(t) /\ n - 1 \in Nat
  BY <1>1, <1>2, RemoveAtIs
<1>4. registry' = [by |-> i, copy |-> t, left |-> n - 1]
  BY <1>1, <1>2 DEF ClaimInv, ClaimTypeOK
<1>0. UNCHANGED <<claims, owners, call, faults>>
  BY DEF Probe
<1> HIDE DEF s, n
<1>5. /\ registry'.by = i /\ registry'.copy = t /\ registry'.left = n - 1
      /\ UNCHANGED <<claims, owners, call, faults>>
  BY <1>0, <1>4
<1>6. ClaimTypeOK'
  <2>1. registry' \in [by : Calls \cup {NoCall}, copy : Seq(ClaimRecords), left : Nat]
    BY <1>3, <1>4
  <2> QED BY <1>3, <1>5, <2>1 DEF ClaimInv, ClaimTypeOK
<1>7. Keeps(t, call)
  <2>1. CASE t = s
    BY <1>1, <2>1 DEF ClaimInv, s
  <2>2. CASE Dead(i, s[n].id) /\ t = RemoveAt(s, n)
    <3> SUFFICES ASSUME NEW j \in Calls, call[j] \in Held
                 PROVE  Has(t, j, call[j] = "operate")
      BY DEF Keeps
    <3>1. j # s[n].id
      BY <2>2 DEF Dead, ClaimInv, Live, Held
    <3>2. Has(s, j, call[j] = "operate")
      BY <1>1 DEF ClaimInv, Keeps, s
    <3> QED BY <1>1, <2>2, <3>1, <3>2, DropKeepsOthers
  <2> QED BY <1>2, <2>1, <2>2
<1>8. Keeps(claims', call') /\ Keeps(registry'.copy, call')
  BY <1>5, <1>7 DEF ClaimInv
<1>9. ClaimExclusion' /\ \A j \in Calls : call'[j] \in Live => j \in owners'
  BY <1>5 DEF ClaimInv, ClaimExclusion
<1> QED BY <1>1, <1>5, <1>6, <1>8, <1>9 DEF ClaimInv

(* What a change leaves: the claims of the others, and of the call itself    *)
(* what its next place asks for.                                             *)
LEMMA ChangeKeeps ==
  ASSUME ClaimInv, NEW i \in Calls, registry.by = i, ChangeOf(i).ok
  PROVE  /\ ChangeOf(i).written \in Seq(ClaimRecords)
         /\ \A j \in Calls \ {i} : call[j] \in Held =>
              Has(ChangeOf(i).written, j, call[j] = "operate")
         /\ ChangeOf(i).then \in {"wait", "operate", "leave"}
         /\ ChangeOf(i).then \in Held =>
              Has(ChangeOf(i).written, i, ChangeOf(i).then = "operate")
         /\ ChangeOf(i).then = "operate" =>
              \A j \in Calls \ {i} : call[j] = "operate" => ~overlap(i, j)
         /\ AfterError(i) = "remove" => Has(ChangeOf(i).written, i, FALSE)
<1> DEFINE s == registry.copy
<1>1. /\ s \in Seq(ClaimRecords) /\ call[i] \in {"register", "wait", "remove"}
      /\ \A j \in Calls : call[j] \in Held => Has(s, j, call[j] = "operate")
  BY ClaimShape DEF ClaimInv, ClaimTypeOK, Keeps
<1>2. CASE call[i] = "register"
  <2>1. ChangeOf(i) = Register(s, i) /\ Register(s, i).then = "wait"
    BY <1>2 DEF ChangeOf, Register
  <2>2. AfterError(i) = "leave"
    BY <1>2 DEF AfterError
  <2> HIDE DEF s
  <2> QED BY <1>1, <2>1, <2>2, RegisterAdds DEF Held
<1>3. CASE call[i] = "wait"
  <2>1. ChangeOf(i) = AdmitClaim(s, i)
    BY <1>3 DEF ChangeOf
  <2>2. Has(s, i, FALSE)
    BY <1>1, <1>3 DEF Held, Has
  <2>3. \A j \in Calls \ {i} : call[j] = "operate" => Has(s, j, TRUE)
    BY <1>1 DEF Held, Has
  <2> HIDE DEF s
  <2> DEFINE change == AdmitClaim(s, i)
  <2>4. /\ change.written \in Seq(ClaimRecords)
        /\ change.then \in {"wait", "operate"}
        /\ \A j \in Calls, admitted \in BOOLEAN :
             Has(s, j, admitted) => Has(change.written, j, admitted)
        /\ change.then = "operate" =>
             /\ Has(change.written, i, TRUE)
             /\ \A j \in Calls \ {i} : Has(s, j, TRUE) => ~overlap(i, j)
    BY <1>1, AdmitIsExclusive
  <2>5. ChangeOf(i) = change
    BY <2>1
  <2> HIDE DEF change
  <2>6. Has(change.written, i, FALSE)
    BY <2>2, <2>4
  <2>7. change.then \in Held => Has(change.written, i, change.then = "operate")
    <3>1. CASE change.then = "operate"
      BY <2>4, <3>1 DEF Has
    <3>2. CASE change.then # "operate"
      BY <2>6, <3>2 DEF Has
    <3> QED BY <3>1, <3>2
  <2> QED BY <1>1, <2>3, <2>4, <2>5, <2>6, <2>7
<1>4. CASE call[i] = "remove"
  <2>1. ChangeOf(i) = Unregister(s, i) /\ Unregister(s, i).then = "leave"
    BY <1>4 DEF ChangeOf, Unregister
  <2>2. IndexIn(s, i) # {}
    <3>1. Unregister(s, i).ok = (IndexIn(s, i) # {})
      BY DEF Unregister
    <3> QED BY <2>1, <3>1
  <2>3. AfterError(i) = "stuck"
    BY <1>4 DEF AfterError
  <2> HIDE DEF s
  <2> QED BY <1>1, <2>1, <2>2, <2>3, UnregisterDropsOne DEF Held
<1> QED BY <1>1, <1>2, <1>3, <1>4

(* The end of a section: the file is as it was or as the change writes it,   *)
(* the call goes where the change or its error sends it.                     *)
LEMMA SectionEnds ==
  ASSUME ClaimInv, NEW i \in Calls, registry.by = i, NEW place,
         \/ claims' = claims /\ place = AfterError(i)
         \/ ChangeOf(i).ok /\ claims' = ChangeOf(i).written
            /\ place \in {ChangeOf(i).then, AfterError(i)},
         call' = [call EXCEPT ![i] = place], registry' = Free,
         UNCHANGED owners, faults' \in 0..MaxFaults
  PROVE  ClaimInv'
<1>1. /\ i # NoCall /\ call[i] \in {"register", "wait", "remove"}
      /\ AfterError(i) \in {"leave", "remove", "stuck"}
      /\ AfterError(i) = "remove" => call[i] = "wait"
  BY ClaimShape DEF ClaimInv, AfterError
<1>2. place \in {"wait", "operate", "leave", "remove", "stuck"}
  BY <1>1, ChangeKeeps
<1>3. call' \in [Calls -> {"new"} \cup Live \cup Ended]
  BY <1>2 DEF ClaimInv, ClaimTypeOK, Live
<1>4. claims' \in Seq(ClaimRecords)
  BY ChangeKeeps DEF ClaimInv, ClaimTypeOK
<1>5. ClaimTypeOK'
  BY <1>3, <1>4, EmptySeq DEF ClaimInv, ClaimTypeOK, Free
<1>6. call'[i] = place /\ \A j \in Calls \ {i} : call'[j] = call[j]
  BY DEF ClaimInv, ClaimTypeOK
<1>7. Keeps(claims', call')
  <2> SUFFICES ASSUME NEW j \in Calls, call'[j] \in Held
               PROVE  Has(claims', j, call'[j] = "operate")
    BY DEF Keeps
  <2>1. CASE j # i
    BY <1>6, <2>1, ChangeKeeps, ZenonT(60) DEF ClaimInv, Keeps
  <2>2. CASE j = i /\ claims' = claims /\ place = AfterError(i)
    <3>1. place = "remove" /\ call[i] = "wait"
      BY <1>1, <1>6, <2>2 DEF Held
    <3>2. Has(claims, i, FALSE)
      BY <3>1 DEF ClaimInv, Keeps, Held, Has
    <3> QED BY <1>6, <2>2, <3>1, <3>2 DEF Has
  <2>3. CASE j = i /\ ChangeOf(i).ok /\ claims' = ChangeOf(i).written
    <3>1. CASE place = ChangeOf(i).then
      BY <1>6, <2>3, <3>1, ChangeKeeps
    <3>2. CASE place = AfterError(i)
      <4>1. place = "remove" /\ Has(claims', i, FALSE)
        BY <1>1, <1>6, <2>3, <3>2, ChangeKeeps DEF Held
      <4> QED BY <1>6, <2>3, <4>1 DEF Has
    <3> QED BY <1>1, <1>6, <2>3, <3>1, <3>2
  <2> QED BY <2>1, <2>2, <2>3
<1>8. ClaimExclusion'
  <2>1. place = "operate" => \A j \in Calls \ {i} : call[j] = "operate" => ~overlap(i, j)
    BY <1>1, ChangeKeeps
  <2> QED BY <1>6, <2>1, OverlapIsMutual DEF ClaimInv, ClaimExclusion
<1>9. \A j \in Calls : call'[j] \in Live => j \in owners'
  BY <1>1, <1>6 DEF ClaimInv, Live
<1> QED BY <1>5, <1>7, <1>8, <1>9 DEF ClaimInv, Free

LEMMA NextInv == ClaimInv /\ [ClaimNext]_claimVars => ClaimInv'
<1> SUFFICES ASSUME ClaimInv, [ClaimNext]_claimVars PROVE ClaimInv'
  OBVIOUS
<1>1. ASSUME NEW i \in Calls, Change(i) PROVE ClaimInv'
  <2>1. registry.by = i /\ registry' = Free /\ UNCHANGED owners /\ faults' \in 0..MaxFaults
    BY <1>1 DEF Change, Ready, ClaimInv, ClaimTypeOK
  <2>2. CASE ChangeOf(i).ok
    BY <1>1, <2>1, <2>2, SectionEnds DEF Change
  <2>3. CASE ~ChangeOf(i).ok
    BY <1>1, <2>1, <2>3, SectionEnds DEF Change
  <2> QED BY <2>2, <2>3
<1>2. ASSUME NEW i \in Calls, ChangeFails(i) PROVE ClaimInv'
  <2>1. faults' \in 0..MaxFaults
    BY <1>2, ClaimShape DEF ChangeFails, ClaimInv, ClaimTypeOK
  <2> QED BY <1>2, <2>1, SectionEnds DEF ChangeFails
<1>3. CASE UNCHANGED claimVars
  BY <1>3 DEF claimVars, ClaimInv, ClaimTypeOK, ClaimExclusion, Keeps
<1> QED
  BY <1>1, <1>2, <1>3, QuietInv, DeathInv, OpenInv, ProbeInv DEF ClaimNext, ClaimsAtRest

(* The registry's file and the section that changes it are always of the     *)
(* form that the next reader takes.                                          *)
THEOREM ClaimsTypeCorrect == ClaimSpec => []ClaimTypeOK
<1>1. ClaimInv => ClaimTypeOK
  BY DEF ClaimInv
<1> QED BY <1>1, InitInv, NextInv, PTL DEF ClaimSpec

(* Whatever dies, fails or is aborted at any point, two operations on        *)
(* overlapping paths are never under way together.                           *)
THEOREM ClaimsExclude == ClaimSpec => []ClaimExclusion
<1>1. ClaimInv => ClaimExclusion
  BY DEF ClaimInv
<1> QED BY <1>1, InitInv, NextInv, PTL DEF ClaimSpec

(* No live call loses its claim to the reaper or to the change of another.   *)
THEOREM ClaimsAreKept == ClaimSpec => []ClaimKept
<1>1. ClaimInv => ClaimKept
  BY LenProperties DEF ClaimInv, ClaimTypeOK, ClaimKept, Keeps, Held, Has
<1> QED BY <1>1, InitInv, NextInv, PTL DEF ClaimSpec
----------------------------------------------------------------------------
(* The refinement.  A change is decided and written on a copy that was read   *)
(* before and has lost entries since: it says the same as the file about who   *)
(* came before whom, for the calls that hold a claim.                         *)

Listed(s, i) == \E n \in 1..Len(s) : s[n].id = i
Apart(s) == \A m, n \in 1..Len(s) : s[m].id = s[n].id => m = n
SameOrder(s, t, i, j) == Before(s, i, j) <=> Before(t, i, j)
LineInv ==
  /\ Apart(claims)
  /\ \A i \in Calls : call[i] \in {"new", "register"} => ~Listed(claims, i)
  /\ registry.by # NoCall =>
       /\ Apart(registry.copy)
       /\ \A i \in Calls : Listed(registry.copy, i) => Listed(claims, i)
       /\ \A i, j \in Calls : call[i] \in Held /\ call[j] \in Held =>
            SameOrder(registry.copy, claims, i, j)

LEMMA BeforeIs ==
  ASSUME NEW s \in Seq(ClaimRecords), NEW i, NEW j
  PROVE  Before(s, i, j) <=> \E m, n \in 1..Len(s) : m < n /\ s[m].id = i /\ s[n].id = j
BY LenProperties DEF Before

\* An entry less: the others stay, in their order.
LEMMA DropKeepsOrder ==
  ASSUME NEW s \in Seq(ClaimRecords), NEW n \in 1..Len(s), Apart(s)
  PROVE  LET t == RemoveAt(s, n) IN
         /\ Apart(t)
         /\ \A j : Listed(t, j) => Listed(s, j)
         /\ \A i, j : i # s[n].id /\ j # s[n].id => SameOrder(t, s, i, j)
<1> DEFINE t == RemoveAt(s, n)
           from(k) == IF k < n THEN k ELSE k + 1
           to(k) == IF k < n THEN k ELSE k - 1
<1>1. /\ t \in Seq(ClaimRecords) /\ Len(t) = Len(s) - 1 /\ Len(s) \in Nat
      /\ \A m \in 1..(n - 1) : t[m] = s[m]
      /\ \A m \in (n + 1)..Len(s) : t[m - 1] = s[m]
  BY RemoveAtIs, LenProperties
<1>1a. DOMAIN s = 1..Len(s) /\ DOMAIN t = 1..Len(t)
  BY <1>1, LenProperties
<1> HIDE DEF t
<1>2. \A k \in 1..Len(t) : from(k) \in 1..Len(s) /\ t[k] = s[from(k)]
  <2> TAKE k \in 1..Len(t)
  <2>1. CASE k < n
    BY <1>1, <2>1
  <2>2. CASE ~(k < n)
    <3>1. k + 1 \in (n + 1)..Len(s) /\ (k + 1) - 1 = k
      BY <1>1, <2>2
    <3> QED BY <1>1, <2>2, <3>1
  <2> QED BY <2>1, <2>2
<1>3. \A k \in 1..Len(s) : k # n => to(k) \in 1..Len(t) /\ from(to(k)) = k
  BY <1>1
<1>4. \A k, m \in 1..Len(t) : (k < m <=> from(k) < from(m)) /\ (from(k) = from(m) => k = m)
  BY <1>1
<1>5. \A k, m \in 1..Len(s) : k # n /\ m # n /\ k < m => to(k) < to(m)
  BY <1>1
<1> HIDE DEF from, to
<1>6. Apart(t) /\ \A j : Listed(t, j) => Listed(s, j)
  <2>1. ASSUME NEW k \in 1..Len(t), NEW m \in 1..Len(t), t[k].id = t[m].id
        PROVE  k = m
    <3>1. from(k) \in 1..Len(s) /\ from(m) \in 1..Len(s) /\ s[from(k)].id = s[from(m)].id
      BY <1>2, <2>1
    <3>2. from(k) = from(m)
      BY <3>1 DEF Apart
    <3> QED BY <1>4, <3>2
  <2>2. ASSUME NEW j, Listed(t, j)
        PROVE  Listed(s, j)
    <3>1. PICK k \in 1..Len(t) : t[k].id = j
      BY <2>2 DEF Listed
    <3>2. from(k) \in 1..Len(s) /\ s[from(k)].id = j
      BY <1>2, <3>1
    <3> QED BY <3>2 DEF Listed
  <2>3. Apart(t)
    BY <2>1 DEF Apart
  <2> QED BY <2>2, <2>3
<1>7. ASSUME NEW i, NEW j, i # s[n].id, j # s[n].id
      PROVE  SameOrder(t, s, i, j)
  <2>1. ASSUME NEW k \in 1..Len(t), NEW m \in 1..Len(t), k < m, t[k].id = i, t[m].id = j
        PROVE  Before(s, i, j)
    BY <1>2, <1>4, <2>1, BeforeIs, SMTT(30)
  <2>2. ASSUME NEW k \in 1..Len(s), NEW m \in 1..Len(s), k < m, s[k].id = i, s[m].id = j
        PROVE  Before(t, i, j)
    <3>1. k # n /\ m # n
      BY <1>7, <2>2
    <3>2. to(k) \in 1..Len(t) /\ to(m) \in 1..Len(t) /\ to(k) < to(m)
          /\ t[to(k)] = s[k] /\ t[to(m)] = s[m]
      BY <1>2, <1>3, <1>5, <2>2, <3>1
    <3> QED BY <1>1, <2>2, <3>2, BeforeIs, SMTT(30)
  <2>3. ASSUME Before(t, i, j) PROVE Before(s, i, j)
    <3>1. PICK k, m \in 1..Len(t) : k < m /\ t[k].id = i /\ t[m].id = j
      BY <1>1a, <2>3, Zenon DEF Before
    <3> QED BY <2>1, <3>1
  <2>4. ASSUME Before(s, i, j) PROVE Before(t, i, j)
    <3>1. PICK k, m \in 1..Len(s) : k < m /\ s[k].id = i /\ s[m].id = j
      BY <1>1a, <2>4, Zenon DEF Before
    <3> QED BY <2>2, <3>1
  <2> QED BY <2>3, <2>4 DEF SameOrder
<1> QED BY <1>6, <1>7 DEF t

\* What each change does to the order of the list.
LEMMA RegisterOrder ==
  ASSUME NEW s \in Seq(ClaimRecords), NEW i \in Calls, Apart(s), ~Listed(s, i)
  PROVE  LET t == Register(s, i).written IN
         /\ Apart(t)
         /\ \A j : Listed(t, j) => Listed(s, j) \/ j = i
         /\ \A j, k : j # i /\ k # i => SameOrder(t, s, j, k)
         /\ \A j : Before(t, j, i) <=> Listed(s, j)
         /\ \A j : ~Before(t, i, j)
<1> DEFINE claim == [id |-> i, running |-> FALSE]
           t == Append(s, claim)
<1>1. claim \in ClaimRecords /\ claim.id = i
  BY DEF ClaimRecords
<1>2. Register(s, i).written = t
  BY DEF Register
<1> HIDE DEF claim
<1>3. /\ t \in Seq(ClaimRecords) /\ Len(t) = Len(s) + 1
      /\ \A n \in 1..Len(s) : t[n] = s[n]
      /\ t[Len(s) + 1] = claim
      /\ Len(s) \in Nat
  BY <1>1, AppendProperties, LenProperties
<1> HIDE DEF t
<1>4. \A n \in 1..Len(t) : n \in 1..Len(s) \/ n = Len(s) + 1
  BY <1>3
<1>5. \A n \in 1..Len(s) : s[n].id # i
  BY DEF Listed
<1>6. Apart(t)
  BY <1>1, <1>3, <1>4, <1>5 DEF Apart
<1>7. \A j : Listed(t, j) => Listed(s, j) \/ j = i
  BY <1>1, <1>3, <1>4 DEF Listed
<1>8. ASSUME NEW j, NEW k, j # i, k # i PROVE SameOrder(t, s, j, k)
  <2>1. Before(t, j, k) => Before(s, j, k)
    BY <1>1, <1>3, <1>4, <1>8, BeforeIs, SMTT(30)
  <2>2. Before(s, j, k) => Before(t, j, k)
    <3> HAVE Before(s, j, k)
    <3>1. PICK m, n \in 1..Len(s) : m < n /\ s[m].id = j /\ s[n].id = k
      BY BeforeIs, SMTT(30)
    <3>2. m \in 1..Len(t) /\ n \in 1..Len(t)
      BY <1>3
    <3> QED BY <1>3, <3>1, <3>2, BeforeIs, SMTT(30)
  <2> QED BY <2>1, <2>2 DEF SameOrder
<1>9. ASSUME NEW j PROVE Before(t, j, i) <=> Listed(s, j)
  <2>1. ASSUME Before(t, j, i) PROVE Listed(s, j)
    <3>1. PICK m, n \in 1..Len(t) : m < n /\ t[m].id = j /\ t[n].id = i
      BY <1>3, <2>1, BeforeIs, SMTT(30)
    <3>2. m \in 1..Len(s)
      BY <1>3, <3>1
    <3> QED BY <1>3, <3>1, <3>2 DEF Listed
  <2>2. ASSUME Listed(s, j) PROVE Before(t, j, i)
    <3>1. PICK m \in 1..Len(s) : s[m].id = j
      BY <2>2 DEF Listed
    <3>2. m \in 1..Len(t) /\ Len(s) + 1 \in 1..Len(t) /\ m < Len(s) + 1
      BY <1>3
    <3> QED BY <1>1, <1>3, <3>1, <3>2, BeforeIs, SMTT(30)
  <2> QED BY <2>1, <2>2
<1>10. ASSUME NEW j, Before(t, i, j) PROVE FALSE
  <2>1. PICK m, n \in 1..Len(t) : m < n /\ t[m].id = i /\ t[n].id = j
    BY <1>3, <1>10, BeforeIs, SMTT(30)
  <2>2. m \in 1..Len(s)
    BY <1>3, <2>1
  <2> QED BY <1>3, <1>5, <2>1, <2>2
<1> QED BY <1>2, <1>6, <1>7, <1>8, <1>9, <1>10

LEMMA AdmitOrder ==
  ASSUME NEW s \in Seq(ClaimRecords), NEW i \in Calls, Apart(s)
  PROVE  LET change == AdmitClaim(s, i)
             t == change.written IN
         /\ Apart(t)
         /\ \A j : Listed(t, j) => Listed(s, j)
         /\ \A j, k : SameOrder(t, s, j, k)
         /\ change.then = "operate" => \A j : Before(s, j, i) => ~overlap(j, i)
<1> DEFINE change == AdmitClaim(s, i)
           t == change.written
<1>1. Len(s) \in Nat /\ DOMAIN s = 1..Len(s) /\ \A n \in 1..Len(s) : s[n] \in ClaimRecords
  BY LenProperties, ElementOfSeq
<1>2. /\ t \in Seq(ClaimRecords) /\ Len(t) = Len(s)
      /\ \A n \in 1..Len(s) : t[n].id = s[n].id
  <2>1. t = [n \in 1..Len(s) |->
               IF n \in IndexIn(s, i) /\ ~Blocked(s, i, n)
               THEN [s[n] EXCEPT !.running = TRUE] ELSE s[n]]
    BY <1>1 DEF AdmitClaim
  <2>2. t \in Seq(ClaimRecords)
    BY AdmitIsExclusive
  <2> HIDE DEF t
  <2>3. Len(t) = Len(s)
    BY <1>1, <2>1, <2>2, LenProperties
  <2>4. \A n \in 1..Len(s) : t[n].id = s[n].id
    BY <1>1, <2>1 DEF ClaimRecords
  <2> QED BY <2>2, <2>3, <2>4
<1>3. change.then = "operate" => \E n \in IndexIn(s, i) : ~Blocked(s, i, n)
  BY DEF AdmitClaim
<1> HIDE DEF t, change
<1>4. Apart(t) /\ \A j : Listed(t, j) => Listed(s, j)
  BY <1>2 DEF Apart, Listed
<1>5. \A j, k : SameOrder(t, s, j, k)
  BY <1>2, BeforeIs, SMTT(30) DEF SameOrder
<1>6. ASSUME change.then = "operate", NEW j, Before(s, j, i) PROVE ~overlap(j, i)
  <2>1. PICK n \in IndexIn(s, i) : ~Blocked(s, i, n)
    BY <1>3, <1>6
  <2>2. PICK m, k \in 1..Len(s) : m < k /\ s[m].id = j /\ s[k].id = i
    BY <1>6, BeforeIs, SMTT(30)
  <2>3. n = k
    BY <1>1, <2>1, <2>2 DEF IndexIn, Apart
  <2> QED BY <1>1, <2>1, <2>2, <2>3 DEF Blocked
<1> QED BY <1>4, <1>5, <1>6 DEF t, change

LEMMA UnregisterOrder ==
  ASSUME NEW s \in Seq(ClaimRecords), NEW i \in Calls, Apart(s), IndexIn(s, i) # {}
  PROVE  LET t == Unregister(s, i).written IN
         /\ Apart(t)
         /\ \A j : Listed(t, j) => Listed(s, j)
         /\ \A j, k : j # i /\ k # i => SameOrder(t, s, j, k)
<1> DEFINE n == CHOOSE n \in IndexIn(s, i) : TRUE
<1>1. n \in IndexIn(s, i)
  OBVIOUS
<1> HIDE DEF n
<1>2. n \in 1..Len(s) /\ s[n].id = i
  BY <1>1, LenProperties DEF IndexIn
<1>3. Unregister(s, i).written = RemoveAt(s, n)
  BY DEF Unregister, n
<1> QED BY <1>2, <1>3, DropKeepsOrder


LEMMA ChangeOrder ==
  ASSUME ClaimInv, LineInv, NEW i \in Calls, registry.by = i, ChangeOf(i).ok
  PROVE  LET change == ChangeOf(i)
             w == change.written IN
         /\ Apart(w)
         /\ \A j \in Calls : Listed(w, j) => Listed(claims, j) \/ j = i
         /\ \A j, k \in Calls :
              /\ call[j] \in Held /\ call[k] \in Held
              /\ (j # i /\ k # i) \/ call[i] = "wait"
              => SameOrder(w, claims, j, k)
         /\ call[i] = "register" =>
              /\ change.then = "wait"
              /\ \A j \in Calls : ~Before(w, i, j) /\ (call[j] = "wait" => Before(w, j, i))
         /\ change.then = "wait" => call[i] \in {"register", "wait"}
         /\ change.then = "operate" =>
              /\ call[i] = "wait"
              /\ \A j \in Calls :
                   call[j] = "wait" /\ Before(claims, j, i) => ~overlap(j, i)
<1> DEFINE s == registry.copy
           change == ChangeOf(i)
           w == change.written
<1>1. /\ s \in Seq(ClaimRecords) /\ call[i] \in {"register", "wait", "remove"} /\ Apart(s)
      /\ \A j \in Calls : Listed(s, j) => Listed(claims, j)
      /\ \A j, k \in Calls : call[j] \in Held /\ call[k] \in Held => SameOrder(s, claims, j, k)
  BY ClaimShape DEF ClaimInv, ClaimTypeOK, LineInv
<1>2. CASE call[i] = "register"
  <2>1. change = Register(s, i) /\ Register(s, i).then = "wait"
    BY <1>2 DEF ChangeOf, Register
  <2>2. ~Listed(s, i)
    BY <1>1, <1>2 DEF LineInv
  <2>3. \A j \in Calls : call[j] = "wait" => Listed(s, j)
    BY ClaimShape DEF ClaimInv, Keeps, Held, Has, Listed
  <2> HIDE DEF s, change
  <2>4. /\ Apart(w)
        /\ \A j : Listed(w, j) => Listed(s, j) \/ j = i
        /\ \A j, k : j # i /\ k # i => SameOrder(w, s, j, k)
        /\ \A j : Before(w, j, i) <=> Listed(s, j)
        /\ \A j : ~Before(w, i, j)
    BY <1>1, <2>1, <2>2, RegisterOrder, ZenonT(60)
  <2> HIDE DEF w
  <2>5. \A j, k \in Calls : call[j] \in Held /\ call[k] \in Held /\ j # i /\ k # i
                              => SameOrder(w, claims, j, k)
    BY <1>1, <2>4 DEF SameOrder
  <2> QED BY <1>1, <1>2, <2>1, <2>3, <2>4, <2>5 DEF w, change
<1>3. CASE call[i] = "wait"
  <2>1. change = AdmitClaim(s, i)
    BY <1>3 DEF ChangeOf
  <2> HIDE DEF s, change
  <2>2. /\ Apart(w)
        /\ \A j : Listed(w, j) => Listed(s, j)
        /\ \A j, k : SameOrder(w, s, j, k)
        /\ change.then = "operate" => \A j : Before(s, j, i) => ~overlap(j, i)
    BY <1>1, <2>1, AdmitOrder
  <2> HIDE DEF w
  <2>3. \A j, k \in Calls : call[j] \in Held /\ call[k] \in Held => SameOrder(w, claims, j, k)
    BY <1>1, <2>2 DEF SameOrder
  <2>4. change.then = "operate" =>
          \A j \in Calls : call[j] = "wait" /\ Before(claims, j, i) => ~overlap(j, i)
    BY <1>1, <1>3, <2>2 DEF SameOrder, Held
  <2> QED BY <1>1, <1>3, <2>2, <2>3, <2>4 DEF w, change
<1>4. CASE call[i] = "remove"
  <2>1. change = Unregister(s, i) /\ Unregister(s, i).then = "leave"
    BY <1>4 DEF ChangeOf, Unregister
  <2>2. IndexIn(s, i) # {}
    <3>1. Unregister(s, i).ok = (IndexIn(s, i) # {})
      BY DEF Unregister
    <3> QED BY <2>1, <3>1
  <2> HIDE DEF s, change
  <2>3. /\ Apart(w)
        /\ \A j : Listed(w, j) => Listed(s, j)
        /\ \A j, k : j # i /\ k # i => SameOrder(w, s, j, k)
    BY <1>1, <2>1, <2>2, UnregisterOrder
  <2> HIDE DEF w
  <2>4. \A j, k \in Calls : call[j] \in Held /\ call[k] \in Held /\ j # i /\ k # i
                              => SameOrder(w, claims, j, k)
    BY <1>1, <2>3 DEF SameOrder
  <2> QED BY <1>1, <1>4, <2>1, <2>3, <2>4 DEF w, change
<1> QED BY <1>1, <1>2, <1>3, <1>4

\* A step that leaves the file alone, and the copy or the section too.
LEMMA LineStays ==
  ASSUME LineInv, UNCHANGED claims,
         \A i \in Calls : call'[i] \in Held => call[i] \in Held,
         \A i \in Calls : call'[i] \in {"new", "register"} => call[i] \in {"new", "register"},
         registry' = registry \/ registry'.by = NoCall
  PROVE  LineInv'
<1>1. \A i \in Calls : call'[i] \in {"new", "register"} => ~Listed(claims', i)
  BY DEF LineInv
<1>2. CASE registry' = registry
  BY <1>1, <1>2 DEF LineInv, SameOrder, Before, Apart, Listed
<1>3. CASE registry'.by = NoCall
  BY <1>1, <1>3 DEF LineInv, Apart
<1> QED BY <1>2, <1>3

LEMMA LineInit == ASSUME ClaimInit PROVE LineInv
<1>1. Len(claims) = 0
  BY DEF ClaimInit
<1> QED BY <1>1 DEF ClaimInit, LineInv, Free, Apart, Listed

LEMMA ProbeLine ==
  ASSUME ClaimInv, LineInv, NEW i \in Calls, Probe(i)
  PROVE  LineInv'
<1> DEFINE s == registry.copy
           n == registry.left
<1>1. /\ s \in Seq(ClaimRecords) /\ Len(s) \in Nat /\ n \in 1..Len(s)
      /\ registry.by = i /\ i # NoCall
  BY ClaimShape, LenProperties DEF ClaimInv, ClaimTypeOK, Probe
<1>2. PICK t : /\ t = s \/ (Dead(i, s[n].id) /\ t = RemoveAt(s, n))
               /\ registry' = [registry EXCEPT !.left = n - 1, !.copy = t]
  BY DEF Probe
<1>3. registry'.by = i /\ registry'.copy = t
  BY <1>1, <1>2 DEF ClaimInv, ClaimTypeOK
<1>4. UNCHANGED <<claims, owners, call, faults>>
  BY DEF Probe
<1>5. /\ Apart(s) /\ \A j \in Calls : Listed(s, j) => Listed(claims, j)
      /\ \A j, k \in Calls : call[j] \in Held /\ call[k] \in Held => SameOrder(s, claims, j, k)
  BY <1>1 DEF LineInv
<1> HIDE DEF s, n
<1>6. /\ Apart(t) /\ \A j \in Calls : Listed(t, j) => Listed(claims, j)
      /\ \A j, k \in Calls : call[j] \in Held /\ call[k] \in Held => SameOrder(t, claims, j, k)
  <2>1. CASE t = s
    BY <1>5, <2>1
  <2>2. CASE Dead(i, s[n].id) /\ t = RemoveAt(s, n)
    <3>1. /\ Apart(t)
          /\ \A j : Listed(t, j) => Listed(s, j)
          /\ \A j, k : j # s[n].id /\ k # s[n].id => SameOrder(t, s, j, k)
      BY <1>1, <1>5, <2>2, DropKeepsOrder
    <3>2. \A j \in Calls : call[j] \in Held => j # s[n].id
      BY <2>2 DEF Dead, ClaimInv, Live, Held
    <3> QED BY <1>5, <3>1, <3>2 DEF SameOrder
  <2> QED BY <1>2, <2>1, <2>2
<1>7. /\ Apart(claims') /\ \A j \in Calls : Listed(t, j) => Listed(claims', j)
      /\ \A j \in Calls : call'[j] \in {"new", "register"} => ~Listed(claims', j)
  BY <1>4, <1>6 DEF LineInv
<1>8. Apart(registry'.copy) /\ \A j \in Calls : Listed(registry'.copy, j) => Listed(claims', j)
  BY <1>3, <1>6, <1>7
<1>9. \A j, k \in Calls : call'[j] \in Held /\ call'[k] \in Held =>
        SameOrder(registry'.copy, claims', j, k)
  BY <1>3, <1>4, <1>6
<1> QED BY <1>7, <1>8, <1>9 DEF LineInv

LEMMA OpenLine ==
  ASSUME ClaimInv, LineInv, NEW i \in Calls, OpenRegistry(i)
  PROVE  LineInv'
<1>1. registry'.copy = claims /\ UNCHANGED <<claims, call>>
  BY DEF OpenRegistry
<1>2. \A j, k \in Calls : SameOrder(claims, claims, j, k)
  BY DEF SameOrder
<1>3. \A j, k \in Calls : SameOrder(registry'.copy, claims', j, k)
  BY <1>1, <1>2
<1>4. Apart(registry'.copy) /\ \A j \in Calls : Listed(registry'.copy, j) => Listed(claims', j)
  BY <1>1 DEF LineInv
<1>5. Apart(claims') /\ \A j \in Calls : call'[j] \in {"new", "register"} => ~Listed(claims', j)
  BY <1>1 DEF LineInv
<1> QED BY <1>3, <1>4, <1>5 DEF LineInv

\* What a section leaves behind when it ends.
SectionOver(i, place) ==
  /\ registry.by = i /\ registry'.by = NoCall /\ call' = [call EXCEPT ![i] = place]
  /\ \/ claims' = claims /\ place = AfterError(i)
     \/ /\ ChangeOf(i).ok /\ claims' = ChangeOf(i).written
        /\ place \in {ChangeOf(i).then, AfterError(i)}

LEMMA SectionEndsSo ==
  ASSUME ClaimInv, NEW i \in Calls, Change(i) \/ ChangeFails(i)
  PROVE  \E place : SectionOver(i, place)
<1>1. registry.by = i /\ registry'.by = NoCall
  BY DEF Change, ChangeFails, Ready, Free
<1>2. CASE Change(i)
  <2>1. CASE ChangeOf(i).ok
    BY <1>1, <1>2, <2>1 DEF Change, SectionOver
  <2>2. CASE ~ChangeOf(i).ok
    BY <1>1, <1>2, <2>2 DEF Change, SectionOver
  <2> QED BY <2>1, <2>2
<1>3. CASE ChangeFails(i)
  BY <1>1, <1>3 DEF ChangeFails, SectionOver
<1> QED BY <1>2, <1>3

LEMMA SectionLine ==
  ASSUME ClaimInv, LineInv, NEW i \in Calls, NEW place, SectionOver(i, place)
  PROVE  LineInv'
<1>1. /\ call[i] \in {"register", "wait", "remove"} /\ i # NoCall
      /\ AfterError(i) \in {"leave", "remove", "stuck"}
  BY ClaimShape DEF SectionOver, ClaimInv, AfterError
<1>2. place \in {"wait", "operate", "leave", "remove", "stuck"}
  <2>1. ChangeOf(i).ok => ChangeOf(i).then \in {"wait", "operate", "leave"}
    BY ChangeKeeps DEF SectionOver
  <2> QED BY <1>1, <2>1 DEF SectionOver
<1>3. call'[i] = place /\ \A j \in Calls \ {i} : call'[j] = call[j]
  BY DEF SectionOver, ClaimInv, ClaimTypeOK
<1>4. Apart(claims') /\ \A j \in Calls : Listed(claims', j) => Listed(claims, j) \/ j = i
  <2>1. CASE claims' = claims
    BY <2>1 DEF LineInv
  <2>2. CASE ChangeOf(i).ok /\ claims' = ChangeOf(i).written
    BY <2>2, ChangeOrder DEF SectionOver
  <2> QED BY <2>1, <2>2 DEF SectionOver
<1>5. \A j \in Calls : call'[j] \in {"new", "register"} => ~Listed(claims', j)
  BY <1>2, <1>3, <1>4 DEF LineInv
<1> QED BY <1>4, <1>5 DEF LineInv, SectionOver

LEMMA LineStep ==
  ASSUME ClaimInv, LineInv, [ClaimNext]_claimVars
  PROVE  LineInv'
<1>1. ASSUME NEW i \in Calls, Acquire(i) \/ Abort(i) \/ OperationSettles(i) \/ ReleaseOwner(i)
      PROVE  LineInv'
  BY <1>1, LineStays
     DEF Acquire, Abort, OperationSettles, ReleaseOwner, AfterError, ClaimInv, ClaimTypeOK, Held
<1>2. ASSUME NEW p \in Processes, ProcessDies(p) PROVE LineInv'
  <2> DEFINE lost == {i \in Calls : HostOf[i] = p /\ call[i] \in Live}
  <2>1. /\ call' = [i \in Calls |-> IF i \in lost THEN "dead" ELSE call[i]]
        /\ registry' = (IF registry.by \in lost THEN Free ELSE registry)
        /\ UNCHANGED claims
    BY <1>2 DEF ProcessDies
  <2> HIDE DEF lost
  <2> QED BY <2>1, LineStays DEF Held, Free
<1>3. CASE UNCHANGED claimVars
  BY <1>3, LineStays DEF claimVars
<1>4. ASSUME NEW i \in Calls, Change(i) \/ ChangeFails(i) PROVE LineInv'
  BY <1>4, SectionEndsSo, SectionLine
<1> QED
  BY <1>1, <1>2, <1>3, <1>4, OpenLine, ProbeLine DEF ClaimNext, ClaimsAtRest

\* A step in which no call comes to wait or to operate is one in which some leave.
LEMMA LocksLeft ==
  ASSUME \A i \in Calls : call'[i] \in {"wait", "operate"} => call'[i] = call[i],
         \A i, j \in Calls : call'[i] = "wait" /\ call'[j] = "wait" =>
           SameOrder(claims', claims, i, j)
  PROVE  [Locks!LocksNext]_Locks!locks
<1> DEFINE gone == {i \in Calls : call[i] \in {"wait", "operate"} /\ call'[i] # call[i]}
<1>1. Waiting' = Waiting \ gone /\ Operating' = Operating \ gone
  BY DEF Waiting, Operating
<1>2. gone \subseteq Waiting \cup Operating /\ gone \in SUBSET Calls
  BY DEF Waiting, Operating
<1>3. Ahead' = Ahead \cap ((Waiting \ gone) \X (Waiting \ gone))
  <2> HIDE DEF gone
  <2>1. \A i, j \in Waiting' : Before(claims', i, j) <=> Before(claims, i, j)
    BY DEF Waiting, SameOrder
  <2>2. Ahead' = {pair \in Waiting' \X Waiting' : Before(claims', pair[1], pair[2])}
    BY DEF Ahead
  <2>3. \A pair \in Waiting' \X Waiting' : pair[1] \in Waiting' /\ pair[2] \in Waiting'
    OBVIOUS
  <2>4. Ahead' = {pair \in Waiting' \X Waiting' : Before(claims, pair[1], pair[2])}
    BY <2>1, <2>2, <2>3
  <2>5. Waiting' \X Waiting' = (Waiting \ gone) \X (Waiting \ gone)
        /\ Waiting' \X Waiting' \subseteq Waiting \X Waiting
    BY <1>1
  <2> QED BY <2>4, <2>5 DEF Ahead
<1> HIDE DEF gone
<1>4. CASE gone = {}
  BY <1>1, <1>3, <1>4 DEF Locks!locks, Ahead
<1>5. CASE gone # {}
  <2>1. Locks!Leave(gone)
    BY <1>1, <1>2, <1>3 DEF Locks!Leave, Locks!WaitsNoMore
  <2>2. gone \in (SUBSET Calls) \ {{}}
    BY <1>2, <1>5
  <2> QED BY <2>1, <2>2, Zenon DEF Locks!LocksNext
<1> QED BY <1>4, <1>5

\* Registration is joining the line, admission is being let in.
LEMMA LocksSection ==
  ASSUME ClaimInv, LineInv, NEW i \in Calls, NEW place, SectionOver(i, place)
  PROVE  [Locks!LocksNext]_Locks!locks
<1>1. call'[i] = place /\ \A j \in Calls \ {i} : call'[j] = call[j]
  BY DEF SectionOver, ClaimInv, ClaimTypeOK
<1>2. /\ call[i] \in {"register", "wait", "remove"}
      /\ AfterError(i) \in {"leave", "remove", "stuck"}
  BY ClaimShape DEF SectionOver, ClaimInv, AfterError
<1>3. CASE claims' = claims /\ place = AfterError(i)
  BY <1>1, <1>2, <1>3, LocksLeft DEF SameOrder
<1>4. CASE ChangeOf(i).ok /\ claims' = ChangeOf(i).written
  <2> DEFINE then == ChangeOf(i).then
  <2>1. /\ \A j, k \in Calls :
             /\ call[j] \in Held /\ call[k] \in Held
             /\ (j # i /\ k # i) \/ call[i] = "wait"
             => SameOrder(claims', claims, j, k)
        /\ call[i] = "register" =>
             /\ then = "wait"
             /\ \A j \in Calls :
                  ~Before(claims', i, j) /\ (call[j] = "wait" => Before(claims', j, i))
        /\ then = "wait" => call[i] \in {"register", "wait"}
        /\ then = "operate" =>
             /\ call[i] = "wait"
             /\ \A j \in Calls :
                  call[j] = "wait" /\ Before(claims, j, i) => ~overlap(j, i)
    BY <1>4, ChangeOrder DEF SectionOver
  <2>2. /\ then \in {"wait", "operate", "leave"} /\ place \in {then, AfterError(i)}
        /\ then = "operate" =>
             \A j \in Calls \ {i} : call[j] = "operate" => ~overlap(i, j)
    <3>1. place = AfterError(i) \/ place = then
      BY <1>4 DEF SectionOver
    <3> QED BY <1>4, <3>1, ChangeKeeps DEF SectionOver
  <2> HIDE DEF then
  <2>3. CASE place = "operate"
    <3>1. call[i] = "wait" /\ i \in Waiting /\ then = "operate"
      BY <1>2, <2>1, <2>2, <2>3 DEF Waiting
    <3>2. Waiting' = Waiting \ {i} /\ Operating' = Operating \cup {i}
      BY <1>1, <2>3 DEF Waiting, Operating
    <3>3. \A j \in Waiting : <<j, i>> \in Ahead => ~overlap(j, i)
      BY <2>1, <3>1 DEF Waiting, Ahead
    <3>4. \A j \in Operating : ~overlap(i, j)
      BY <2>2, <3>1 DEF Operating
    <3>5. Ahead' = Ahead \cap ((Waiting \ {i}) \X (Waiting \ {i}))
      <4>1. \A j, k \in Waiting' : Before(claims', j, k) <=> Before(claims, j, k)
        BY <2>1, <3>1, <3>2 DEF Waiting, SameOrder, Held
      <4>2. Ahead' = {pair \in Waiting' \X Waiting' : Before(claims', pair[1], pair[2])}
        BY DEF Ahead
      <4>3. Ahead' = {pair \in Waiting' \X Waiting' : Before(claims, pair[1], pair[2])}
        BY <4>1, <4>2
      <4>4. Waiting' \X Waiting' = (Waiting \ {i}) \X (Waiting \ {i})
            /\ Waiting' \X Waiting' \subseteq Waiting \X Waiting
        BY <3>2
      <4> QED BY <4>3, <4>4 DEF Ahead
    <3>6. Locks!LetIn(i)
      BY <3>1, <3>2, <3>3, <3>4, <3>5 DEF Locks!LetIn, Locks!WaitsNoMore
    <3> QED BY <3>6 DEF Locks!LocksNext
  <2>4. CASE place = "wait" /\ call[i] = "register"
    <3>1. i \notin Waiting \cup Operating
      BY <2>4 DEF Waiting, Operating
    <3>2. Waiting' = Waiting \cup {i} /\ Operating' = Operating
      BY <1>1, <2>4 DEF Waiting, Operating
    <3>3. Ahead' = Ahead \cup (Waiting \X {i})
      <4>1. \A j, k \in Waiting : Before(claims', j, k) <=> Before(claims, j, k)
        BY <2>1, <2>4 DEF Waiting, SameOrder, Held
      <4>2. \A j \in Waiting : Before(claims', j, i)
        BY <2>1, <2>4 DEF Waiting
      <4>3. \A j \in Calls : ~Before(claims', i, j)
        BY <2>1, <2>4
      <4>4. Ahead' = {pair \in Waiting' \X Waiting' : Before(claims', pair[1], pair[2])}
        BY DEF Ahead
      <4>5. Waiting \subseteq Calls
        BY DEF Waiting
      <4>6. \A pair : pair \in Ahead' <=> pair \in Ahead \cup (Waiting \X {i})
        BY <3>2, <4>1, <4>2, <4>3, <4>4, <4>5 DEF Ahead
      <4>7. Ahead \subseteq Waiting \X Waiting /\ Ahead' \subseteq Waiting' \X Waiting'
        BY <4>4 DEF Ahead
      <4> QED BY <4>6, <4>7
    <3>4. Locks!Join(i)
      BY <3>1, <3>2, <3>3 DEF Locks!Join
    <3> QED BY <3>4 DEF Locks!LocksNext
  <2>5. CASE place = "wait" /\ call[i] = "wait"
    <3>1. \A j \in Calls : call'[j] = call[j]
      BY <1>1, <2>5
    <3> QED BY <2>1, <2>5, <3>1, LocksLeft DEF Held
  <2>6. CASE place \notin {"wait", "operate"}
    <3>1. \A j \in Calls : call'[j] = "wait" => j # i /\ call[j] = "wait"
      BY <1>1, <2>6
    <3>2. \A j, k \in Calls : call'[j] = "wait" /\ call'[k] = "wait" =>
            SameOrder(claims', claims, j, k)
      BY <2>1, <3>1 DEF Held
    <3> QED BY <1>1, <2>6, <3>2, LocksLeft
  <2>7. place = "wait" => call[i] \in {"register", "wait"}
    BY <1>2, <2>1, <2>2
  <2> QED BY <2>3, <2>4, <2>5, <2>6, <2>7
<1> QED BY <1>3, <1>4 DEF SectionOver

LEMMA LocksStep ==
  ASSUME ClaimInv, LineInv, [ClaimNext]_claimVars
  PROVE  [Locks!LocksNext]_Locks!locks
<1>1. ASSUME UNCHANGED claims,
             \A i \in Calls : call'[i] \in {"wait", "operate"} => call'[i] = call[i]
      PROVE  [Locks!LocksNext]_Locks!locks
  <2>1. \A i, j \in Calls : SameOrder(claims', claims, i, j)
    BY <1>1 DEF SameOrder
  <2> QED BY <1>1, <2>1, LocksLeft
<1>2. ASSUME NEW i \in Calls,
             \/ Acquire(i) \/ Abort(i) \/ OperationSettles(i) \/ ReleaseOwner(i)
             \/ OpenRegistry(i) \/ Probe(i)
      PROVE  [Locks!LocksNext]_Locks!locks
  BY <1>1, <1>2 DEF Acquire, Abort, OperationSettles, ReleaseOwner, OpenRegistry, Probe,
                    AfterError, ClaimInv, ClaimTypeOK
<1>3. ASSUME NEW p \in Processes, ProcessDies(p) PROVE [Locks!LocksNext]_Locks!locks
  BY <1>1, <1>3 DEF ProcessDies
<1>4. CASE UNCHANGED claimVars
  BY <1>1, <1>4 DEF claimVars
<1>5. ASSUME NEW i \in Calls, Change(i) \/ ChangeFails(i)
      PROVE  [Locks!LocksNext]_Locks!locks
  BY <1>5, SectionEndsSo, LocksSection
<1> QED BY <1>2, <1>3, <1>4, <1>5 DEF ClaimNext, ClaimsAtRest

(* A file, leases that die with their process and copies that are written back *)
(* late are a lock on sets of paths: a call is let in alone among those that    *)
(* overlap it, and after every one of them that came before it and still waits. *)
THEOREM ClaimsAreLocks == ClaimSpec => ClaimsImplementLocks
<1>1. ClaimInit => ClaimInv /\ LineInv
  BY InitInv, LineInit
<1>2. ClaimInv /\ LineInv /\ [ClaimNext]_claimVars => ClaimInv' /\ LineInv'
  BY NextInv, LineStep
<1>3. ClaimInit => Locks!LocksInit
  BY DEF ClaimInit, Locks!LocksInit, Waiting, Operating, Ahead
<1>4. ClaimInv /\ LineInv /\ [ClaimNext]_claimVars => [Locks!LocksNext]_Locks!locks
  BY LocksStep
<1> QED BY <1>1, <1>2, <1>3, <1>4, PTL DEF ClaimSpec, ClaimsImplementLocks, Locks!LocksSpec

=============================================================================
