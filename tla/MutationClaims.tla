--------------------------- MODULE MutationClaims ---------------------------
(***************************************************************************)
(* core/orchestration/mutations.ts: operations of several processes that   *)
(* are going to change files claim their paths first.  The claims are a    *)
(* list in one file, changed only under the registry's lease; each call    *)
(* also holds a lease of its own until its claim is gone, and a claim      *)
(* whose own lease is free is known to be that of a dead process.          *)
(*                                                                         *)
(* A lease (core/session/files.ts) is held by a live process or free: the  *)
(* file a dead process leaves is reclaimed.  The section that the registry *)
(* lease protects is not one step: the leases of the other calls are       *)
(* probed one by one, and any process may die in between.                  *)
(***************************************************************************)
EXTENDS Naturals, Sequences
LOCAL INSTANCE SequencesExt

CONSTANTS
  Calls,       \* calls of acquire, each with a claim id of its own
  Processes,
  HostOf,      \* the process of each call
  PathsOf,     \* the canonical paths of each call
  Within,      \* the pairs <<p, q>> of paths where q is p or below it
  MaxClaims,   \* 128 in the code
  MaxFaults    \* bound of the model: failures of the storage

NoCall == "no call"

ASSUME ClaimShape ==
  /\ HostOf \in [Calls -> Processes]
  /\ \A i \in Calls : PathsOf[i] # {} /\ \A p \in PathsOf[i] : <<p, p>> \in Within
  /\ MaxClaims \in Nat \ {0} /\ MaxFaults \in Nat /\ NoCall \notin Calls

contains(parent, child) == <<parent, child>> \in Within
overlap(i, j) ==
  \E p \in PathsOf[i], q \in PathsOf[j] : contains(p, q) \/ contains(q, p)

VARIABLES
  claims,    \* claims.json: a sequence of [id, running]
  registry,  \* the call that holds the registry lease, what it has read and
             \* how many of the entries it has yet to probe
  owners,    \* the calls whose own lease is held by a live process
  call,      \* where each call is
  faults     \* failures of the storage so far

claimVars == <<claims, registry, owners, call, faults>>

Free == [by |-> NoCall, copy |-> <<>>, left |-> 0]

\* "register", "wait" and "remove": the call is about to change the registry.
\* "leave": its claim is settled, its own lease is not.  "stuck": its claim
\* could not be removed and its lease stays held.
Live == {"register", "wait", "operate", "remove", "leave", "stuck"}
Ended == {"done", "dead"}

ClaimInit ==
  /\ claims = <<>>
  /\ registry = Free
  /\ owners = {}
  /\ call = [i \in Calls |-> "new"]
  /\ faults = 0

----------------------------------------------------------------------------
\* acquire takes a lease of its own and is about to register its claim.
\* Mutant: the claim is registered without a lease of its own.
Acquire_NoLease(i) ==
  /\ call[i] = "new"
  /\ call' = [call EXCEPT ![i] = "register"]
  /\ UNCHANGED <<claims, registry, owners, faults>>
Acquire(i) ==
  /\ call[i] = "new"
  /\ call' = [call EXCEPT ![i] = "register"]
  /\ owners' = owners \cup {i}
  /\ UNCHANGED <<claims, registry, faults>>

\* #change takes the registry lease, or finds it busy and tries again, and
\* reads the claims.  cleanup does not reap, the other changes do.
OpenRegistry(i) ==
  /\ call[i] \in {"register", "wait", "remove"}
  /\ registry.by = NoCall
  /\ registry' = [by |-> i, copy |-> claims,
                  left |-> IF call[i] = "remove" THEN 0 ELSE Len(claims)]
  /\ UNCHANGED <<claims, owners, call, faults>>

\* #reap looks at one entry of its copy, from the last to the first: an entry
\* whose own lease can be taken is dropped, with its directory.
\* Mutant: nothing is reaped.
Dead_Never(i, id) == FALSE
Dead(i, id) == id # i /\ id \notin owners
Probe(i) ==
  /\ registry.by = i /\ registry.left > 0
  /\ LET n == registry.left IN
     registry' = [registry EXCEPT
       !.left = n - 1,
       !.copy = IF Dead(i, registry.copy[n].id) THEN RemoveAt(registry.copy, n)
                ELSE registry.copy]
  /\ UNCHANGED <<claims, owners, call, faults>>

----------------------------------------------------------------------------
(* The change itself: what it writes, and where the call goes from there.   *)

IndexIn(copy, i) == {n \in DOMAIN copy : copy[n].id = i}
\* Mutant: a claim below the paths of another is not seen to overlap it.
Blocked_ByParentsOnly(copy, i, n) ==
  \E m \in DOMAIN copy \ {n} :
    /\ copy[m].running \/ m < n
    /\ \E p \in PathsOf[copy[m].id], q \in PathsOf[i] : contains(p, q)
\* Mutant: only the claims that run are waited for.
Blocked_ByRunningOnly(copy, i, n) ==
  \E m \in DOMAIN copy \ {n} : copy[m].running /\ overlap(copy[m].id, i)
Blocked(copy, i, n) ==
  \E m \in DOMAIN copy \ {n} :
    (copy[m].running \/ m < n) /\ overlap(copy[m].id, i)

\* [ok: whether the change function returns, written: the claims it leaves,
\* then: where the call is when #change resolves].
Register(copy, i) ==
  [ok |-> Len(copy) < MaxClaims,
   written |-> Append(copy, [id |-> i, running |-> FALSE]),
   then |-> "wait"]
AdmitClaim(copy, i) ==
  [ok |-> IndexIn(copy, i) # {},
   written |-> [n \in DOMAIN copy |->
                  IF n \in IndexIn(copy, i) /\ ~Blocked(copy, i, n)
                  THEN [copy[n] EXCEPT !.running = TRUE] ELSE copy[n]],
   then |-> IF \E n \in IndexIn(copy, i) : ~Blocked(copy, i, n)
            THEN "operate" ELSE "wait"]
Unregister(copy, i) ==
  [ok |-> IndexIn(copy, i) # {},
   written |-> RemoveAt(copy, CHOOSE n \in IndexIn(copy, i) : TRUE),
   then |-> "leave"]

ChangeOf(i) ==
  CASE call[i] = "register" -> Register(registry.copy, i)
    [] call[i] = "wait" -> AdmitClaim(registry.copy, i)
    [] OTHER -> Unregister(registry.copy, i)

\* A change that throws: the call cleans up, and removes its claim only once
\* it knows it to be registered; a cleanup that throws leaves everything.
AfterError(i) ==
  CASE call[i] = "register" -> "leave"
    [] call[i] = "wait" -> "remove"
    [] OTHER -> "stuck"

Ready(i) == registry.by = i /\ registry.left = 0

\* The change function throws, the file is left as it is; or it is written.
Change(i) ==
  /\ Ready(i)
  /\ LET change == ChangeOf(i) IN
     /\ claims' = IF change.ok THEN change.written ELSE claims
     /\ call' = [call EXCEPT ![i] = IF change.ok THEN change.then ELSE AfterError(i)]
  /\ registry' = Free
  /\ UNCHANGED <<owners, faults>>

\* The storage fails: while entries are probed, before the file is replaced,
\* or once it is replaced and before atomic returns.
ChangeFails(i) ==
  /\ registry.by = i
  /\ faults < MaxFaults
  /\ faults' = faults + 1
  /\ claims' \in {claims} \cup
       (IF Ready(i) /\ ChangeOf(i).ok THEN {ChangeOf(i).written} ELSE {})
  /\ call' = [call EXCEPT ![i] = AfterError(i)]
  /\ registry' = Free
  /\ UNCHANGED owners

----------------------------------------------------------------------------
\* The signal aborts a call between two attempts, or in the delay.
Abort(i) ==
  /\ call[i] \in {"register", "wait"} /\ registry.by # i
  /\ call' = [call EXCEPT ![i] = AfterError(i)]
  /\ UNCHANGED <<claims, registry, owners, faults>>

\* run: the operation settles, or is aborted before it begins.
OperationSettles(i) ==
  /\ call[i] = "operate"
  /\ call' = [call EXCEPT ![i] = "remove"]
  /\ UNCHANGED <<claims, registry, owners, faults>>

\* The end of cleanup: the call's own lease is released, its directory removed.
ReleaseOwner(i) ==
  /\ call[i] = "leave"
  /\ call' = [call EXCEPT ![i] = "done"]
  /\ owners' = owners \ {i}
  /\ UNCHANGED <<claims, registry, faults>>

\* A process dies: the leases it held are free.
ProcessDies(p) ==
  LET lost == {i \in Calls : HostOf[i] = p /\ call[i] \in Live} IN
  /\ lost # {}
  /\ call' = [i \in Calls |-> IF i \in lost THEN "dead" ELSE call[i]]
  /\ owners' = owners \ lost
  /\ registry' = IF registry.by \in lost THEN Free ELSE registry
  /\ UNCHANGED <<claims, faults>>

\* Nothing is left to do: every call has ended or keeps its lease for good.
ClaimsAtRest ==
  /\ \A i \in Calls : call[i] \in Ended \cup {"stuck"}
  /\ UNCHANGED claimVars

ClaimNext ==
  \/ \E i \in Calls :
       \/ Acquire(i) \/ OpenRegistry(i) \/ Probe(i) \/ Change(i) \/ ChangeFails(i)
       \/ Abort(i) \/ OperationSettles(i) \/ ReleaseOwner(i)
  \/ \E p \in Processes : ProcessDies(p)
  \/ ClaimsAtRest

\* A live process goes on with what it has begun, and operations settle.  The
\* registry lease is held for one change and then tried for again every 20
\* milliseconds, so that a call is not beaten to it for ever.
ClaimFairness ==
  \A i \in Calls :
    /\ WF_claimVars(Probe(i)) /\ WF_claimVars(Change(i))
    /\ WF_claimVars(OperationSettles(i)) /\ WF_claimVars(ReleaseOwner(i))
    /\ SF_claimVars(OpenRegistry(i))

ClaimSpec == ClaimInit /\ [][ClaimNext]_claimVars /\ ClaimFairness

----------------------------------------------------------------------------
ClaimRecords == [id : Calls, running : BOOLEAN]

\* Types, and the section under the registry lease: its copy loses entries
\* only, and what is left to probe lies within it.
ClaimTypeOK ==
  /\ claims \in Seq(ClaimRecords)
  /\ registry \in [by : Calls \cup {NoCall}, copy : Seq(ClaimRecords), left : Nat]
  /\ registry.left <= Len(registry.copy)
  /\ owners \subseteq Calls
  /\ call \in [Calls -> {"new"} \cup Live \cup Ended]
  /\ faults \in 0..MaxFaults

\* The operations under way on overlapping paths, in any processes: one at most.
ClaimExclusion ==
  \A i, j \in Calls :
    i # j /\ call[i] = "operate" /\ call[j] = "operate" => ~overlap(i, j)

\* The claim of a call that lives is never reaped, whatever fails or dies
\* around it: no call is told that its ownership is lost.
ClaimKept ==
  \A i \in Calls :
    call[i] \in {"wait", "operate", "remove"} =>
      \E n \in DOMAIN claims : claims[n].id = i /\ (call[i] = "operate" => claims[n].running)

\* The coordinator implements PathLocks: a call that waits is ahead of those that
\* wait behind it in the file, whatever entries of the dead stand between them.
Waiting == {i \in Calls : call[i] = "wait"}
Operating == {i \in Calls : call[i] = "operate"}
Before(s, i, j) == \E m, n \in DOMAIN s : m < n /\ s[m].id = i /\ s[n].id = j
Ahead == {pair \in Waiting \X Waiting : Before(claims, pair[1], pair[2])}
Locks == INSTANCE PathLocks WITH
  Conflicts <- overlap, waiting <- Waiting, ahead <- Ahead, inside <- Operating
ClaimsImplementLocks == Locks!LocksSpec

\* A call that waits is let in, or gives up, fails or dies, whatever the calls
\* before it do: only a claim that could not be removed, in a process that
\* lives, may hold it back.
HeldBack(i) == \E j \in Calls \ {i} : overlap(i, j) /\ call[j] = "stuck"
ClaimAdmitted ==
  \A i \in Calls : call[i] = "wait" ~> call[i] # "wait" \/ HeldBack(i)
=============================================================================
