---------------------- MODULE ControlCapability_proofs ----------------------
(* Proofs about ControlCapability, for every set of handles, calls and deployments. *)
EXTENDS ControlCapability, TLAPS

-----------------------------------------------------------------------------
(* Type correctness *)

\* What resolve() decides is one of the outcomes, or to go on; going on means
\* that the proposal was found, is reversible, and its row is free or failed.
LEMMA VerdictType ==
    ASSUME NEW h, NEW p \in BOOLEAN, NEW s \in Status
    PROVE  /\ Verdict(h, p, s) \in Outcome \cup {"proceed"}
           /\ Verdict(h, p, s) = "proceed" =>
                 p /\ h \in Reversible /\ s \in {"none", "failed"}
           /\ Verdict(h, p, s) = "refused" => h \notin Reversible
           /\ Verdict(h, p, s) = "cached" <=> s = "done"
           /\ Verdict(h, p, s) = "expired" => s \in {"none", "failed"}
           /\ Verdict(h, p, s) \notin {"", "executed", "send_failed"}
BY DEF Verdict, Unknown, Outcome, Status

LEMMA EndType ==
    ASSUME TypeOK, NEW c \in Call, NEW h \in Handle, NEW r \in Outcome, End(c, h, r)
    PROVE  /\ pc' \in [Call -> Stage]
           /\ outcome' \in [Call -> Outcome]
           /\ regAt' \in [Handle -> Nat]
BY DEF TypeOK, End, Popped, Stage, AtLedger, Local

\* A call under way has a proposal of its own.
HasTarget == \A c \in Call : pc[c] \notin {"new", "ended"} => target[c] \in Handle

TypeInv == TypeOK /\ HasTarget

LEMMA TypeInit == Init => TypeInv
<1>1. ASSUME Init PROVE TypeOK
  BY <1>1, ConstantsAssumption DEF Init, TypeOK, Status, Stage, AtLedger, Local, Outcome
<1>2. ASSUME Init PROVE HasTarget
  BY <1>2 DEF Init, HasTarget
<1> QED BY <1>1, <1>2 DEF TypeInv

LEMMA TypeStep == TypeInv /\ [Next]_vars => TypeInv'
<1> SUFFICES ASSUME TypeInv, [Next]_vars PROVE TypeInv'
  OBVIOUS
<1> USE DEF TypeInv
<1>1. ASSUME NEW h \in Handle, Put(h) PROVE TypeInv'
  BY <1>1 DEF Put, TypeOK, HasTarget, callVars, historyVars
<1>2. ASSUME NEW h \in Handle, Expire(h) PROVE TypeInv'
  BY <1>2 DEF Expire, Popped, TypeOK, HasTarget, callVars, historyVars
<1>3. ASSUME NEW thread \in Thread, NEW requested \in Handle \cup {NoHandle},
             Freeze(thread, requested)
      PROVE TypeInv'
  <2>1. FreezeChoice(thread, requested) \subseteq Handle
    BY DEF FreezeChoice, Usable, Stored, LatestFor
  <2>2. PICK h \in IF FreezeChoice(thread, requested) = {} THEN {NoHandle}
                   ELSE FreezeChoice(thread, requested) :
            frozen' = frozen \cup {[thread |-> thread, handle |-> h]}
    BY <1>3 DEF Freeze
  <2>3. h \in Handle \cup {NoHandle}
    BY <2>1
  <2>4. frozen' \subseteq Pending
    BY <2>2, <2>3 DEF TypeOK, Pending
  <2> QED BY <1>3, <2>4 DEF Freeze, TypeOK, HasTarget, storeVars, callVars, historyVars
<1>4. ASSUME NEW c \in Call, ResolveInvalid(c) PROVE TypeInv'
  BY <1>4 DEF ResolveInvalid, TypeOK, HasTarget, Stage, Outcome, storeVars, historyVars
<1>5. ASSUME NEW c \in Call, NEW p \in frozen, Reject(c, p) PROVE TypeInv'
  <2>1. p.handle \in Handle
    BY <1>5 DEF TypeOK, Pending, Reject
  <2>2. End(c, p.handle, "rejected") /\ "rejected" \in Outcome
    BY <1>5 DEF Reject, Outcome
  <2>3. /\ pc' \in [Call -> Stage]
        /\ outcome' \in [Call -> Outcome]
        /\ regAt' \in [Handle -> Nat]
    BY <2>1, <2>2, EndType
  <2> QED BY <1>5, <2>1, <2>3 DEF Reject, End, TypeOK, HasTarget, historyVars
<1>6. ASSUME NEW c \in Call, NEW p \in frozen, Approve(c, p) PROVE TypeInv'
  <2> DEFINE verdict == Verdict(p.handle, Stored(p.handle), ledger[p.handle])
  <2>1. p.handle \in Handle
    BY <1>6 DEF TypeOK, Pending, Approve
  <2>2. verdict \in Outcome \cup {"proceed"}
    BY <2>1, VerdictType DEF TypeOK, Stored
  <2>3. /\ pc' \in [Call -> Stage]
        /\ outcome' \in [Call -> Outcome]
        /\ regAt' \in [Handle -> Nat]
    <3>1. CASE ~InMemory
      BY <1>6, <3>1 DEF Approve, TypeOK, Stage, AtLedger
    <3>2. CASE InMemory /\ verdict = "proceed"
      BY <1>6, <3>2 DEF Approve, TypeOK, Stage, Local
    <3>3. CASE InMemory /\ verdict # "proceed"
      <4>1. End(c, p.handle, verdict) /\ verdict \in Outcome
        BY <1>6, <3>3, <2>2 DEF Approve
      <4> QED BY <4>1, <2>1, EndType
    <3> QED BY <3>1, <3>2, <3>3
  <2>4. target' = [target EXCEPT ![c] = p.handle] /\ \A d \in Call : d # c => pc'[d] = pc[d]
    BY <1>6 DEF Approve, End, TypeOK
  <2>5. HasTarget'
    BY <2>1, <2>4 DEF HasTarget, TypeOK
  <2> QED BY <1>6, <2>1, <2>3, <2>5 DEF Approve, TypeOK, Stored
<1>7. ASSUME NEW c \in Call, Read(c) PROVE TypeInv'
  <2>1. target[c] \in Handle
    BY <1>7 DEF Read, HasTarget
  <2>2. StatusRead(target[c]) \in Status
    BY <2>1 DEF StatusRead, TypeOK, Status
  <2> QED BY <1>7, <2>1, <2>2
      DEF Read, TypeOK, HasTarget, Stage, Local, AtLedger, storeVars, historyVars
<1>8. ASSUME NEW c \in Call, Judge(c) PROVE TypeInv'
  <2> DEFINE verdict == Verdict(target[c], held[c], seen[c])
  <2>1. target[c] \in Handle
    BY <1>8 DEF Judge, HasTarget
  <2>2. verdict \in Outcome \cup {"proceed"}
    BY VerdictType DEF TypeOK
  <2>3. /\ pc' \in [Call -> Stage]
        /\ outcome' \in [Call -> Outcome]
        /\ regAt' \in [Handle -> Nat]
    <3>1. CASE verdict = "proceed"
      BY <1>8, <3>1 DEF Judge, TypeOK, Stage, AtLedger
    <3>2. CASE verdict # "proceed"
      <4>1. End(c, target[c], verdict) /\ verdict \in Outcome
        BY <1>8, <3>2, <2>2 DEF Judge
      <4> QED BY <4>1, <2>1, EndType
    <3> QED BY <3>1, <3>2
  <2> QED BY <1>8, <2>1, <2>3 DEF Judge, End, TypeOK, HasTarget, historyVars
<1>9. ASSUME NEW c \in Call, Claim(c) PROVE TypeInv'
  BY <1>9 DEF Claim, Marked, TypeOK, HasTarget, Stage, Local, AtLedger, Status,
              storeVars, historyVars
<1>10. ASSUME NEW c \in Call, Rejudge(c) PROVE TypeInv'
  <2> DEFINE r == IF seen[c] = "done" THEN "cached" ELSE Unknown(target[c], held[c])
  <2>1. target[c] \in Handle
    BY <1>10 DEF Rejudge, HasTarget
  <2>2. End(c, target[c], r) /\ r \in Outcome
    BY <1>10 DEF Rejudge, Unknown, Outcome
  <2>3. /\ pc' \in [Call -> Stage]
        /\ outcome' \in [Call -> Outcome]
        /\ regAt' \in [Handle -> Nat]
    BY <2>1, <2>2, EndType
  <2> QED BY <1>10, <2>1, <2>3 DEF Rejudge, End, TypeOK, HasTarget, historyVars
<1>11. ASSUME NEW c \in Call, Send(c) PROVE TypeInv'
  <2>1. PICK stage \in {"finish_done", "finish_failed", "record_done", "record_failed"} :
            pc' = [pc EXCEPT ![c] = stage]
    BY <1>11 DEF Send
  <2>2. pc' \in [Call -> Stage] /\ target[c] \in Handle
    BY <1>11, <2>1 DEF Send, TypeOK, HasTarget, Stage, Local, AtLedger
  <2>3. attempts' \in [Handle -> Nat]
    BY <1>11, <2>2 DEF Send, TypeOK
  <2> QED BY <1>11, <2>1, <2>2, <2>3 DEF Send, TypeOK, HasTarget, storeVars
<1>12. ASSUME NEW c \in Call, Record(c) PROVE TypeInv'
  BY <1>12 DEF Record, Recorded, Marked, TypeOK, HasTarget, Stage, Local, AtLedger, Status, storeVars
<1>13. ASSUME NEW c \in Call, Finish(c) PROVE TypeInv'
  <2> DEFINE r == IF pc[c] = "finish_done" THEN "executed" ELSE "send_failed"
  <2>1. target[c] \in Handle
    BY <1>13 DEF Finish, HasTarget
  <2>2. End(c, target[c], r) /\ r \in Outcome
    BY <1>13 DEF Finish, Outcome
  <2>3. /\ pc' \in [Call -> Stage]
        /\ outcome' \in [Call -> Outcome]
        /\ regAt' \in [Handle -> Nat]
    BY <2>1, <2>2, EndType
  <2>4. ledger' \in [Handle -> Status] /\ failures' \in [Handle -> Nat]
    BY <1>13, <2>1 DEF Finish, Marked, TypeOK, Status
  <2> QED BY <1>13, <2>1, <2>3, <2>4 DEF Finish, End, TypeOK, HasTarget
<1>14. ASSUME NEW c \in Call, LedgerRaises(c) PROVE TypeInv'
  <2>1. pc' \in [Call -> Stage] /\ outcome' \in [Call -> Outcome] /\ target[c] \in Handle
    BY <1>14 DEF LedgerRaises, TypeOK, HasTarget, AtLedger, Stage, Outcome
  <2>2. ledger' \in [Handle -> Status] /\ failures' \in [Handle -> Nat]
    BY <1>14, <2>1 DEF LedgerRaises, Recorded, Marked, TypeOK, Status
  <2> QED BY <1>14, <2>1, <2>2 DEF LedgerRaises, TypeOK, HasTarget, storeVars
<1>15. ASSUME NEW dying \in SUBSET Active, Crash(dying) PROVE TypeInv'
  <2>1. pc' \in [Call -> Stage] /\ outcome' \in [Call -> Outcome]
    BY <1>15 DEF Crash, TypeOK, Stage, Outcome
  <2>2. regAt' \in [Handle -> Nat] /\ ledger' \in [Handle -> Status] /\ crashes' \in Nat
    BY <1>15 DEF Crash, TypeOK, Status
  <2> QED BY <1>15, <2>1, <2>2 DEF Crash, TypeOK, HasTarget, historyVars
<1>16. CASE UNCHANGED vars
  BY <1>16 DEF vars, storeVars, callVars, historyVars, TypeOK, HasTarget
<1> QED
  BY <1>1, <1>2, <1>3, <1>4, <1>5, <1>6, <1>7, <1>8, <1>9, <1>10, <1>11, <1>12, <1>13, <1>14,
     <1>15, <1>16 DEF Next, Store, FreezeCall, Decide, Resume

\* Every reachable state is well typed.
THEOREM TypeCorrect == Spec => []TypeOK
<1>1. Spec => []TypeInv
  BY TypeInit, TypeStep, PTL DEF Spec
<1> QED BY <1>1, PTL DEF TypeInv

-----------------------------------------------------------------------------
(* At-most-once *)

LEMMA AccountsInit == Init => Accounts
<1> SUFFICES ASSUME Init PROVE Accounts
  OBVIOUS
<1>1. \A h \in Handle : RowAccounts(h) /\ PgRow(h)
  BY DEF Init, RowAccounts, PgRow
<1>2. \A c \in Call : CallAccounts(c) /\ ~Owns(c)
  BY DEF Init, CallAccounts, Owns
<1> QED BY <1>1, <1>2 DEF Init, Accounts, OneOwner

\* A step that sends nothing and writes no row, in which one call at most
\* moves, and not to a stage that owns its row.
LEMMA QuietStep ==
    ASSUME TypeInv, Accounts, NEW c \in Call,
           deployment' = deployment, ledger' = ledger,
           attempts' = attempts, failures' = failures, approved \subseteq approved',
           \A d \in Call \ {c} : pc'[d] = pc[d] /\ target'[d] = target[d] /\ seen'[d] = seen[d],
           ~Owns(c)', CallAccounts(c)'
    PROVE  Accounts'
<1>1. \A h \in Handle : (RowAccounts(h) /\ PgRow(h))'
  BY DEF Accounts, RowAccounts, PgRow
<1>2. ASSUME NEW d \in Call PROVE CallAccounts(d)'
  <2>1. CASE d = c
    BY <2>1
  <2>2. CASE d # c
    BY <2>2 DEF Accounts, CallAccounts, Owns
  <2> QED BY <2>1, <2>2
<1>3. OneOwner'
  BY DEF Accounts, OneOwner, Owns, InMemory
<1> QED BY <1>1, <1>2, <1>3 DEF Accounts

\* A step that leaves the calls and the rows alone.
LEMMA IdleStep ==
    ASSUME TypeInv, Accounts, UNCHANGED <<deployment, ledger, attempts, failures, approved>>,
           UNCHANGED <<pc, target, seen>>
    PROVE  Accounts'
<1>1. \A h \in Handle : (RowAccounts(h) /\ PgRow(h))'
  BY DEF Accounts, RowAccounts, PgRow
<1>2. \A d \in Call : CallAccounts(d)'
  BY DEF Accounts, CallAccounts, Owns
<1>3. OneOwner'
  BY DEF Accounts, OneOwner, Owns, InMemory
<1> QED BY <1>1, <1>2, <1>3 DEF Accounts

\* A step of one call that touches the row of its own proposal, which no
\* other call owns.
LEMMA RowStep ==
    ASSUME TypeInv, Accounts, NEW c \in Call, NEW h \in Handle,
           target[c] = h, \A d \in Call \ {c} : Owns(d) => target[d] # h,
           deployment' = deployment, approved' = approved,
           target' = target, seen' = seen,
           \A d \in Call \ {c} : pc'[d] = pc[d],
           \A g \in Handle \ {h} :
               ledger'[g] = ledger[g] /\ attempts'[g] = attempts[g] /\ failures'[g] = failures[g],
           RowAccounts(h)', PgRow(h)', CallAccounts(c)'
    PROVE  Accounts'
<1>1. ASSUME NEW g \in Handle PROVE (RowAccounts(g) /\ PgRow(g))'
  BY DEF Accounts, RowAccounts, PgRow
<1>2. ASSUME NEW d \in Call PROVE CallAccounts(d)'
  <2>1. CASE d = c
    BY <2>1
  <2>2. CASE d # c
    <3>1. Owns(d)' <=> Owns(d)
      BY <2>2 DEF Owns
    <3>2. pc[d] \notin {"new", "ended"} => target[d] \in Handle
      BY DEF TypeInv, HasTarget
    <3>3. Owns(d) => target[d] \in Handle \ {h}
      BY <2>2, <3>2 DEF Owns
    <3> QED BY <2>2, <3>1, <3>2, <3>3 DEF Accounts, CallAccounts, Owns
  <2> QED BY <2>1, <2>2
<1>3. OneOwner'
  <2>1. ASSUME NEW d \in Call, NEW e \in Call, Owns(d)', Owns(e)', target[d] = target[e], d # e,
               ~InMemory
        PROVE FALSE
    <3>1. CASE d # c /\ e # c
      BY <2>1, <3>1 DEF Accounts, OneOwner, Owns
    <3>2. CASE d = c \/ e = c
      BY <2>1, <3>2 DEF Owns
    <3> QED BY <3>1, <3>2
  <2> QED BY <2>1 DEF OneOwner, InMemory
<1> QED BY <1>1, <1>2, <1>3 DEF Accounts

LEMMA AccountsStep == ~InMemory /\ TypeInv /\ Accounts /\ [Next]_vars => Accounts'
<1> SUFFICES ASSUME ~InMemory, TypeInv, Accounts, [Next]_vars PROVE Accounts'
  OBVIOUS
<1>a. deployment.ledger # "memory" /\ ~InMemory
  BY DEF InMemory
<1>1. ASSUME NEW h \in Handle, Put(h) PROVE Accounts'
  BY <1>1, IdleStep DEF Put, callVars, historyVars
<1>2. ASSUME NEW h \in Handle, Expire(h) PROVE Accounts'
  BY <1>2, IdleStep DEF Expire, callVars, historyVars
<1>3. ASSUME NEW thread \in Thread, NEW requested \in Handle \cup {NoHandle},
             Freeze(thread, requested)
      PROVE Accounts'
  BY <1>3, IdleStep DEF Freeze, callVars, historyVars
<1>4. ASSUME NEW c \in Call, ResolveInvalid(c) PROVE Accounts'
  <2>1. pc' = [pc EXCEPT ![c] = "ended"]
    BY <1>4 DEF ResolveInvalid
  <2>2. pc'[c] = "ended" /\ \A d \in Call \ {c} : pc'[d] = pc[d]
    BY <2>1 DEF TypeInv, TypeOK
  <2>3. CallAccounts(c)' /\ ~Owns(c)'
    BY <1>4, <2>2 DEF ResolveInvalid, CallAccounts, Owns, Accounts
  <2> QED BY <1>4, <2>2, <2>3, QuietStep DEF ResolveInvalid, historyVars
<1>5. ASSUME NEW c \in Call, NEW p \in frozen, Reject(c, p) PROVE Accounts'
  <2>2. pc'[c] = "ended" /\ \A d \in Call \ {c} : pc'[d] = pc[d] /\ target'[d] = target[d]
    BY <1>5 DEF Reject, End, TypeInv, TypeOK
  <2>3. CallAccounts(c)' /\ ~Owns(c)'
    BY <1>5, <2>2 DEF Reject, CallAccounts, Owns, Accounts
  <2> QED BY <1>5, <2>2, <2>3, QuietStep DEF Reject, historyVars
<1>6. ASSUME NEW c \in Call, NEW p \in frozen, Approve(c, p) PROVE Accounts'
  <2>1. p.handle \in Handle
    BY <1>6 DEF TypeInv, TypeOK, Pending, Approve
  <2>2. /\ pc'[c] = "read" /\ target'[c] = p.handle /\ p.handle \in approved'
        /\ \A d \in Call \ {c} : pc'[d] = pc[d] /\ target'[d] = target[d]
    BY <1>6, <1>a DEF Approve, TypeInv, TypeOK
  <2>3. CallAccounts(c)' /\ ~Owns(c)'
    BY <1>6, <2>1, <2>2 DEF Approve, CallAccounts, Owns, Accounts
  <2> QED BY <1>6, <2>2, <2>3, QuietStep DEF Approve
<1>7. ASSUME NEW c \in Call, Read(c) PROVE Accounts'
  <2>1. /\ pc'[c] = IF pc[c] = "read" THEN "judge" ELSE "rejudge"
        /\ seen'[c] = StatusRead(target[c])
        /\ \A d \in Call \ {c} : pc'[d] = pc[d] /\ seen'[d] = seen[d]
    BY <1>7 DEF Read, TypeInv, TypeOK
  <2>2. deployment.ledger = "pg" => seen'[c] = "none"
    BY <2>1 DEF StatusRead
  <2>3. CallAccounts(c)' /\ ~Owns(c)'
    BY <1>7, <2>1, <2>2 DEF Read, CallAccounts, Owns, Accounts, historyVars
  <2> QED BY <1>7, <2>1, <2>3, QuietStep DEF Read, historyVars
<1>8. ASSUME NEW c \in Call, Judge(c) PROVE Accounts'
  <2> DEFINE verdict == Verdict(target[c], held[c], seen[c])
  <2>1. verdict = "proceed" => target[c] \in Reversible /\ seen[c] \in {"none", "failed"}
    BY VerdictType DEF TypeInv, TypeOK
  <2>2. /\ pc'[c] = "ended" \/ (pc'[c] = "claim" /\ verdict = "proceed")
        /\ \A d \in Call \ {c} : pc'[d] = pc[d]
    BY <1>8 DEF Judge, End, TypeInv, TypeOK
  <2>3. CallAccounts(c)' /\ ~Owns(c)'
    BY <1>8, <2>1, <2>2 DEF Judge, CallAccounts, Owns, Accounts, historyVars
  <2> QED BY <1>8, <2>2, <2>3, QuietStep DEF Judge, historyVars
<1>9. ASSUME NEW c \in Call, Claim(c) PROVE Accounts'
  <2>1. CASE ~ClaimSucceeds(c)
    <3>1. pc'[c] = "reread" /\ \A d \in Call \ {c} : pc'[d] = pc[d]
      BY <1>9, <2>1 DEF Claim, TypeInv, TypeOK
    <3>2. CallAccounts(c)' /\ ~Owns(c)'
      BY <1>9, <2>1, <3>1 DEF Claim, CallAccounts, Owns, Accounts, historyVars
    <3> QED BY <1>9, <2>1, <3>1, <3>2, QuietStep DEF Claim, historyVars
  <2>2. CASE ClaimSucceeds(c)
    <3> DEFINE h == target[c]
    <3>1. h \in Handle /\ ledger[h] \in {"none", "failed"} /\ ledger[h] = seen[c]
      BY <1>9, <2>2 DEF Claim, ClaimSucceeds, Accounts, CallAccounts
    <3>2. \A d \in Call \ {c} : Owns(d) => target[d] # h
      BY <3>1 DEF Accounts, CallAccounts
    <3>3. /\ pc'[c] = "send" /\ \A d \in Call \ {c} : pc'[d] = pc[d]
          /\ ledger'[h] = "in_flight" /\ \A g \in Handle \ {h} : ledger'[g] = ledger[g]
      BY <1>9, <2>2, <3>1 DEF Claim, Marked, TypeInv, TypeOK
    <3>4. attempts[h] = failures[h] /\ (deployment.ledger = "pg" => failures[h] = 0)
      BY <3>1 DEF Accounts, RowAccounts, PgRow, CallAccounts
    <3>5. RowAccounts(h)' /\ PgRow(h)'
      BY <1>9, <3>3, <3>4 DEF Claim, RowAccounts, PgRow, historyVars
    <3>6. CallAccounts(c)'
      BY <1>9, <3>1, <3>3, <3>4 DEF Claim, CallAccounts, Owns, Accounts, historyVars
    <3> QED BY <1>9, <3>1, <3>2, <3>3, <3>5, <3>6, RowStep DEF Claim, historyVars
  <2> QED BY <2>1, <2>2
<1>10. ASSUME NEW c \in Call, Rejudge(c) PROVE Accounts'
  <2>2. pc'[c] = "ended" /\ \A d \in Call \ {c} : pc'[d] = pc[d]
    BY <1>10 DEF Rejudge, End, TypeInv, TypeOK
  <2>3. CallAccounts(c)' /\ ~Owns(c)'
    BY <1>10, <2>2 DEF Rejudge, CallAccounts, Owns, Accounts
  <2> QED BY <1>10, <2>2, <2>3, QuietStep DEF Rejudge, historyVars
<1>b. ASSUME NEW c \in Call, Owns(c)
      PROVE  /\ target[c] \in Handle /\ ledger[target[c]] = "in_flight"
             /\ \A d \in Call \ {c} : Owns(d) => target[d] # target[c]
  BY <1>a, <1>b DEF Accounts, OneOwner, CallAccounts, Owns
<1>11. ASSUME NEW c \in Call, Send(c) PROVE Accounts'
  <2> DEFINE h == target[c]
  <2>1. /\ Owns(c) /\ attempts[h] = failures[h]
        /\ h \in Handle /\ ledger[h] = "in_flight"
        /\ \A d \in Call \ {c} : Owns(d) => target[d] # h
    BY <1>11, <1>b DEF Send, Owns, Accounts, CallAccounts
  <2>2. PICK stage \in {"record_done", "record_failed"} : pc' = [pc EXCEPT ![c] = stage]
    BY <1>11, <1>a DEF Send
  <2>3. /\ pc'[c] = stage /\ \A d \in Call \ {c} : pc'[d] = pc[d]
        /\ attempts'[h] = attempts[h] + 1
        /\ \A g \in Handle \ {h} : attempts'[g] = attempts[g]
    BY <1>11, <2>1, <2>2 DEF Send, TypeInv, TypeOK
  <2>4. RowAccounts(h)' /\ PgRow(h)'
    BY <1>11, <2>1, <2>3 DEF Send, RowAccounts, PgRow, Accounts
  <2>5. CallAccounts(c)'
    BY <1>11, <2>1, <2>3 DEF Send, CallAccounts, Owns, Accounts
  <2> QED BY <1>11, <2>1, <2>3, <2>4, <2>5, RowStep DEF Send
<1>c. ASSUME NEW c \in Call, pc[c] \in {"record_done", "record_failed"}, Recorded(c),
             pc'[c] \in {"finish_done", "finish_failed", "ended"},
             \A d \in Call \ {c} : pc'[d] = pc[d],
             UNCHANGED <<deployment, target, seen, attempts, approved>>
      PROVE Accounts'
  <2> DEFINE h == target[c]
  <2>1. /\ Owns(c) /\ attempts[h] = failures[h] + 1
        /\ h \in Handle /\ ledger[h] = "in_flight"
        /\ \A d \in Call \ {c} : Owns(d) => target[d] # h
    BY <1>c, <1>b DEF Owns, Accounts, CallAccounts
  <2>2. /\ ledger'[h] = IF pc[c] = "record_done" THEN "done" ELSE "failed"
        /\ failures'[h] = IF pc[c] = "record_failed" THEN failures[h] + 1 ELSE failures[h]
        /\ \A g \in Handle \ {h} : ledger'[g] = ledger[g] /\ failures'[g] = failures[g]
    BY <1>c, <2>1 DEF Recorded, Marked, TypeInv, TypeOK
  <2>3. deployment.ledger = "pg" => failures[h] = 0
    BY <2>1 DEF Accounts, PgRow
  <2>4. RowAccounts(h)'
    BY <1>c, <2>1, <2>2 DEF RowAccounts
  <2>5. PgRow(h)'
    BY <1>c, <2>1, <2>2, <2>3 DEF PgRow
  <2>6. CallAccounts(c)'
    BY <1>c, <2>1 DEF CallAccounts, Owns, Accounts
  <2> QED BY <1>c, <2>1, <2>2, <2>4, <2>5, <2>6, RowStep
<1>12. ASSUME NEW c \in Call, Record(c) PROVE Accounts'
  <2>1. pc'[c] \in {"finish_done", "finish_failed"} /\ \A d \in Call \ {c} : pc'[d] = pc[d]
    BY <1>12 DEF Record, TypeInv, TypeOK
  <2> QED BY <1>12, <2>1, <1>c DEF Record
<1>13. ASSUME NEW c \in Call, Finish(c) PROVE Accounts'
  <2>2. pc'[c] = "ended" /\ \A d \in Call \ {c} : pc'[d] = pc[d]
    BY <1>13 DEF Finish, End, TypeInv, TypeOK
  <2>3. ledger' = ledger /\ failures' = failures
    BY <1>13, <1>a DEF Finish
  <2>4. CallAccounts(c)' /\ ~Owns(c)'
    BY <1>13, <2>2, <2>3 DEF Finish, CallAccounts, Owns, Accounts
  <2> QED BY <1>13, <2>2, <2>3, <2>4, QuietStep DEF Finish
<1>14. ASSUME NEW c \in Call, LedgerRaises(c) PROVE Accounts'
  <2>1. /\ pc'[c] = "ended" /\ \A d \in Call \ {c} : pc'[d] = pc[d]
        /\ UNCHANGED <<deployment, target, seen, attempts, approved>>
    BY <1>14 DEF LedgerRaises, TypeInv, TypeOK
  <2>2. CASE UNCHANGED <<ledger, failures>>
    <3>1. CallAccounts(c)' /\ ~Owns(c)'
      BY <2>1, <2>2 DEF CallAccounts, Owns, Accounts
    <3> QED BY <2>1, <2>2, <3>1, QuietStep
  <2>3. CASE /\ pc[c] = "claim" /\ ClaimSucceeds(c)
             /\ ledger' = Marked(target[c], "in_flight") /\ UNCHANGED failures
    <3> DEFINE h == target[c]
    <3>1. h \in Handle /\ ledger[h] \in {"none", "failed"} /\ ledger[h] = seen[c]
      BY <2>3 DEF ClaimSucceeds, Accounts, CallAccounts
    <3>2. \A d \in Call \ {c} : Owns(d) => target[d] # h
      BY <3>1 DEF Accounts, CallAccounts
    <3>3. ledger'[h] = "in_flight" /\ \A g \in Handle \ {h} : ledger'[g] = ledger[g]
      BY <2>3, <3>1 DEF Marked, TypeInv, TypeOK
    <3>4. attempts[h] = failures[h] /\ (deployment.ledger = "pg" => failures[h] = 0)
      BY <3>1 DEF Accounts, RowAccounts, PgRow, CallAccounts
    <3>5. RowAccounts(h)' /\ PgRow(h)'
      BY <2>1, <2>3, <3>3, <3>4 DEF RowAccounts, PgRow
    <3>6. CallAccounts(c)'
      BY <2>1, <2>3 DEF CallAccounts, Owns, Accounts
    <3> QED BY <2>1, <2>3, <3>1, <3>2, <3>3, <3>5, <3>6, RowStep
  <2>4. CASE pc[c] \in {"record_done", "record_failed"} /\ Recorded(c)
    BY <2>1, <2>4, <1>c
  <2> QED BY <1>14, <2>2, <2>3, <2>4 DEF LedgerRaises
<1>15. ASSUME NEW dying \in SUBSET Active, Crash(dying) PROVE Accounts'
  <2>1. UNCHANGED <<deployment, ledger, attempts, failures, approved, target, seen>>
    BY <1>15, <1>a DEF Crash, historyVars
  <2>2. \A d \in Call : pc'[d] = "ended" \/ pc'[d] = pc[d]
    BY <1>15 DEF Crash
  <2>3. \A h \in Handle : (RowAccounts(h) /\ PgRow(h))'
    BY <2>1 DEF Accounts, RowAccounts, PgRow
  <2>4. \A d \in Call : CallAccounts(d)' /\ (Owns(d)' => Owns(d))
    BY <2>1, <2>2 DEF Accounts, CallAccounts, Owns
  <2>5. OneOwner'
    BY <2>1, <2>4 DEF Accounts, OneOwner, InMemory
  <2> QED BY <2>1, <2>3, <2>4, <2>5 DEF Accounts
<1>16. CASE UNCHANGED vars
  BY <1>16, IdleStep DEF vars, storeVars, callVars, historyVars
<1> QED
  BY <1>1, <1>2, <1>3, <1>4, <1>5, <1>6, <1>7, <1>8, <1>9, <1>10, <1>11, <1>12, <1>13, <1>14,
     <1>15, <1>16 DEF Next, Store, FreezeCall, Decide, Resume

-----------------------------------------------------------------------------
(* One call moves at a time *)

LEMMA DeploymentFixed == [Next]_vars => deployment' = deployment
BY DEF Next, Store, FreezeCall, Decide, Resume, Put, Expire, Freeze, ResolveInvalid, Reject, Approve,
       Read, Judge, Claim, Rejudge, Send, Record, Finish, LedgerRaises, Crash, vars

\* What the other calls know does not change.
Others(c) ==
    \A d \in Call \ {c} :
        /\ pc'[d] = pc[d] /\ target'[d] = target[d]
        /\ seen'[d] = seen[d] /\ outcome'[d] = outcome[d]

\* No call moves.
CallsIdle == UNCHANGED <<pc, target, seen, outcome>>

CallMoves(c) == Decide(c) \/ Resume(c) \/ LedgerRaises(c)

\* A step is one of a call, of the store, of freeze, or a crash.
LEMMA StepKinds ==
    [Next]_vars =>
        \/ \E c \in Call : CallMoves(c)
        \/ CallsIdle /\ UNCHANGED <<ledger, attempts, failures, approved>>
        \/ \E dying \in SUBSET Active : Crash(dying)
<1>1. ASSUME Store PROVE CallsIdle /\ UNCHANGED <<ledger, attempts, failures, approved>>
  BY <1>1 DEF Store, Put, Expire, CallsIdle, callVars, historyVars
<1>2. ASSUME FreezeCall PROVE CallsIdle /\ UNCHANGED <<ledger, attempts, failures, approved>>
  BY <1>2 DEF FreezeCall, Freeze, CallsIdle, callVars, historyVars
<1>3. ASSUME UNCHANGED vars PROVE CallsIdle /\ UNCHANGED <<ledger, attempts, failures, approved>>
  BY <1>3 DEF vars, CallsIdle, callVars, historyVars
<1> QED BY <1>1, <1>2, <1>3 DEF Next, CallMoves

LEMMA OthersRest == ASSUME TypeInv, NEW c \in Call, CallMoves(c) PROVE Others(c)
<1> USE DEF TypeInv, TypeOK, Others
<1>1. ASSUME ResolveInvalid(c) PROVE Others(c)
  BY <1>1 DEF ResolveInvalid
<1>2. ASSUME NEW p \in frozen, Reject(c, p) PROVE Others(c)
  BY <1>2 DEF Reject, End
<1>3. ASSUME NEW p \in frozen, Approve(c, p) PROVE Others(c)
  <2>1. /\ UNCHANGED seen
        /\ \A d \in Call \ {c} : target'[d] = target[d]
    BY <1>3 DEF Approve
  <2>2. \A d \in Call \ {c} : pc'[d] = pc[d] /\ outcome'[d] = outcome[d]
    BY <1>3 DEF Approve, End
  <2> QED BY <2>1, <2>2
<1>4. ASSUME Read(c) \/ Claim(c) \/ Send(c) \/ Record(c) PROVE Others(c)
  BY <1>4 DEF Read, Claim, Send, Record
<1>5. ASSUME Judge(c) \/ Rejudge(c) \/ Finish(c) PROVE Others(c)
  BY <1>5 DEF Judge, Rejudge, Finish, End
<1>6. ASSUME LedgerRaises(c) PROVE Others(c)
  BY <1>6 DEF LedgerRaises
<1> QED BY <1>1, <1>2, <1>3, <1>4, <1>5, <1>6 DEF CallMoves, Decide, Resume

\* A call that moves is under way, or may start.
LEMMA MoverReady == ASSUME NEW c \in Call, CallMoves(c) PROVE c \in Active \/ MayStart(c)
BY DEF CallMoves, Decide, Resume, ResolveInvalid, Reject, Approve, Read, Judge, Claim, Rejudge, Send,
       Record, Finish, LedgerRaises, Active, AtLedger

\* A call that is to judge what it read has just read it.
LEMMA JudgesWhatItRead ==
    ASSUME TypeInv, NEW c \in Call, CallMoves(c), pc'[c] = "judge"
    PROVE  Read(c)
<1> USE DEF TypeInv, TypeOK
<1>1. ASSUME ResolveInvalid(c) \/ (\E p \in frozen : Reject(c, p)) PROVE FALSE
  BY <1>1 DEF ResolveInvalid, Reject, End
<1>2. ASSUME NEW p \in frozen, Approve(c, p) PROVE FALSE
  BY <1>2 DEF Approve, End
<1>3. ASSUME Judge(c) \/ Claim(c) \/ Rejudge(c) \/ Send(c) \/ Record(c) \/ Finish(c) PROVE FALSE
  BY <1>3 DEF Judge, Claim, Rejudge, Send, Record, Finish, End
<1>4. ASSUME LedgerRaises(c) PROVE FALSE
  BY <1>4 DEF LedgerRaises
<1> QED BY <1>1, <1>2, <1>3, <1>4 DEF CallMoves, Decide, Resume

LEMMA AloneStep == TypeInv /\ Alone /\ [Next]_vars => Alone'
<1> SUFFICES ASSUME TypeInv, Alone, [Next]_vars, deployment.serial PROVE Alone'
  BY DeploymentFixed DEF Alone
<1>1. deployment' = deployment
  BY DeploymentFixed
<1>2. ASSUME NEW c \in Call, CallMoves(c) PROVE Alone'
  <2>1. \A d \in Call \ {c} : d \notin Active
    BY <1>2, MoverReady DEF Alone, MayStart
  <2>2. Active' \subseteq {c}
    BY <1>2, <2>1, OthersRest DEF Others, Active
  <2>3. ASSUME pc'[c] = "judge", deployment.ledger = "status"
        PROVE  seen'[c] = ledger'[target'[c]]
    <3>1. Read(c)
      BY <1>2, <2>3, JudgesWhatItRead
    <3>2. seen'[c] = ledger[target[c]]
      BY <2>3, <3>1 DEF Read, StatusRead, TypeInv, TypeOK
    <3> QED BY <3>1, <3>2 DEF Read
  <2> QED BY <1>1, <2>2, <2>3 DEF Alone
<1>3. CASE CallsIdle /\ UNCHANGED <<ledger, attempts, failures, approved>>
  BY <1>1, <1>3 DEF CallsIdle, Alone, Active
<1>4. ASSUME NEW dying \in SUBSET Active, Crash(dying) PROVE Alone'
  <2>1. \A c \in Call : pc'[c] = "ended" \/ pc'[c] = pc[c]
    BY <1>4 DEF Crash
  <2>2. Active' \subseteq Active
    BY <2>1 DEF Active
  <2>3. deployment.ledger = "status" => ledger' = ledger
    BY <1>4 DEF Crash, InMemory
  <2>4. target' = target /\ seen' = seen
    BY <1>4 DEF Crash
  <2> QED BY <1>1, <2>1, <2>2, <2>3, <2>4 DEF Alone, Active
<1> QED BY <1>2, <1>3, <1>4, StepKinds

LEMMA AnsweredStep == TypeInv /\ AnsweredAtEnd /\ [Next]_vars => AnsweredAtEnd'
<1> SUFFICES ASSUME TypeInv, AnsweredAtEnd, [Next]_vars PROVE AnsweredAtEnd'
  OBVIOUS
<1> USE DEF TypeInv, TypeOK
<1>1. ASSUME NEW c \in Call, CallMoves(c) PROVE AnsweredAtEnd'
  <2>1. pc[c] # "ended" /\ outcome[c] = ""
    BY <1>1, MoverReady DEF AnsweredAtEnd, Active, MayStart
  <2>2. outcome'[c] = "" \/ pc'[c] = "ended"
    <3>1. ASSUME ResolveInvalid(c) \/ (\E p \in frozen : Reject(c, p)) PROVE pc'[c] = "ended"
      BY <3>1 DEF ResolveInvalid, Reject, End
    <3>2. ASSUME NEW p \in frozen, Approve(c, p) PROVE outcome' = outcome \/ pc'[c] = "ended"
      BY <3>2 DEF Approve, End
    <3>3. ASSUME Judge(c) \/ Rejudge(c) \/ Finish(c) PROVE outcome' = outcome \/ pc'[c] = "ended"
      BY <3>3 DEF Judge, Rejudge, Finish, End
    <3>4. ASSUME Read(c) \/ Claim(c) \/ Send(c) \/ Record(c) PROVE outcome' = outcome
      BY <3>4 DEF Read, Claim, Send, Record
    <3>5. ASSUME LedgerRaises(c) PROVE pc'[c] = "ended"
      BY <3>5 DEF LedgerRaises
    <3> QED BY <1>1, <2>1, <3>1, <3>2, <3>3, <3>4, <3>5 DEF CallMoves, Decide, Resume
  <2>3. Others(c)
    BY <1>1, OthersRest
  <2> QED BY <2>2, <2>3 DEF AnsweredAtEnd, Others
<1>2. CASE CallsIdle
  BY <1>2 DEF CallsIdle, AnsweredAtEnd
<1>3. ASSUME NEW dying \in SUBSET Active, Crash(dying) PROVE AnsweredAtEnd'
  BY <1>3 DEF Crash, AnsweredAtEnd
<1> QED BY <1>1, <1>2, <1>3, StepKinds

-----------------------------------------------------------------------------
(* Rows and reports *)

\* Rows change only when a free row is claimed or an owned one is recorded;
\* commands and failures are never taken back.
LEMMA RowsMove ==
    ASSUME ~InMemory, TypeInv, Accounts, [Next]_vars
    PROVE  \A h \in Handle :
              /\ ledger[h] = "done" => ledger'[h] = "done"
              /\ failures'[h] >= failures[h]
<1> USE DEF TypeInv, TypeOK
<1>1. ASSUME NEW c \in Call, pc[c] = "claim", ClaimSucceeds(c),
             ledger' = Marked(target[c], "in_flight")
      PROVE  \A h \in Handle : ledger[h] = "done" => ledger'[h] = "done"
  BY <1>1 DEF ClaimSucceeds, Marked, Accounts, CallAccounts
<1>2. ASSUME NEW c \in Call, pc[c] \in {"record_done", "record_failed"}, Recorded(c)
      PROVE  \A h \in Handle : /\ ledger[h] = "done" => ledger'[h] = "done"
                               /\ failures'[h] >= failures[h]
  <2>1. ledger[target[c]] = "in_flight"
    BY <1>2 DEF Accounts, CallAccounts, Owns
  <2> QED BY <1>2, <2>1 DEF Recorded, Marked
<1>3. ASSUME NEW c \in Call, CallMoves(c)
      PROVE  \A h \in Handle : /\ ledger[h] = "done" => ledger'[h] = "done"
                               /\ failures'[h] >= failures[h]
  <2>1. CASE Claim(c)
    BY <1>1, <2>1 DEF Claim, historyVars
  <2>2. CASE Record(c)
    BY <1>2, <2>2 DEF Record
  <2>3. CASE LedgerRaises(c)
    BY <1>1, <1>2, <2>3 DEF LedgerRaises
  <2>4. CASE Finish(c)
    BY <2>4 DEF Finish
  <2>5. CASE Decide(c) \/ Read(c) \/ Judge(c) \/ Rejudge(c) \/ Send(c)
    BY <2>5 DEF Decide, ResolveInvalid, Reject, Approve, Read, Judge, Rejudge, Send, historyVars
  <2> QED BY <1>3, <2>1, <2>2, <2>3, <2>4, <2>5 DEF CallMoves, Resume
<1>4. ASSUME NEW dying \in SUBSET Active, Crash(dying) PROVE UNCHANGED <<ledger, failures>>
  BY <1>4 DEF Crash, historyVars
<1> QED BY <1>3, <1>4, StepKinds

LEMMA StillPositive == \A m, n \in Nat : n >= m /\ m > 0 => n > 0
OBVIOUS

\* What was reported stays true.
LEMMA ReportsStay ==
    ASSUME ~InMemory, TypeInv, Accounts, [Next]_vars,
           NEW d \in Call, CallReports(d),
           target'[d] = target[d], pc'[d] \in {pc[d], "ended"}, seen'[d] = seen[d],
           outcome'[d] \in {outcome[d], "", "rejected", "invalid", "raised", "lost"}
    PROVE  CallReports(d)'
<1>1. target[d] \in Handle =>
         /\ ledger[target[d]] = "done" => ledger'[target[d]] = "done"
         /\ failures'[target[d]] >= failures[target[d]]
         /\ failures[target[d]] \in Nat /\ failures'[target[d]] \in Nat
  BY RowsMove, TypeStep DEF TypeInv, TypeOK
<1>2. pc[d] \notin {"new", "ended"} => target[d] \in Handle
  BY DEF TypeInv, HasTarget
<1> DEFINE h == target[d]
<1>3. pc'[d] \in {"judge", "rejudge"} /\ seen'[d] = "done" => ledger'[h] = "done"
  BY <1>1, <1>2 DEF CallReports
<1>4. pc'[d] = "finish_done" => ledger'[h] = "done"
  BY <1>1, <1>2 DEF CallReports
<1>5. ASSUME h \in Handle, failures[h] > 0 PROVE failures'[h] > 0
  <2>1. failures'[h] >= failures[h] /\ failures[h] \in Nat /\ failures'[h] \in Nat
    BY <1>1, <1>5
  <2> QED BY <1>5, <2>1, StillPositive, Zenon
<1>6. pc'[d] = "finish_failed" => failures'[h] > 0
  BY <1>2, <1>5 DEF CallReports
<1>7. outcome'[d] \in {"executed", "cached"} => h \in Handle /\ ledger'[h] = "done"
  BY <1>1 DEF CallReports
<1>8. outcome'[d] = "send_failed" => h \in Handle /\ failures'[h] > 0
  BY <1>5 DEF CallReports
<1>9. outcome'[d] = "refused" => h \in Handle \ Reversible
  BY DEF CallReports
<1> HIDE DEF h
<1> QED BY <1>3, <1>4, <1>6, <1>7, <1>8, <1>9 DEF CallReports, h

LEMMA ReportsInit == Init => Reports
BY DEF Init, Reports, CallReports

LEMMA ReportsStep ==
    ~InMemory /\ TypeInv /\ Accounts /\ AnsweredAtEnd /\ Reports /\ [Next]_vars => Reports'
<1> SUFFICES ASSUME ~InMemory, TypeInv, Accounts, AnsweredAtEnd, Reports, [Next]_vars
             PROVE Reports'
  OBVIOUS
<1>1. \A h \in Handle \ Reversible : attempts'[h] = 0
  <2>1. ASSUME NEW c \in Call, Send(c) PROVE \A h \in Handle \ Reversible : attempts'[h] = 0
    <3>1. target[c] \in Reversible
      BY <2>1 DEF Send, Accounts, CallAccounts
    <3> QED BY <2>1, <3>1 DEF Send, Reports, TypeInv, TypeOK
  <2>2. (\E c \in Call : Send(c)) \/ attempts' = attempts
    BY DEF Next, Store, FreezeCall, Decide, Resume, Put, Expire, Freeze, ResolveInvalid, Reject, Approve,
           Read, Judge, Claim, Rejudge, Record, Finish, LedgerRaises, Crash, vars, historyVars
  <2> QED BY <2>1, <2>2 DEF Reports
<1>2. ASSUME NEW c \in Call, CallMoves(c), CallReports(c)' PROVE Reports'
  <2>1. ASSUME NEW d \in Call, d # c PROVE CallReports(d)'
    BY <1>2, <2>1, OthersRest, ReportsStay DEF Others, Reports
  <2> QED BY <1>1, <1>2, <2>1 DEF Reports
<1>3. ASSUME NEW c \in Call, CallMoves(c) PROVE CallReports(c)'
  <2> USE DEF TypeInv, TypeOK
  <2>1. outcome[c] = "" /\ CallReports(c)
    BY <1>3, MoverReady DEF AnsweredAtEnd, Active, MayStart, Reports
  <2>2. c \in Active => target[c] \in Handle
    BY DEF Active, HasTarget
  <2>3. CASE ResolveInvalid(c)
    BY <2>1, <2>3, ReportsStay DEF ResolveInvalid
  <2>4. ASSUME NEW p \in frozen, Reject(c, p) PROVE CallReports(c)'
    <3>1. pc'[c] = "ended" /\ outcome'[c] = "rejected"
      BY <2>4 DEF Reject, End
    <3> QED BY <3>1 DEF CallReports
  <2>5. ASSUME NEW p \in frozen, Approve(c, p) PROVE CallReports(c)'
    <3>1. pc'[c] = "read" /\ outcome' = outcome
      BY <2>5 DEF Approve
    <3> QED BY <2>1, <3>1 DEF CallReports
  <2>6. CASE Read(c)
    <3>1. /\ seen'[c] = StatusRead(target[c]) /\ outcome'[c] = ""
          /\ pc'[c] \in {"judge", "rejudge"} /\ UNCHANGED <<ledger, target>>
      BY <2>1, <2>6 DEF Read
    <3>2. seen'[c] = "done" => ledger[target[c]] = "done"
      BY <3>1 DEF StatusRead
    <3> QED BY <3>1, <3>2 DEF CallReports
  <2>7. CASE Judge(c)
    <3> DEFINE verdict == Verdict(target[c], held[c], seen[c])
    <3>0. held[c] \in BOOLEAN /\ seen[c] \in Status
      OBVIOUS
    <3>1. /\ verdict = "refused" => target[c] \notin Reversible
          /\ verdict = "cached" => seen[c] = "done"
          /\ verdict \notin {"executed", "send_failed"}
      BY <3>0, VerdictType
    <3>2. /\ target' = target /\ ledger' = ledger /\ pc[c] = "judge"
          /\ \/ pc'[c] = "claim" /\ outcome'[c] = ""
             \/ pc'[c] = "ended" /\ outcome'[c] = verdict
      BY <2>1, <2>7 DEF Judge, End
    <3>3. c \in Active
      BY <3>2 DEF Active
    <3> HIDE DEF verdict
    <3> QED BY <2>1, <2>2, <3>1, <3>2, <3>3 DEF CallReports
  <2>8. CASE Claim(c)
    <3>1. pc'[c] \in {"send", "reread"} /\ outcome' = outcome
      BY <2>8 DEF Claim
    <3> QED BY <2>1, <3>1 DEF CallReports
  <2>9. CASE Rejudge(c)
    <3>1. /\ target' = target /\ ledger' = ledger /\ pc[c] = "rejudge" /\ pc'[c] = "ended"
          /\ outcome'[c] = IF seen[c] = "done" THEN "cached" ELSE Unknown(target[c], held[c])
      BY <2>9 DEF Rejudge, End
    <3>2. Unknown(target[c], held[c]) \in {"unknown_retry", "unknown_manual"}
      BY DEF Unknown
    <3>3. c \in Active
      BY <3>1 DEF Active
    <3> QED BY <2>1, <2>2, <3>1, <3>2, <3>3 DEF CallReports
  <2>10. CASE Send(c)
    <3>1. pc'[c] \in {"record_done", "record_failed"} /\ outcome' = outcome
      BY <2>10 DEF Send
    <3> QED BY <2>1, <3>1 DEF CallReports
  <2>11. CASE Record(c)
    <3>1. target[c] \in Handle
      BY <2>2, <2>11 DEF Record, Active
    <3>2. /\ outcome' = outcome /\ target' = target
          /\ pc'[c] = IF pc[c] = "record_done" THEN "finish_done" ELSE "finish_failed"
          /\ pc[c] = "record_done" => ledger'[target[c]] = "done"
          /\ pc[c] = "record_failed" => failures'[target[c]] = failures[target[c]] + 1
      BY <2>11, <3>1 DEF Record, Recorded, Marked
    <3>3. failures[target[c]] \in Nat
      BY <3>1
    <3>4. pc[c] \in {"record_done", "record_failed"}
      BY <2>11 DEF Record
    <3>5. pc'[c] = "finish_failed" => failures'[target[c]] > 0
      BY <3>2, <3>3, <3>4
    <3> QED BY <2>1, <3>2, <3>4, <3>5 DEF CallReports
  <2>12. CASE Finish(c)
    <3>1. /\ target' = target /\ ledger' = ledger /\ failures' = failures /\ pc'[c] = "ended"
          /\ outcome'[c] = IF pc[c] = "finish_done" THEN "executed" ELSE "send_failed"
          /\ pc[c] \in {"finish_done", "finish_failed"}
      BY <2>12 DEF Finish, End
    <3>2. c \in Active
      BY <3>1 DEF Active
    <3> QED BY <2>1, <2>2, <3>1, <3>2 DEF CallReports
  <2>13. CASE LedgerRaises(c)
    <3>1. pc'[c] = "ended" /\ outcome'[c] = "raised"
      BY <2>13 DEF LedgerRaises
    <3> QED BY <3>1 DEF CallReports
  <2> QED BY <1>3, <2>3, <2>4, <2>5, <2>6, <2>7, <2>8, <2>9, <2>10, <2>11, <2>12, <2>13
          DEF CallMoves, Decide, Resume
<1>4. CASE CallsIdle
  <2>1. ASSUME NEW d \in Call PROVE CallReports(d)'
    BY <1>4, ReportsStay DEF CallsIdle, Reports
  <2> QED BY <1>1, <2>1 DEF Reports
<1>5. ASSUME NEW dying \in SUBSET Active, Crash(dying) PROVE Reports'
  <2>1. ASSUME NEW d \in Call PROVE CallReports(d)'
    <3>1. /\ target'[d] = target[d] /\ seen'[d] = seen[d]
          /\ pc'[d] \in {pc[d], "ended"} /\ outcome'[d] \in {outcome[d], "lost"}
      BY <1>5 DEF Crash
    <3> QED BY <3>1, ReportsStay DEF Reports
  <2> QED BY <1>1, <2>1 DEF Reports
<1> QED BY <1>2, <1>3, <1>4, <1>5, StepKinds

-----------------------------------------------------------------------------
(* Without a ledger *)

LEMMA DictInit == Init => DictAccounts
<1> SUFFICES ASSUME Init PROVE DictAccounts
  OBVIOUS
<1>1. ASSUME NEW h \in Handle PROVE DictRow(h)
  <2>1. attempts[h] = 0 /\ failures[h] = 0 /\ regAt[h] = 0 /\ ledger[h] = "none"
    BY DEF Init
  <2>2. ~Stored(h)
    BY <2>1 DEF Stored
  <2> QED BY <2>1, <2>2 DEF DictRow
<1>2. ASSUME NEW c \in Call PROVE DictCall(c)
  BY DEF Init, DictCall, Finishing
<1> QED BY <1>1, <1>2 DEF DictAccounts

\* While a call starts nothing is under way, so what is stored was never sent.
LEMMA StoredUnsent ==
    ASSUME InProcess, TypeInv, DictAccounts, NEW c \in Call, MayStart(c), NEW h \in Handle, Stored(h)
    PROVE  attempts[h] = 0 /\ failures[h] = 0 /\ h \in registered
<1>1. \A d \in Call : ~Finishing(d)
  BY DEF InProcess, MayStart, Active, Finishing
<1>2. DictRow(h) /\ attempts[h] \in Nat /\ failures[h] \in Nat
  BY DEF DictAccounts, TypeInv, TypeOK
<1> QED BY <1>1, <1>2 DEF DictRow

\* A call whose step touches no row, and which is not sending afterwards.
LEMMA DictEndStep ==
    ASSUME InProcess, TypeInv, DictAccounts, NEW c \in Call, MayStart(c), Others(c),
           UNCHANGED <<registered, ledger, attempts, failures>>, approved \subseteq approved',
           \A h \in Handle : Stored(h)' => Stored(h),
           ~Finishing(c)', DictCall(c)'
    PROVE  DictAccounts'
<1>0. \A d \in Call : ~Finishing(d) /\ ~Finishing(d)'
  BY DEF InProcess, MayStart, Active, Finishing, Others
<1>1. ASSUME NEW h \in Handle PROVE DictRow(h)'
  <2>1. DictRow(h)
    BY DEF DictAccounts
  <2>2. Stored(h) => attempts[h] = 0
    BY StoredUnsent
  <2>3. attempts[h] = 0 => ~(attempts[h] > 0)
    OBVIOUS
  <2> QED BY <2>1, <2>2, <2>3 DEF DictRow
<1>2. ASSUME NEW d \in Call, d # c PROVE DictCall(d)'
  <2>1. DictCall(d) /\ pc'[d] = pc[d] /\ target'[d] = target[d] /\ outcome'[d] = outcome[d]
    BY <1>2 DEF DictAccounts, Others
  <2> QED BY <1>0, <2>1 DEF DictCall, Finishing
<1> QED BY <1>1, <1>2 DEF DictAccounts

LEMMA DictStep ==
    InProcess /\ TypeInv /\ Alone /\ AnsweredAtEnd /\ DictAccounts /\ [Next]_vars => DictAccounts'
<1> SUFFICES ASSUME InProcess, TypeInv, Alone, AnsweredAtEnd, DictAccounts, [Next]_vars
             PROVE  DictAccounts'
  OBVIOUS
<1> USE DEF TypeInv, TypeOK
<1>a. ASSUME UNCHANGED <<ledger, attempts, failures, registered, approved>>, CallsIdle,
             \A h \in Handle : Stored(h)' => Stored(h)
      PROVE DictAccounts'
  <2>1. ASSUME NEW h \in Handle PROVE DictRow(h)'
    BY <1>a, <2>1 DEF DictAccounts, DictRow, Finishing, CallsIdle
  <2>2. ASSUME NEW d \in Call PROVE DictCall(d)'
    BY <1>a, <2>2 DEF DictAccounts, DictCall, Finishing, CallsIdle
  <2> QED BY <2>1, <2>2 DEF DictAccounts
<1>1. ASSUME NEW h \in Handle, Put(h) PROVE DictAccounts'
  <2>1. UNCHANGED <<pc, target, outcome, ledger, attempts, failures, approved>>
    BY <1>1 DEF Put, callVars, historyVars
  <2>2. ASSUME NEW g \in Handle PROVE DictRow(g)'
    <3>1. DictRow(g) /\ registered' = registered \cup {h}
      BY <1>1 DEF Put, DictAccounts
    <3>2. CASE g = h
      <4>1. attempts[g] = 0 /\ h \in registered'
        BY <1>1, <3>1, <3>2 DEF Put, DictRow
      <4> QED BY <2>1, <3>1, <3>2, <4>1 DEF DictRow
    <3>3. CASE g # h
      <4>1. Stored(g)' <=> Stored(g)
        BY <1>1, <3>3 DEF Put, Stored
      <4> QED BY <2>1, <3>1, <3>3, <4>1 DEF DictRow, Finishing
    <3> QED BY <3>2, <3>3
  <2>3. ASSUME NEW d \in Call PROVE DictCall(d)'
    BY <1>1, <2>1 DEF Put, DictAccounts, DictCall, Finishing
  <2> QED BY <2>2, <2>3 DEF DictAccounts
<1>2. ASSUME NEW h \in Handle, Expire(h) PROVE FALSE
  BY <1>2 DEF Expire, InProcess
<1>3. ASSUME FreezeCall PROVE DictAccounts'
  BY <1>3, <1>a DEF FreezeCall, Freeze, callVars, historyVars, storeVars, CallsIdle, Stored
<1>4. ASSUME NEW c \in Call, ResolveInvalid(c) PROVE DictAccounts'
  <2>1. Others(c)
    BY <1>4, OthersRest DEF CallMoves, Decide
  <2>2. pc'[c] = "ended" /\ outcome'[c] = "invalid"
    BY <1>4 DEF ResolveInvalid
  <2>3. DictCall(c)' /\ ~Finishing(c)'
    BY <2>2 DEF DictCall, Finishing
  <2> QED BY <1>4, <2>1, <2>3, DictEndStep DEF ResolveInvalid, storeVars, historyVars, Stored
<1>5. ASSUME NEW c \in Call, NEW p \in frozen, Reject(c, p) PROVE DictAccounts'
  <2>1. Others(c)
    BY <1>5, OthersRest DEF CallMoves, Decide
  <2>2. pc'[c] = "ended" /\ outcome'[c] = "rejected"
    BY <1>5 DEF Reject, End
  <2>3. DictCall(c)' /\ ~Finishing(c)'
    BY <2>2 DEF DictCall, Finishing
  <2>4. \A h \in Handle : Stored(h)' => Stored(h)
    BY <1>5 DEF Reject, End, Popped, Stored
  <2> QED BY <1>5, <2>1, <2>3, <2>4, DictEndStep DEF Reject, historyVars
<1>6. ASSUME NEW c \in Call, NEW p \in frozen, Approve(c, p) PROVE DictAccounts'
  <2> DEFINE h == p.handle
             verdict == Verdict(h, Stored(h), ledger[h])
  <2>1. h \in Handle /\ InMemory /\ DictRow(h)
    BY <1>6 DEF Pending, Approve, InProcess, DictAccounts
  <2>2. Others(c) /\ MayStart(c) /\ outcome[c] = ""
    BY <1>6, OthersRest DEF CallMoves, Decide, Approve, MayStart, AnsweredAtEnd
  <2>3. /\ target'[c] = h /\ h \in approved' /\ approved \subseteq approved'
        /\ UNCHANGED <<registered, ledger, attempts, failures>>
    BY <1>6 DEF Approve
  <2>4. /\ verdict = "proceed" => Stored(h) /\ h \in Reversible
        /\ verdict = "refused" => h \notin Reversible
        /\ verdict = "cached" => ledger[h] = "done"
        /\ verdict \notin {"", "executed", "send_failed"}
    <3>1. Stored(h) \in BOOLEAN /\ ledger[h] \in Status
      BY <2>1 DEF Stored
    <3> QED BY <3>1, VerdictType
  <2>5. \A d \in Call : ~Finishing(d)
    BY <2>2 DEF InProcess, MayStart, Active, Finishing
  <2>6. CASE verdict = "proceed"
    <3>1. pc'[c] = "send" /\ outcome'[c] = "" /\ regAt' = regAt
      BY <1>6, <2>1, <2>2, <2>6 DEF Approve
    <3>2. attempts[h] = 0 /\ h \in registered
      BY <2>1, <2>2, <2>4, <2>6, StoredUnsent
    <3>3. DictCall(c)' /\ ~Finishing(c)'
      BY <2>1, <2>3, <2>4, <2>6, <3>1, <3>2 DEF DictCall, Finishing
    <3> QED BY <2>2, <2>3, <3>1, <3>3, DictEndStep DEF Stored
  <2>7. CASE verdict # "proceed"
    <3>1. End(c, h, verdict)
      BY <1>6, <2>1, <2>7 DEF Approve
    <3>2. pc'[c] = "ended" /\ outcome'[c] = verdict
      BY <3>1 DEF End
    <3>3. \A g \in Handle : Stored(g)' => Stored(g)
      BY <3>1 DEF End, Popped, Stored
    <3>4. ~Finishing(c)' /\ \A d \in Call : ~Finishing(d)'
      BY <2>2, <2>5, <3>2 DEF Finishing, Others
    <3>5. verdict = "cached" => attempts[h] = 1 /\ failures[h] = 0
      BY <2>1, <2>4 DEF DictRow
    <3> HIDE DEF verdict
    <3>6. DictCall(c)'
      BY <2>1, <2>3, <2>4, <3>2, <3>4, <3>5 DEF DictCall
    <3> QED BY <2>2, <2>3, <3>3, <3>4, <3>6, DictEndStep
  <2> QED BY <2>6, <2>7
<1>7. ASSUME NEW c \in Call, Read(c) \/ Judge(c) \/ Claim(c) \/ Rejudge(c) \/ Record(c) \/ LedgerRaises(c)
      PROVE FALSE
  BY <1>7 DEF Read, Judge, Claim, Rejudge, Record, LedgerRaises, AtLedger, DictAccounts, DictCall
<1>b. ASSUME NEW c \in Call, pc[c] = "send" \/ Finishing(c)
      PROVE  target[c] \in Handle /\ \A d \in Call \ {c} : d \notin Active
  BY <1>b DEF Finishing, HasTarget, Alone, Active, InProcess
<1>8. ASSUME NEW c \in Call, Send(c) PROVE DictAccounts'
  <2> DEFINE h == target[c]
  <2>1. h \in Handle /\ pc[c] = "send" /\ \A d \in Call \ {c} : d \notin Active
    BY <1>8, <1>b DEF Send
  <2>2. DictCall(c) /\ DictRow(h) /\ attempts[h] = 0 /\ h \in Reversible \cap registered \cap approved
    BY <2>1 DEF DictAccounts, DictCall
  <2>3. /\ pc'[c] \in {"finish_done", "finish_failed"} /\ attempts'[h] = 1
        /\ \A g \in Handle \ {h} : attempts'[g] = attempts[g]
        /\ UNCHANGED <<registered, regAt, ledger, failures, target, outcome, approved>>
    BY <1>8, <2>1, <2>2 DEF Send, InProcess, storeVars
  <2>4. failures[h] = 0 /\ ledger[h] = "none"
    BY <2>1, <2>2 DEF DictRow
  <2>5. Others(c)
    BY <1>8, OthersRest DEF CallMoves, Resume
  <2>6. ASSUME NEW g \in Handle PROVE DictRow(g)'
    <3>1. CASE g = h
      BY <2>1, <2>2, <2>3, <2>4, <3>1 DEF DictRow, Stored, Finishing
    <3>2. CASE g # h
      <4>1. DictRow(g)
        BY DEF DictAccounts
      <4>2. ~\E d \in Call : Finishing(d) /\ target[d] = g
        BY <2>1 DEF Finishing, Active
      <4> QED BY <2>3, <3>2, <4>1, <4>2 DEF DictRow, Stored
    <3> QED BY <3>1, <3>2
  <2>7. outcome[c] = ""
    BY <2>1 DEF AnsweredAtEnd
  <2>8. DictCall(c)'
    BY <2>2, <2>3, <2>4, <2>7 DEF DictCall, Finishing
  <2>9. ASSUME NEW d \in Call, d # c PROVE DictCall(d)'
    <3>1. DictCall(d) /\ pc'[d] = pc[d] /\ target'[d] = target[d] /\ outcome'[d] = outcome[d]
      BY <2>5, <2>9 DEF Others, DictAccounts
    <3>2. ~Finishing(d) /\ pc[d] # "send"
      BY <2>1, <2>9 DEF Active, Finishing
    <3>3. ASSUME outcome[d] \in {"executed", "cached"} PROVE target[d] \in Handle \ {h}
      BY <2>2, <3>1, <3>3 DEF DictCall
    <3>4. \A e \in Call : Finishing(e)' => target[e] = h
      BY <2>1, <2>5 DEF Finishing, Others, Active
    <3> QED BY <2>3, <3>1, <3>2, <3>3, <3>4 DEF DictCall, Finishing
  <2> QED BY <2>6, <2>8, <2>9 DEF DictAccounts
<1>9. ASSUME NEW c \in Call, Finish(c) PROVE DictAccounts'
  <2> DEFINE h == target[c]
  <2>1. Finishing(c) /\ h \in Handle /\ \A d \in Call \ {c} : d \notin Active
    BY <1>9, <1>b DEF Finish, Finishing
  <2>2. /\ DictRow(h) /\ attempts[h] = 1 /\ failures[h] = 0 /\ ledger[h] = "none"
        /\ h \in Reversible \cap registered \cap approved
    BY <2>1 DEF DictAccounts, DictCall
  <2>3. /\ pc'[c] = "ended" /\ outcome'[c] = IF pc[c] = "finish_done" THEN "executed" ELSE "send_failed"
        /\ regAt' = [regAt EXCEPT ![h] = 0]
        /\ UNCHANGED <<registered, attempts, target, approved>>
    BY <1>9 DEF Finish, End, Popped, Consuming
  <2>4. /\ pc[c] = "finish_done" => ledger' = [ledger EXCEPT ![h] = "done"] /\ failures' = failures
        /\ pc[c] # "finish_done" => ledger' = ledger /\ failures' = [failures EXCEPT ![h] = 1]
    BY <1>9, <2>1, <2>2 DEF Finish, Marked, InProcess
  <2>5. Others(c)
    BY <1>9, OthersRest DEF CallMoves, Resume
  <2>6. \A d \in Call : ~Finishing(d)'
    BY <2>1, <2>3, <2>5 DEF Others, Finishing, Active
  <2>7. ASSUME NEW g \in Handle PROVE DictRow(g)'
    <3>1. CASE g = h
      <4>1. ~Stored(g)'
        BY <2>1, <2>3, <3>1 DEF Stored
      <4>2. CASE pc[c] = "finish_done"
        <5>1. ledger'[g] = "done" /\ failures'[g] = 0 /\ attempts'[g] = 1
          BY <2>1, <2>2, <2>3, <2>4, <3>1, <4>2
        <5> QED BY <2>2, <2>3, <3>1, <4>1, <5>1 DEF DictRow
      <4>3. CASE pc[c] # "finish_done"
        <5>1. ledger'[g] = "none" /\ failures'[g] = 1 /\ attempts'[g] = 1
          BY <2>1, <2>2, <2>3, <2>4, <3>1, <4>3
        <5> QED BY <2>2, <2>3, <3>1, <4>1, <5>1 DEF DictRow
      <4> QED BY <4>2, <4>3
    <3>2. CASE g # h
      <4>1. DictRow(g) /\ ledger'[g] = ledger[g] /\ failures'[g] = failures[g]
        BY <2>4, <3>2 DEF DictAccounts
      <4>2. Stored(g)' <=> Stored(g)
        BY <2>3, <3>2 DEF Stored
      <4>3. ~\E d \in Call : Finishing(d) /\ target[d] = g
        BY <2>1, <3>2 DEF Finishing, Active
      <4> QED BY <2>3, <3>2, <4>1, <4>2, <4>3 DEF DictRow
    <3> QED BY <3>1, <3>2
  <2>8. DictCall(c)'
    <3>1. pc[c] = "finish_done" => failures'[h] = 0
      BY <2>2, <2>4
    <3>2. pc[c] # "finish_done" => failures'[h] = 1
      BY <2>1, <2>4
    <3> QED BY <2>1, <2>2, <2>3, <2>6, <3>1, <3>2 DEF DictCall
  <2>9. ASSUME NEW d \in Call, d # c PROVE DictCall(d)'
    <3>1. DictCall(d) /\ pc'[d] = pc[d] /\ target'[d] = target[d] /\ outcome'[d] = outcome[d]
      BY <2>5, <2>9 DEF Others, DictAccounts
    <3>2. ~Finishing(d) /\ pc[d] # "send"
      BY <2>1, <2>9 DEF Active, Finishing
    <3>3. ASSUME outcome[d] \in {"executed", "cached"} PROVE target[d] \in Handle \ {h}
      BY <2>1, <3>1, <3>3 DEF DictCall
    <3>4. \A g \in Handle \ {h} : failures'[g] = failures[g]
      BY <2>4
    <3>5. ASSUME target[d] \in Handle, failures[target[d]] > 0 PROVE failures'[target[d]] > 0
      <4>1. CASE target[d] = h
        BY <2>2, <3>5, <4>1
      <4>2. CASE target[d] # h
        BY <3>4, <3>5, <4>2
      <4> QED BY <4>1, <4>2
    <3> QED BY <2>3, <2>6, <3>1, <3>2, <3>3, <3>4, <3>5 DEF DictCall, Finishing
  <2> QED BY <2>7, <2>8, <2>9 DEF DictAccounts
<1>10. ASSUME NEW dying \in SUBSET Active, Crash(dying) PROVE DictAccounts'
  <2>1. /\ UNCHANGED <<registered, target, attempts, failures, approved>> /\ dying = Active
        /\ \A h \in Handle : regAt'[h] = 0 /\ ledger'[h] = "none"
    BY <1>10 DEF Crash, InProcess, historyVars
  <2>2. \A d \in Call : \/ d \in Active /\ pc'[d] = "ended" /\ outcome'[d] = "lost"
                        \/ d \notin Active /\ pc'[d] = pc[d] /\ outcome'[d] = outcome[d]
    BY <1>10, <2>1 DEF Crash
  <2>3. \A d \in Call : pc'[d] \in {"new", "ended"}
    BY <2>2 DEF Active
  <2>4. ASSUME NEW h \in Handle PROVE DictRow(h)'
    <3>1. ~Stored(h)'
      BY <2>1 DEF Stored
    <3> QED BY <2>1, <3>1 DEF DictRow, DictAccounts
  <2>5. ASSUME NEW d \in Call PROVE DictCall(d)'
    BY <2>1, <2>2, <2>3 DEF DictCall, DictAccounts, Finishing
  <2> QED BY <2>4, <2>5 DEF DictAccounts
<1>11. CASE UNCHANGED vars
  BY <1>11, <1>a DEF vars, storeVars, callVars, historyVars, CallsIdle, Stored
<1> QED BY <1>1, <1>2, <1>3, <1>4, <1>5, <1>6, <1>7, <1>8, <1>9, <1>10, <1>11
        DEF Next, Store, Decide, Resume

-----------------------------------------------------------------------------
(* The inductive invariant *)

LEMMA CapabilityInit == Init => TypeInv /\ CapabilityInv
BY TypeInit, AccountsInit, ReportsInit, DictInit DEF Init, CapabilityInv, Alone, AnsweredAtEnd, Active

LEMMA CapabilityStep == TypeInv /\ CapabilityInv /\ [Next]_vars => (TypeInv /\ CapabilityInv)'
<1> SUFFICES ASSUME TypeInv, CapabilityInv, [Next]_vars PROVE TypeInv' /\ CapabilityInv'
  OBVIOUS
<1>1. TypeInv' /\ Alone' /\ AnsweredAtEnd' /\ deployment' = deployment
  BY TypeStep, AloneStep, AnsweredStep, DeploymentFixed DEF CapabilityInv
<1>2. (InMemory' <=> InMemory) /\ (InProcess' <=> InProcess)
  BY <1>1 DEF InMemory, InProcess, Durable
<1>3. ~InMemory => Accounts' /\ Reports'
  BY AccountsStep, ReportsStep DEF CapabilityInv
<1>4. InProcess => DictAccounts'
  BY DictStep DEF CapabilityInv
<1> QED BY <1>1, <1>2, <1>3, <1>4 DEF CapabilityInv

\* The inductive invariant, for every deployment: what each ledger row, or
\* without a ledger each stored proposal, says of the commands sent, and what
\* each call under way or ended knows.
THEOREM CapabilityInvHolds == Spec => []CapabilityInv
BY CapabilityInit, CapabilityStep, PTL DEF Spec

LEMMA TypeInvHolds == Spec => []TypeInv
BY TypeInit, TypeStep, PTL DEF Spec

-----------------------------------------------------------------------------
(* At-most-once and its write-ahead row *)

\* The device is commanded at most once per proposal, plus once for each failure
\* that a ledger with a visible status lets a user retry.
THEOREM SafeAtMostOnce == DictIsAlone => (Spec => []AtMostOnce)
<1> SUFFICES ASSUME DictIsAlone PROVE Spec => []AtMostOnce
  OBVIOUS
<1>1. TypeInv /\ CapabilityInv => AtMostOnce
  <2> SUFFICES ASSUME TypeInv, CapabilityInv, NEW h \in Handle
               PROVE  attempts[h] <= 1 + IF deployment.ledger = "status" THEN failures[h] ELSE 0
    BY DEF AtMostOnce
  <2>1. /\ attempts[h] \in Nat /\ failures[h] \in Nat
        /\ ledger[h] \in {"none", "in_flight", "done", "failed"}
        /\ deployment.ledger \in {"memory", "pg", "status"}
    BY DEF TypeInv, TypeOK, Status, Deployment, LedgerKind
  <2>2. CASE ~InMemory
    <3>1. RowAccounts(h) /\ PgRow(h)
      BY <2>2 DEF CapabilityInv, Accounts
    <3> QED BY <2>1, <2>2, <3>1 DEF RowAccounts, PgRow, InMemory
  <2>3. CASE InMemory
    <3>1. DictRow(h)
      BY <2>3 DEF CapabilityInv, DictIsAlone, InMemory, InProcess, Durable, DictAccounts
    <3> QED BY <2>1, <2>3, <3>1 DEF DictRow, InMemory
  <2> QED BY <2>2, <2>3
<1> QED BY <1>1, TypeInvHolds, CapabilityInvHolds, PTL

\* Every command is preceded by its row, and a command under way is in flight there.
THEOREM SafeWriteAhead == Spec => []WriteAhead
<1>1. CapabilityInv => WriteAhead
  BY DEF CapabilityInv, Accounts, WriteAhead, CallAccounts, RowAccounts
<1> QED BY <1>1, CapabilityInvHolds, PTL

\* No two calls carry the same proposal through the send at the same time.
THEOREM SafeOneOwner == Spec => []OneOwner
<1>1. CapabilityInv => OneOwner
  BY DEF CapabilityInv, Accounts, OneOwner
<1> QED BY <1>1, CapabilityInvHolds, PTL

\* A row marked done stays done, whoever writes late, retries or is cut off.
THEOREM SafeDoneIsFinal == Spec => DoneIsFinal
<1>1. TypeInv /\ CapabilityInv /\ [Next]_vars
        => [~InMemory => \A h \in Handle : ledger[h] = "done" => ledger'[h] = "done"]_vars
  BY RowsMove DEF CapabilityInv
<1> QED BY <1>1, TypeInvHolds, CapabilityInvHolds, PTL DEF Spec, DoneIsFinal

-----------------------------------------------------------------------------
(* What the user is told *)

\* What a settled call reported is true of the commands sent, and stays true.
THEOREM SafeHonestReport == DictIsAlone => (Spec => []HonestReport)
<1> SUFFICES ASSUME DictIsAlone PROVE Spec => []HonestReport
  OBVIOUS
<1>1. TypeInv /\ CapabilityInv => HonestReport
  <2> SUFFICES ASSUME TypeInv, CapabilityInv, NEW c \in Call
               PROVE  /\ outcome[c] \in {"executed", "cached"} => attempts[target[c]] > failures[target[c]]
                      /\ outcome[c] = "send_failed" => failures[target[c]] > 0
                      /\ outcome[c] = "refused" => attempts[target[c]] = 0
    BY DEF HonestReport
  <2>1. CASE ~InMemory
    <3>1. CallReports(c) /\ \A h \in Handle \ Reversible : attempts[h] = 0
      BY <2>1 DEF CapabilityInv, Reports
    <3>2. ASSUME target[c] \in Handle, ledger[target[c]] = "done"
          PROVE  attempts[target[c]] > failures[target[c]]
      <4>1. attempts[target[c]] = failures[target[c]] + 1 /\ failures[target[c]] \in Nat
        BY <2>1, <3>2 DEF CapabilityInv, Accounts, RowAccounts, TypeInv, TypeOK
      <4> QED BY <4>1
    <3> QED BY <3>1, <3>2 DEF CallReports
  <2>2. CASE InMemory
    <3>1. DictAccounts
      BY <2>2 DEF CapabilityInv, DictIsAlone, InMemory, InProcess, Durable
    <3>2. DictCall(c)
      BY <3>1 DEF DictAccounts
    <3>3. outcome[c] = "refused" => attempts[target[c]] = 0
      BY <3>1, <3>2 DEF DictAccounts, DictRow, DictCall
    <3>4. outcome[c] \in {"executed", "cached"} => attempts[target[c]] > failures[target[c]]
      BY <3>2 DEF DictCall
    <3> QED BY <3>2, <3>3, <3>4 DEF DictCall
  <2> QED BY <2>1, <2>2
<1> QED BY <1>1, TypeInvHolds, CapabilityInvHolds, PTL

\* A call ends as expired on a row that is free or failed, so far as it has read.
LEMMA ExpiredByJudge ==
    ASSUME TypeInv, ~InMemory, NEW c \in Call, [Next]_vars,
           outcome[c] # "expired", outcome'[c] = "expired"
    PROVE  Judge(c) /\ seen[c] \in {"none", "failed"}
<1> USE DEF TypeInv, TypeOK
<1>1. CallMoves(c)
  <2>1. ASSUME NEW d \in Call, CallMoves(d), d # c PROVE FALSE
    BY <2>1, OthersRest DEF Others
  <2>2. CASE CallsIdle
    BY <2>2 DEF CallsIdle
  <2>3. ASSUME NEW dying \in SUBSET Active, Crash(dying) PROVE FALSE
    BY <2>3 DEF Crash
  <2> QED BY <2>1, <2>2, <2>3, StepKinds
<1>2. CASE Judge(c)
  <2>1. held[c] \in BOOLEAN /\ seen[c] \in Status
    OBVIOUS
  <2>2. Verdict(target[c], held[c], seen[c]) = "expired"
    BY <1>2 DEF Judge, End
  <2> QED BY <1>2, <2>1, <2>2, VerdictType
<1>3. CASE ResolveInvalid(c) \/ (\E p \in frozen : Reject(c, p))
  BY <1>3 DEF ResolveInvalid, Reject, End
<1>4. ASSUME NEW p \in frozen, Approve(c, p) PROVE FALSE
  BY <1>4 DEF Approve
<1>5. CASE Read(c) \/ Claim(c) \/ Send(c) \/ Record(c)
  BY <1>5 DEF Read, Claim, Send, Record
<1>6. CASE Rejudge(c)
  BY <1>6 DEF Rejudge, End, Unknown
<1>7. CASE Finish(c)
  BY <1>7 DEF Finish, End
<1>8. CASE LedgerRaises(c)
  BY <1>8 DEF LedgerRaises
<1> QED BY <1>1, <1>2, <1>3, <1>4, <1>5, <1>6, <1>7, <1>8 DEF CallMoves, Decide, Resume

\* One confirmation at a time, over a ledger that shows the status of its rows:
\* a proposal reported as expired has no command that may have been carried out.
THEOREM SafeExpiredMeansNotSent == SerialShowsStatus => (Spec => ExpiredMeansNotSent)
<1> SUFFICES ASSUME SerialShowsStatus PROVE Spec => ExpiredMeansNotSent
  OBVIOUS
<1> DEFINE Told ==
      \A c \in Call :
          /\ deployment.serial /\ ~InMemory
          /\ outcome[c] # "expired" /\ outcome'[c] = "expired"
          => attempts[target'[c]] = failures[target'[c]]
<1>1. TypeInv /\ CapabilityInv /\ [Next]_vars => [Told]_vars
  <2> SUFFICES ASSUME TypeInv, CapabilityInv, [Next]_vars,
                      NEW c \in Call, deployment.serial, ~InMemory,
                      outcome[c] # "expired", outcome'[c] = "expired"
               PROVE  attempts[target'[c]] = failures[target'[c]]
    OBVIOUS
  <2>1. Judge(c) /\ seen[c] \in {"none", "failed"}
    BY ExpiredByJudge
  <2>2. c \in Active /\ pc[c] = "judge" /\ target' = target
    BY <2>1 DEF Judge, Active
  <2>3. deployment.ledger = "status"
    BY DEF CapabilityInv, SerialShowsStatus, InMemory, TypeInv, TypeOK, Deployment, LedgerKind
  <2>4. ledger[target[c]] \in {"none", "failed"} /\ target[c] \in Handle
    BY <2>1, <2>2, <2>3 DEF CapabilityInv, Alone, TypeInv, HasTarget
  <2>5. RowAccounts(target[c])
    BY <2>4 DEF CapabilityInv, Accounts
  <2> QED BY <2>2, <2>4, <2>5 DEF RowAccounts
<1>2. Spec => [][Told]_vars
  <2> HIDE DEF Told
  <2> QED BY <1>1, TypeInvHolds, CapabilityInvHolds, PTL DEF Spec
<1> QED BY <1>2 DEF ExpiredMeansNotSent

-----------------------------------------------------------------------------
(* Sessions *)

\* freeze never names a proposal of another session.
THEOREM SafeThreadIsolation == Spec => []ThreadIsolation
<1>1. Init => ThreadIsolation
  BY DEF Init, ThreadIsolation
<1>2. TypeInv /\ ThreadIsolation /\ [Next]_vars => ThreadIsolation'
  <2> SUFFICES ASSUME TypeInv, ThreadIsolation, [Next]_vars PROVE ThreadIsolation'
    OBVIOUS
  <2>1. ASSUME NEW thread \in Thread, NEW requested \in Handle \cup {NoHandle},
               Freeze(thread, requested)
        PROVE ThreadIsolation'
    <3>1. \A h \in FreezeChoice(thread, requested) : ThreadOf[h] \in {thread, NoThread}
      BY DEF FreezeChoice, Usable, LatestFor
    <3> QED BY <2>1, <3>1 DEF Freeze, ThreadIsolation
  <2>2. CASE UNCHANGED frozen
    BY <2>2 DEF ThreadIsolation
  <2>3. (\E thread \in Thread, requested \in Handle \cup {NoHandle} : Freeze(thread, requested))
          \/ UNCHANGED frozen
    BY DEF Next, Store, FreezeCall, Decide, Resume, Put, Expire, ResolveInvalid, Reject, Approve,
           Read, Judge, Claim, Rejudge, Send, Record, Finish, LedgerRaises, Crash, vars
  <2> QED BY <2>1, <2>2, <2>3
<1> QED BY <1>1, <1>2, TypeInvHolds, PTL DEF Spec

-----------------------------------------------------------------------------
(* Refinement *)

LEMMA AbstractInit == Init => Abstract!AInit
BY DEF Init, Abstract!AInit

\* What a step does to the history is a step of the actuator or nothing.
LEMMA AbstractStep ==
    ASSUME DictIsAlone, TypeInv, CapabilityInv, [Next]_vars
    PROVE  [Abstract!ANext]_(Abstract!avars)
<1> SUFFICES Abstract!ANext \/ UNCHANGED historyVars
  BY DEF Abstract!avars, historyVars
<1>a. InMemory => DictAccounts
  BY DEF CapabilityInv, DictIsAlone, InMemory, InProcess, Durable
<1>b. ~InMemory => Accounts
  BY DEF CapabilityInv
<1>1. ASSUME NEW c \in Call, NEW p \in frozen, Approve(c, p) PROVE Abstract!ANext
  <2>1. p.handle \in Handle
    BY <1>1 DEF TypeInv, TypeOK, Pending, Approve
  <2>2. Abstract!AApprove(p.handle)
    BY <1>1 DEF Approve, Abstract!AApprove
  <2> QED BY <2>1, <2>2 DEF Abstract!ANext
<1>2. ASSUME NEW c \in Call, Send(c) PROVE Abstract!ANext
  <2>1. pc[c] = "send" /\ target[c] \in Handle
    BY <1>2 DEF Send, TypeInv, HasTarget
  <2>2. /\ target[c] \in approved /\ target[c] \in Reversible
        /\ attempts[target[c]] = failures[target[c]]
    <3>1. CASE ~InMemory
      BY <1>b, <2>1, <3>1 DEF Accounts, CallAccounts
    <3>2. CASE InMemory
      <4>1. DictCall(c) /\ DictRow(target[c])
        BY <1>a, <2>1, <3>2 DEF DictAccounts
      <4>2. attempts[target[c]] = 0 /\ failures[target[c]] \in Nat
        BY <2>1, <4>1 DEF DictCall, TypeInv, TypeOK
      <4> QED BY <2>1, <4>1, <4>2 DEF DictCall, DictRow
    <3> QED BY <3>1, <3>2
  <2>3. Abstract!AAttempt(target[c])
    BY <1>2, <2>2 DEF Send, Abstract!AAttempt
  <2> QED BY <2>1, <2>3 DEF Abstract!ANext
<1>3. ASSUME NEW c \in Call, target[c] \in Handle, failures[target[c]] < attempts[target[c]],
             failures' = [failures EXCEPT ![target[c]] = @ + 1], UNCHANGED <<approved, attempts>>
      PROVE Abstract!ANext
  <2>1. Abstract!AFail(target[c])
    BY <1>3 DEF Abstract!AFail
  <2> QED BY <1>3, <2>1 DEF Abstract!ANext
<1>4. ASSUME NEW c \in Call, pc[c] \in {"record_done", "record_failed"}, Recorded(c),
             UNCHANGED <<approved, attempts>>
      PROVE Abstract!ANext \/ UNCHANGED historyVars
  <2>1. CASE pc[c] = "record_done"
    BY <1>4, <2>1 DEF Recorded, historyVars
  <2>2. CASE pc[c] = "record_failed"
    <3>1. target[c] \in Handle /\ ~InMemory
      BY <1>a, <2>2 DEF TypeInv, HasTarget, DictAccounts, DictCall
    <3>2. failures[target[c]] < attempts[target[c]]
      <4>1. attempts[target[c]] = failures[target[c]] + 1 /\ failures[target[c]] \in Nat
        BY <1>b, <2>2, <3>1 DEF Accounts, CallAccounts, TypeInv, TypeOK
      <4> QED BY <4>1
    <3> QED BY <1>3, <1>4, <2>2, <3>1, <3>2 DEF Recorded
  <2> QED BY <1>4, <2>1, <2>2
<1>5. ASSUME NEW c \in Call, Record(c) PROVE Abstract!ANext \/ UNCHANGED historyVars
  BY <1>4, <1>5 DEF Record
<1>6. ASSUME NEW c \in Call, LedgerRaises(c) PROVE Abstract!ANext \/ UNCHANGED historyVars
  <2>1. CASE pc[c] \in {"record_done", "record_failed"} /\ Recorded(c)
    BY <1>4, <1>6, <2>1 DEF LedgerRaises
  <2>2. CASE UNCHANGED failures
    BY <1>6, <2>2 DEF LedgerRaises, historyVars
  <2> QED BY <1>6, <2>1, <2>2 DEF LedgerRaises
<1>7. ASSUME NEW c \in Call, Finish(c) PROVE Abstract!ANext \/ UNCHANGED historyVars
  <2>1. CASE UNCHANGED failures
    BY <1>7, <2>1 DEF Finish, historyVars
  <2>2. CASE InMemory /\ pc[c] = "finish_failed"
    <3>1. target[c] \in Handle
      BY <2>2 DEF TypeInv, HasTarget
    <3>2. attempts[target[c]] = 1 /\ failures[target[c]] = 0
      BY <1>a, <2>2 DEF DictAccounts, DictCall, Finishing
    <3>3. failures[target[c]] < attempts[target[c]]
      BY <3>2
    <3> QED BY <1>3, <1>7, <2>2, <3>1, <3>3 DEF Finish
  <2> QED BY <1>7, <2>1, <2>2 DEF Finish
<1>8. ASSUME NEW c \in Call, ResolveInvalid(c) \/ (\E p \in frozen : Reject(c, p))
      PROVE UNCHANGED historyVars
  BY <1>8 DEF ResolveInvalid, Reject
<1>9. ASSUME NEW c \in Call, Read(c) \/ Judge(c) \/ Claim(c) \/ Rejudge(c)
      PROVE UNCHANGED historyVars
  BY <1>9 DEF Read, Judge, Claim, Rejudge
<1>10. ASSUME Store \/ FreezeCall \/ (\E dying \in SUBSET Active : Crash(dying)) \/ UNCHANGED vars
       PROVE UNCHANGED historyVars
  BY <1>10 DEF Store, FreezeCall, Put, Expire, Freeze, Crash, vars, historyVars
<1> QED BY <1>1, <1>2, <1>5, <1>6, <1>7, <1>8, <1>9, <1>10 DEF Next, Decide, Resume

\* With a ledger, or one confirmation at a time in one process, propose, freeze,
\* confirm and send implement the actuator.
THEOREM Refinement == DictIsAlone => (Spec => ImplementsActuator)
<1> SUFFICES ASSUME DictIsAlone PROVE Spec => ImplementsActuator
  OBVIOUS
<1>1. TypeInv /\ CapabilityInv /\ [Next]_vars => [Abstract!ANext]_(Abstract!avars)
  BY AbstractStep
<1> QED BY <1>1, AbstractInit, TypeInvHolds, CapabilityInvHolds, PTL
        DEF Spec, ImplementsActuator, Abstract!ASpec
=============================================================================
