------------------------ MODULE MilvusExecutor_proofs ------------------------
(***************************************************************************)
(* Theorems about MilvusExecutor, for any number of callers, threads and   *)
(* permits.                                                                *)
(***************************************************************************)
EXTENDS MilvusExecutor, FiniteSetTheorems, TLAPS

(***************************************************************************)
(* The inductive invariant.                                                *)
(***************************************************************************)

TypeInv ==
    /\ permits \in 0..MaxInFlight
    /\ queue \in Seq(Caller)
    /\ thread \in [Worker -> [at : Place, for : Caller \cup {Nobody}]]
    /\ answer \in [Caller -> {"none", "waiting", "ok", "error"}]
    /\ lock \in Worker \cup {Nobody}
    /\ loads \in Nat

\* A search is in the queue once or in one thread, and its caller awaits it.
OneSearchEach ==
    /\ \A i \in DOMAIN queue : answer[queue[i]] = "waiting"
    /\ \A i, j \in DOMAIN queue : queue[i] = queue[j] => i = j
    /\ \A w \in Worker : thread[w].for # Nobody =>
         /\ answer[thread[w].for] = "waiting"
         /\ \A i \in DOMAIN queue : queue[i] # thread[w].for
         /\ \A v \in Worker : thread[v].for = thread[w].for => v = w

\* The lock is held exactly by the thread that loads, while nothing is loaded.
LockAccounts ==
    /\ \A w \in Worker : thread[w].at = "load" <=> lock = w
    /\ lock # Nobody => loads = 0

ExecutorInv == TypeInv /\ OneSearchEach /\ LockAccounts /\ PermitsBalanced /\ LoadedOnce

-----------------------------------------------------------------------------
(* How the set of searches in flight changes                               *)

\* A caller that enters or leaves it changes its size by one.
LEMMA InFlightFinite == IsFiniteSet(InFlight) /\ Cardinality(InFlight) \in Nat
<1>1. InFlight \subseteq Caller BY DEF InFlight
<1>2. IsFiniteSet(InFlight) BY <1>1, ExecutorAssumption, FS_Subset
<1> QED BY <1>2, FS_CardinalityType

LEMMA EnterFlight ==
    ASSUME TypeInv, NEW c \in Caller, answer[c] = "none",
           answer' = [answer EXCEPT ![c] = "waiting"]
    PROVE  Cardinality(InFlight)' = Cardinality(InFlight) + 1
<1>1. InFlight' = InFlight \cup {c} BY DEF InFlight, TypeInv
<1>2. c \notin InFlight BY DEF InFlight
<1> QED BY <1>1, <1>2, InFlightFinite, FS_AddElement

LEMMA LeaveFlight ==
    ASSUME TypeInv, NEW c \in Caller, answer[c] # "none",
           answer' = [answer EXCEPT ![c] = "none"]
    PROVE  Cardinality(InFlight)' = Cardinality(InFlight) - 1
<1>1. InFlight' = InFlight \ {c} BY DEF InFlight, TypeInv
<1>2. c \in InFlight BY DEF InFlight
<1> QED BY <1>1, <1>2, InFlightFinite, FS_RemoveElement

\* A search that ends is in flight until its caller goes on.
LEMMA StayInFlight ==
    ASSUME TypeInv, OneSearchEach, NEW w \in Worker, NEW result \in {"ok", "error"},
           End(w, result)
    PROVE  InFlight' = InFlight
<1>1. CASE thread[w].for = Nobody BY <1>1 DEF End, InFlight
<1>2. CASE thread[w].for # Nobody
  <2>1. thread[w].for \in Caller BY <1>2 DEF TypeInv
  <2>2. answer[thread[w].for] = "waiting" BY <1>2 DEF OneSearchEach
  <2> QED BY <1>2, <2>1, <2>2 DEF End, InFlight, TypeInv
<1> QED BY <1>1, <1>2

-----------------------------------------------------------------------------
(* Init                                                                    *)

LEMMA InitInv == ExecutorInit => ExecutorInv
<1> SUFFICES ASSUME ExecutorInit PROVE ExecutorInv OBVIOUS
<1> USE DEF ExecutorInit
<1>1. TypeInv BY ExecutorAssumption DEF TypeInv, Free, Place
<1>2. OneSearchEach BY DEF OneSearchEach, Free
<1>3. LockAccounts BY ExecutorAssumption DEF LockAccounts, Free
<1>4. PermitsBalanced
  <2>1. InFlight = {} BY DEF InFlight
  <2> QED BY <2>1, FS_EmptySet, ExecutorAssumption DEF PermitsBalanced
<1>5. LoadedOnce BY DEF LoadedOnce, Free
<1> QED BY <1>1, <1>2, <1>3, <1>4, <1>5 DEF ExecutorInv

-----------------------------------------------------------------------------
(* The steps                                                               *)

LEMMA SubmitInv == ASSUME ExecutorInv, NEW c \in Caller, Submit(c) PROVE ExecutorInv'
<1> USE DEF ExecutorInv, Submit, Admitted
<1>1. TypeInv' BY ExecutorAssumption DEF TypeInv
<1>2. OneSearchEach'
  <2>1. Len(queue') = Len(queue) + 1 /\ DOMAIN queue' = 1..(Len(queue) + 1)
    BY DEF TypeInv
  <2>2. \A i \in DOMAIN queue' :
          queue'[i] = IF i = Len(queue) + 1 THEN c ELSE queue[i]
    BY DEF TypeInv
  <2>3. \A i \in DOMAIN queue : queue[i] # c BY DEF OneSearchEach
  <2>4. \A w \in Worker : thread[w].for # c BY ExecutorAssumption DEF OneSearchEach
  <2>5. DOMAIN queue = 1..Len(queue) BY DEF TypeInv
  <2>6. \A i \in DOMAIN queue : queue[i] \in Caller BY DEF TypeInv
  <2>7. \A d \in Caller : answer'[d] = IF d = c THEN "waiting" ELSE answer[d] BY DEF TypeInv
  <2>8. \A i \in DOMAIN queue' : answer'[queue'[i]] = "waiting"
    BY <2>1, <2>2, <2>5, <2>6, <2>7 DEF OneSearchEach
  <2>9. \A i, j \in DOMAIN queue' : queue'[i] = queue'[j] => i = j
    BY <2>1, <2>2, <2>3, <2>5 DEF OneSearchEach
  <2>10. ASSUME NEW w \in Worker, thread'[w].for # Nobody
         PROVE  /\ answer'[thread'[w].for] = "waiting"
                /\ \A i \in DOMAIN queue' : queue'[i] # thread'[w].for
                /\ \A v \in Worker : thread'[v].for = thread'[w].for => v = w
    <3>1. thread'[w].for \in Caller BY <2>10 DEF TypeInv
    <3> QED BY <2>10, <3>1, <2>1, <2>2, <2>4, <2>5, <2>7 DEF OneSearchEach
  <2> QED BY <2>8, <2>9, <2>10 DEF OneSearchEach
<1>3. LockAccounts' BY DEF LockAccounts
<1>4. PermitsBalanced'
  <2>1. Cardinality(InFlight)' = Cardinality(InFlight) + 1 BY EnterFlight
  <2> QED BY <2>1, InFlightFinite DEF PermitsBalanced, TypeInv
<1>5. LoadedOnce' BY DEF LoadedOnce
<1> QED BY <1>1, <1>2, <1>3, <1>4, <1>5

\* The permit a caller gives back fits in the semaphore.
LEMMA PermitBack ==
    ASSUME TypeInv, PermitsBalanced, NEW c \in Caller, answer[c] # "none"
    PROVE  permits + 1 \in 0..MaxInFlight
<1>1. c \in InFlight BY DEF InFlight
<1>2. Cardinality(InFlight) # 0 BY <1>1, InFlightFinite, FS_EmptySet
<1> QED BY <1>2, InFlightFinite, ExecutorAssumption DEF PermitsBalanced, TypeInv

LEMMA ResumeInv == ASSUME ExecutorInv, NEW c \in Caller, Resume(c) PROVE ExecutorInv'
<1> USE DEF ExecutorInv, Resume, Released
<1>0. answer[c] # "none" /\ answer[c] # "waiting" OBVIOUS
<1>1. TypeInv' BY <1>0, PermitBack DEF TypeInv
<1>2. OneSearchEach'
  <2>1. \A d \in Caller : answer[d] = "waiting" => answer'[d] = "waiting" BY <1>0 DEF TypeInv
  <2>2. \A i \in DOMAIN queue : queue[i] \in Caller BY DEF TypeInv
  <2>3. \A w \in Worker : thread[w].for # Nobody => thread[w].for \in Caller BY DEF TypeInv
  <2> QED BY <2>1, <2>2, <2>3 DEF OneSearchEach
<1>3. LockAccounts' BY DEF LockAccounts
<1>4. PermitsBalanced'
  <2>1. Cardinality(InFlight)' = Cardinality(InFlight) - 1 BY <1>0, LeaveFlight
  <2> QED BY <2>1, InFlightFinite DEF PermitsBalanced, TypeInv
<1>5. LoadedOnce' BY DEF LoadedOnce
<1> QED BY <1>1, <1>2, <1>3, <1>4, <1>5

\* What is left in the queue was there before, in the same order.
LEMMA DroppedFacts ==
    ASSUME TypeInv, OneSearchEach, NEW c \in Caller
    PROVE  /\ Dropped(c) \in Seq(Caller)
           /\ \A i \in DOMAIN Dropped(c) : Dropped(c)[i] # c
           /\ \A i \in DOMAIN Dropped(c) : \E j \in DOMAIN queue : Dropped(c)[i] = queue[j]
           /\ \A i, j \in DOMAIN Dropped(c) : Dropped(c)[i] = Dropped(c)[j] => i = j
<1>0. DOMAIN queue = 1..Len(queue) /\ Len(queue) \in Nat
      /\ \A i \in DOMAIN queue : queue[i] \in Caller
  BY DEF TypeInv
<1>1. CASE \A i \in DOMAIN queue : queue[i] # c
  BY <1>1, <1>0 DEF Dropped, OneSearchEach, TypeInv
<1>2. CASE \E i \in DOMAIN queue : queue[i] = c
  <2> DEFINE here == CHOOSE i \in DOMAIN queue : queue[i] = c
             Place2(i) == IF i < here THEN i ELSE i + 1
             rest == [i \in 1..(Len(queue) - 1) |-> queue[IF i < here THEN i ELSE i + 1]]
  <2>1. here \in DOMAIN queue /\ queue[here] = c BY <1>2
  <2>2. Dropped(c) = rest BY <1>2 DEF Dropped
  <2>3. Len(queue) - 1 \in Nat BY <2>1, <1>0
  <2> HIDE DEF here
  <2>4. \A i \in 1..(Len(queue) - 1) : Place2(i) \in DOMAIN queue /\ Place2(i) # here
    BY <2>1, <1>0
  <2>5. \A i, j \in 1..(Len(queue) - 1) : Place2(i) = Place2(j) => i = j BY <2>1, <1>0
  <2>6. \A i \in 1..(Len(queue) - 1) : rest[i] = queue[Place2(i)] OBVIOUS
  <2>7. \A i \in 1..(Len(queue) - 1) : rest[i] \in Caller BY <2>4, <2>6, <1>0
  <2>8. rest \in Seq(Caller) /\ DOMAIN rest = 1..(Len(queue) - 1) BY <2>3, <2>7
  <2> HIDE DEF rest, Place2
  <2>9. \A i \in DOMAIN rest : rest[i] # c BY <2>1, <2>4, <2>6, <2>8 DEF OneSearchEach
  <2>10. \A i \in DOMAIN rest : \E j \in DOMAIN queue : rest[i] = queue[j]
    BY <2>4, <2>6, <2>8
  <2>11. \A i, j \in DOMAIN rest : rest[i] = rest[j] => i = j
    BY <2>4, <2>5, <2>6, <2>8 DEF OneSearchEach
  <2> QED BY <2>2, <2>8, <2>9, <2>10, <2>11
<1> QED BY <1>1, <1>2

LEMMA CancelInv == ASSUME ExecutorInv, NEW c \in Caller, Cancel(c) PROVE ExecutorInv'
<1> USE DEF ExecutorInv, Cancel, Released
<1>a. /\ queue' \in Seq(Caller)
      /\ \A i \in DOMAIN queue' : queue'[i] # c
      /\ \A i \in DOMAIN queue' : \E j \in DOMAIN queue : queue'[i] = queue[j]
      /\ \A i, j \in DOMAIN queue' : queue'[i] = queue'[j] => i = j
  BY DroppedFacts
<1>b. \A w \in Worker :
        /\ thread'[w].at = thread[w].at
        /\ thread'[w].for = IF thread[w].for = c THEN Nobody ELSE thread[w].for
        /\ thread'[w] \in [at : Place, for : Caller \cup {Nobody}]
  BY DEF TypeInv
<1>c. \A d \in Caller : answer'[d] = IF d = c THEN "none" ELSE answer[d] BY DEF TypeInv
<1>1. TypeInv'
  <2>1. permits' \in 0..MaxInFlight BY PermitBack
  <2>2. thread' \in [Worker -> [at : Place, for : Caller \cup {Nobody}]] BY <1>b
  <2> QED BY <2>1, <2>2, <1>a DEF TypeInv
<1>2. OneSearchEach'
  <2>1. \A i \in DOMAIN queue' : queue'[i] \in Caller BY <1>a
  <2>2. \A i \in DOMAIN queue' : answer'[queue'[i]] = "waiting"
    BY <1>a, <1>c, <2>1 DEF OneSearchEach
  <2>3. ASSUME NEW w \in Worker, thread'[w].for # Nobody
        PROVE  /\ answer'[thread'[w].for] = "waiting"
               /\ \A i \in DOMAIN queue' : queue'[i] # thread'[w].for
               /\ \A v \in Worker : thread'[v].for = thread'[w].for => v = w
    <3>1. thread'[w].for = thread[w].for /\ thread[w].for # c /\ thread[w].for # Nobody
      BY <1>b, <2>3
    <3>2. thread[w].for \in Caller BY <3>1 DEF TypeInv
    <3>3. answer'[thread'[w].for] = "waiting" BY <3>1, <3>2, <1>c DEF OneSearchEach
    <3>4. \A i \in DOMAIN queue' : queue'[i] # thread'[w].for
      BY <3>1, <1>a DEF OneSearchEach
    <3>5. \A v \in Worker : thread'[v].for = thread'[w].for => v = w
      BY <3>1, <1>b DEF OneSearchEach
    <3> QED BY <3>3, <3>4, <3>5
  <2> QED BY <2>2, <2>3, <1>a DEF OneSearchEach
<1>3. LockAccounts' BY <1>b DEF LockAccounts
<1>4. PermitsBalanced'
  <2>1. Cardinality(InFlight)' = Cardinality(InFlight) - 1 BY LeaveFlight
  <2> QED BY <2>1, InFlightFinite DEF PermitsBalanced, TypeInv
<1>5. LoadedOnce' BY <1>b DEF LoadedOnce
<1> QED BY <1>1, <1>2, <1>3, <1>4, <1>5

-----------------------------------------------------------------------------
(* The threads                                                             *)

\* A step that leaves the answers alone leaves the balance alone.
LEMMA BalanceKept ==
    ASSUME PermitsBalanced, permits' = permits, InFlight' = InFlight
    PROVE  PermitsBalanced'
BY DEF PermitsBalanced

LEMMA TakeInv == ASSUME ExecutorInv, NEW w \in Worker, Take(w) PROVE ExecutorInv'
<1> USE DEF ExecutorInv, Take
<1>a. /\ queue' \in Seq(Caller)
      /\ DOMAIN queue = 1..Len(queue) /\ Len(queue) \in Nat /\ Len(queue) # 0
      /\ DOMAIN queue' = 1..(Len(queue) - 1)
      /\ \A i \in DOMAIN queue' : queue'[i] = queue[i + 1]
      /\ queue[1] \in Caller
  BY DEF TypeInv
<1>b. \A v \in Worker : thread'[v] = IF v = w THEN [at |-> "check", for |-> queue[1]] ELSE thread[v]
  BY DEF TypeInv
<1>1. TypeInv'
  <2>1. thread' \in [Worker -> [at : Place, for : Caller \cup {Nobody}]]
    BY <1>a DEF TypeInv, Place
  <2> QED BY <2>1, <1>a DEF TypeInv
<1>2. OneSearchEach'
  <2>1. \A i \in DOMAIN queue' : i + 1 \in DOMAIN queue /\ i + 1 # 1 BY <1>a
  <2>2. \A i \in DOMAIN queue' : answer'[queue'[i]] = "waiting"
    BY <1>a, <2>1 DEF OneSearchEach
  <2>3. ASSUME NEW i \in DOMAIN queue', NEW j \in DOMAIN queue', queue'[i] = queue'[j]
        PROVE  i = j
    <3>1. i + 1 = j + 1 BY <1>a, <2>1, <2>3 DEF OneSearchEach
    <3> QED BY <3>1, <1>a
  <2>4. 1 \in DOMAIN queue BY <1>a
  <2>5. \A v \in Worker : thread[v].for # Nobody => thread[v].for # queue[1]
    BY <2>4 DEF OneSearchEach
  <2>6. ASSUME NEW u \in Worker, thread'[u].for # Nobody
        PROVE  /\ answer'[thread'[u].for] = "waiting"
               /\ \A i \in DOMAIN queue' : queue'[i] # thread'[u].for
               /\ \A v \in Worker : thread'[v].for = thread'[u].for => v = u
    <3>0. queue[1] # Nobody BY <1>a, ExecutorAssumption
    <3>1. CASE u = w
      <4>1. thread'[u].for = queue[1] BY <1>b, <3>1
      <4>2. answer'[queue[1]] = "waiting" BY <2>4 DEF OneSearchEach
      <4>3. \A i \in DOMAIN queue' : queue'[i] # queue[1]
        BY <1>a, <2>1, <2>4 DEF OneSearchEach
      <4>4. \A v \in Worker : thread'[v].for = queue[1] => v = w
        BY <1>b, <2>5, <3>0
      <4> QED BY <3>1, <4>1, <4>2, <4>3, <4>4
    <3>2. CASE u # w
      <4>1. thread'[u].for = thread[u].for /\ thread[u].for # Nobody BY <1>b, <3>2, <2>6
      <4>2. \A i \in DOMAIN queue' : queue'[i] # thread[u].for
        BY <4>1, <1>a, <2>1 DEF OneSearchEach
      <4>3. \A v \in Worker : thread'[v].for = thread[u].for => v = u
        BY <4>1, <1>b, <2>5 DEF OneSearchEach
      <4> QED BY <4>1, <4>2, <4>3 DEF OneSearchEach
    <3> QED BY <3>1, <3>2
  <2> QED BY <2>2, <2>3, <2>6 DEF OneSearchEach
<1>3. LockAccounts' BY <1>b DEF LockAccounts
<1>4. PermitsBalanced' BY BalanceKept DEF InFlight
<1>5. LoadedOnce' BY <1>b DEF LoadedOnce
<1> QED BY <1>1, <1>2, <1>3, <1>4, <1>5

\* A step that changes only where a thread is keeps who waits for what.
LEMMA MoveKept ==
    ASSUME TypeInv, OneSearchEach, NEW w \in Worker, NEW place \in Place,
           thread' = [thread EXCEPT ![w].at = place],
           UNCHANGED <<permits, queue, answer>>
    PROVE  /\ thread' \in [Worker -> [at : Place, for : Caller \cup {Nobody}]]
           /\ OneSearchEach'
           /\ \A v \in Worker : thread'[v].at = IF v = w THEN place ELSE thread[v].at
           /\ InFlight' = InFlight
<1>1. \A v \in Worker : /\ thread'[v].for = thread[v].for
                        /\ thread'[v].at = IF v = w THEN place ELSE thread[v].at
  BY DEF TypeInv
<1>2. thread' \in [Worker -> [at : Place, for : Caller \cup {Nobody}]] BY DEF TypeInv
<1>3. OneSearchEach' BY <1>1 DEF OneSearchEach
<1>4. InFlight' = InFlight BY DEF InFlight
<1> QED BY <1>1, <1>2, <1>3, <1>4

LEMMA CheckInv == ASSUME ExecutorInv, NEW w \in Worker, Check(w) PROVE ExecutorInv'
<1> USE DEF ExecutorInv, Check
<1> DEFINE place == IF loads > 0 THEN "search" ELSE "wait"
<1>0. place \in Place BY DEF Place
<1>1. /\ thread' \in [Worker -> [at : Place, for : Caller \cup {Nobody}]]
      /\ OneSearchEach'
      /\ \A v \in Worker : thread'[v].at = IF v = w THEN place ELSE thread[v].at
      /\ InFlight' = InFlight
  BY <1>0, MoveKept
<1>2. TypeInv' BY <1>1 DEF TypeInv
<1>3. LockAccounts' BY <1>1 DEF LockAccounts
<1>4. PermitsBalanced' BY <1>1, BalanceKept
<1>5. LoadedOnce' BY <1>1 DEF LoadedOnce, TypeInv
<1> QED BY <1>1, <1>2, <1>3, <1>4, <1>5

LEMMA EnterInv == ASSUME ExecutorInv, NEW w \in Worker, Enter(w) PROVE ExecutorInv'
<1> USE DEF ExecutorInv, Enter, MustLoad
<1> DEFINE place == IF loads = 0 THEN "load" ELSE "search"
<1>0. place \in Place BY DEF Place
<1>1. /\ thread' \in [Worker -> [at : Place, for : Caller \cup {Nobody}]]
      /\ OneSearchEach'
      /\ \A v \in Worker : thread'[v].at = IF v = w THEN place ELSE thread[v].at
      /\ InFlight' = InFlight
  BY <1>0, MoveKept
<1>2. TypeInv' BY <1>1 DEF TypeInv
<1>3. LockAccounts'
  <2>1. w # Nobody BY ExecutorAssumption
  <2>2. \A v \in Worker : thread[v].at # "load" BY ExecutorAssumption DEF LockAccounts
  <2> QED BY <1>1, <2>1, <2>2, ExecutorAssumption DEF LockAccounts
<1>4. PermitsBalanced' BY <1>1, BalanceKept
<1>5. LoadedOnce' BY <1>1 DEF LoadedOnce, TypeInv
<1> QED BY <1>1, <1>2, <1>3, <1>4, <1>5

LEMMA LoadInv == ASSUME ExecutorInv, NEW w \in Worker, Load(w) PROVE ExecutorInv'
<1> USE DEF ExecutorInv, Load
<1>0. lock = w /\ loads = 0 BY ExecutorAssumption DEF LockAccounts
<1>1. /\ thread' \in [Worker -> [at : Place, for : Caller \cup {Nobody}]]
      /\ OneSearchEach'
      /\ \A v \in Worker : thread'[v].at = IF v = w THEN "search" ELSE thread[v].at
      /\ InFlight' = InFlight
  BY MoveKept DEF Place
<1>2. TypeInv' BY <1>1 DEF TypeInv
<1>3. LockAccounts' BY <1>0, <1>1, ExecutorAssumption DEF LockAccounts
<1>4. PermitsBalanced' BY <1>1, BalanceKept
<1>5. LoadedOnce' BY <1>0, <1>1 DEF LoadedOnce
<1> QED BY <1>1, <1>2, <1>3, <1>4, <1>5

\* The end of a search keeps types, who waits for what, and the flight.
LEMMA EndKept ==
    ASSUME TypeInv, OneSearchEach, NEW w \in Worker, NEW result \in {"ok", "error"},
           End(w, result), UNCHANGED <<permits, queue>>
    PROVE  /\ thread' \in [Worker -> [at : Place, for : Caller \cup {Nobody}]]
           /\ answer' \in [Caller -> {"none", "waiting", "ok", "error"}]
           /\ OneSearchEach'
           /\ \A v \in Worker : thread'[v].at = IF v = w THEN "free" ELSE thread[v].at
           /\ InFlight' = InFlight
<1>1. \A v \in Worker : thread'[v] = IF v = w THEN Free ELSE thread[v] BY DEF End, TypeInv
<1>2. thread' \in [Worker -> [at : Place, for : Caller \cup {Nobody}]]
  BY DEF End, TypeInv, Free, Place
<1>3. answer' \in [Caller -> {"none", "waiting", "ok", "error"}] BY DEF End, TypeInv
<1>4. \A d \in Caller : d # thread[w].for => answer'[d] = answer[d] BY DEF End, TypeInv
<1>5. OneSearchEach'
  <2>1. \A i \in DOMAIN queue : queue[i] \in Caller /\ queue[i] # Nobody
    BY ExecutorAssumption DEF TypeInv
  <2>2. \A i \in DOMAIN queue : queue[i] # thread[w].for BY <2>1 DEF OneSearchEach
  <2>3. \A i \in DOMAIN queue : answer'[queue[i]] = "waiting"
    BY <2>1, <2>2, <1>4 DEF OneSearchEach
  <2>4. ASSUME NEW u \in Worker, thread'[u].for # Nobody
        PROVE  /\ answer'[thread'[u].for] = "waiting"
               /\ \A i \in DOMAIN queue' : queue'[i] # thread'[u].for
               /\ \A v \in Worker : thread'[v].for = thread'[u].for => v = u
    <3>1. u # w BY <2>4, <1>1 DEF Free
    <3>2. thread'[u] = thread[u] BY <3>1, <1>1
    <3>3. thread[u].for \in Caller /\ thread[u].for # Nobody BY <2>4, <3>2 DEF TypeInv
    <3>4. thread[u].for # thread[w].for BY <3>1, <3>3 DEF OneSearchEach
    <3>5. answer'[thread[u].for] = "waiting" BY <3>3, <3>4, <1>4 DEF OneSearchEach
    <3>6. \A i \in DOMAIN queue : queue[i] # thread[u].for BY <3>3 DEF OneSearchEach
    <3>7. \A v \in Worker : thread'[v].for = thread[u].for => v = u
      BY <3>3, <1>1 DEF OneSearchEach, Free
    <3> QED BY <3>2, <3>5, <3>6, <3>7
  <2> QED BY <2>3, <2>4 DEF OneSearchEach
<1>6. InFlight' = InFlight BY StayInFlight
<1>7. \A v \in Worker : thread'[v].at = IF v = w THEN "free" ELSE thread[v].at BY <1>1 DEF Free
<1> QED BY <1>2, <1>3, <1>5, <1>6, <1>7

LEMMA LoadFailsInv == ASSUME ExecutorInv, NEW w \in Worker, LoadFails(w) PROVE ExecutorInv'
<1> USE DEF ExecutorInv, LoadFails
<1>0. lock = w BY ExecutorAssumption DEF LockAccounts
<1>1. /\ thread' \in [Worker -> [at : Place, for : Caller \cup {Nobody}]]
      /\ answer' \in [Caller -> {"none", "waiting", "ok", "error"}]
      /\ OneSearchEach'
      /\ \A v \in Worker : thread'[v].at = IF v = w THEN "free" ELSE thread[v].at
      /\ InFlight' = InFlight
  BY EndKept
<1>2. TypeInv' BY <1>1 DEF TypeInv
<1>3. LockAccounts' BY <1>0, <1>1, ExecutorAssumption DEF LockAccounts
<1>4. PermitsBalanced' BY <1>1, BalanceKept
<1>5. LoadedOnce' BY <1>1 DEF LoadedOnce
<1> QED BY <1>1, <1>2, <1>3, <1>4, <1>5

LEMMA SearchInv == ASSUME ExecutorInv, NEW w \in Worker, Search(w) PROVE ExecutorInv'
<1> USE DEF ExecutorInv, Search
<1>0. PICK result \in {"ok", "error"} : End(w, result) OBVIOUS
<1>1. /\ thread' \in [Worker -> [at : Place, for : Caller \cup {Nobody}]]
      /\ answer' \in [Caller -> {"none", "waiting", "ok", "error"}]
      /\ OneSearchEach'
      /\ \A v \in Worker : thread'[v].at = IF v = w THEN "free" ELSE thread[v].at
      /\ InFlight' = InFlight
  BY <1>0, EndKept
<1>2. TypeInv' BY <1>1 DEF TypeInv
<1>3. LockAccounts' BY <1>1 DEF LockAccounts
<1>4. PermitsBalanced' BY <1>1, BalanceKept
<1>5. LoadedOnce' BY <1>1 DEF LoadedOnce
<1> QED BY <1>1, <1>2, <1>3, <1>4, <1>5

LEMMA StutterInv == ASSUME ExecutorInv, UNCHANGED executorVars PROVE ExecutorInv'
BY DEF ExecutorInv, TypeInv, OneSearchEach, LockAccounts, PermitsBalanced, InFlight,
       LoadedOnce, executorVars

LEMMA NextInv == ASSUME ExecutorInv, [ExecutorNext]_executorVars PROVE ExecutorInv'
<1>1. CASE UNCHANGED executorVars BY <1>1, StutterInv
<1>2. ASSUME NEW c \in Caller, Submit(c) \/ Resume(c) \/ Cancel(c) PROVE ExecutorInv'
  BY <1>2, SubmitInv, ResumeInv, CancelInv
<1>3. ASSUME NEW w \in Worker, Thread(w) PROVE ExecutorInv'
  BY <1>3, TakeInv, CheckInv, EnterInv, LoadInv, LoadFailsInv, SearchInv DEF Thread
<1> QED BY <1>1, <1>2, <1>3 DEF ExecutorNext

-----------------------------------------------------------------------------
(* The theorems                                                            *)

\* The invariant behind the others: every search in the queue or in a thread
\* has exactly one caller that waits for it (executor.py:41), and the lock is
\* held exactly by the thread that loads (client.py:243).
THEOREM ExecutorInvHolds == ExecutorSpec => []ExecutorInv
<1>1. ExecutorInit => ExecutorInv BY InitInv
<1>2. ExecutorInv /\ [ExecutorNext]_executorVars => ExecutorInv' BY NextInv
<1> QED BY <1>1, <1>2, PTL DEF ExecutorSpec

\* Every variable of the executor keeps its type; the semaphore is never
\* overdrawn nor filled above its permits (executor.py:36).
THEOREM ExecutorTypeCorrect == ExecutorSpec => []ExecutorTypeOK
<1>1. ExecutorInv => ExecutorTypeOK BY DEF ExecutorInv, TypeInv, ExecutorTypeOK
<1> QED BY <1>1, ExecutorInvHolds, PTL

\* No permit is lost or made, for any number of callers and threads, whichever
\* way the searches end (executor.py:53-61).
THEOREM SafePermitsBalanced == ExecutorSpec => []PermitsBalanced
<1>1. ExecutorInv => PermitsBalanced BY DEF ExecutorInv
<1> QED BY <1>1, ExecutorInvHolds, PTL

\* The collection is loaded once at most, and before every search, for any
\* number of threads that meet at it (client.py:239-250).
THEOREM SafeLoadedOnce == ExecutorSpec => []LoadedOnce
<1>1. ExecutorInv => LoadedOnce BY DEF ExecutorInv
<1> QED BY <1>1, ExecutorInvHolds, PTL
=============================================================================
