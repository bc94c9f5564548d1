------------------------- MODULE SandboxWorkerProofs -------------------------
(***************************************************************************)
(* The safety properties of the validator host, for any number of workers, *)
(* requests, claims and stores.  One worker at a time is past the lock; an *)
(* invariant per worker says what it may rely on where it stands, and the  *)
(* active row ties the launcher and the container of a job that is not     *)
(* settled to the store in which a later worker will look for it.          *)
(***************************************************************************)
EXTENDS SandboxWorker, FiniteSetTheorems, TLAPS

\* Only the holder of the lock is past it.
Locking(w) == pc[w] \in Owned => lock = w

\* What a cleanup returns to tells how far a worker had come.
Placing(w) ==
    /\ pc[w] \in {"new", "connect", "claim", "capture"} => after[w] = "claim"
    /\ pc[w] \in {"begin", "launch"} => after[w] = "begin"
    /\ pc[w] \in {"finish", "answer"} => after[w] = "answer"
    /\ pc[w] = "kill" => after[w] \in {"answer", "done"}
    /\ after[w] \in {"claim", "begin"} => launcher[w] = "none"

\* A worker past its first recovery works on the store of the directory.
Binding(w) == pc[w] \in Owned \ {"recover"} => bound = store[w]

\* The active row at each place.
Holding(w) ==
    /\ pc[w] \in {"launch", "finish", "kill"} => active.job = w
    /\ pc[w] \in {"recover", "remove", "sweep", "clear"} /\ after[w] = "answer" => active.job = w
    /\ pc[w] \in {"remove", "sweep", "clear"} => active.job \in Workers
    /\ pc[w] = "remove" => active.known
    /\ pc[w] \in {"sweep", "clear"} => ~Present(active.job) /\ launcher[active.job] # "alive"

\* An unsettled job is in the store of the directory, and a known container was there.
Tracked ==
    /\ active.job \in Workers => bound = store[active.job]
    /\ active.known => container[active.job] # "absent"

\* A container comes from a launcher that has created it; what is not active is gone.
Launching(w) ==
    /\ launcher[w] \in {"none", "alive"} => container[w] = "absent"
    /\ active.job # w => ~Present(w) /\ launcher[w] # "alive"

\* The worker has claimed its request.
Past(w) == pc[w] = "capture" \/ after[w] # "claim"

Claiming(w) ==
    /\ Past(w) => RequestOf[w] \in claimed
    /\ \A v \in Workers : Past(v) /\ Past(w) /\ RequestOf[v] = RequestOf[w] => v = w

\* What a receipt stands for until the worker answers, and after.
Passing(w) ==
    w \in passed =>
        /\ pc[w] \in {"kill", "recover", "remove", "sweep", "clear", "answer", "done"}
        /\ pc[w] # "done" => after[w] = "answer"
        /\ launcher[w] = "gone" /\ exit[w] = "ok"
        /\ container[w] \in {"exited", "removed"}
        /\ pc[w] \in {"kill", "recover", "remove"} => container[w] = "exited"
        /\ pc[w] \in {"sweep", "clear", "answer"} => container[w] = "removed"
        /\ pc[w] \in {"clear", "answer"} => w \notin snapshots
        /\ pc[w] = "answer" => active.job # w

Answering(w) ==
    w \in answered =>
        /\ pc[w] = "done"
        /\ exit[w] = "ok" /\ container[w] = "removed" /\ launcher[w] = "gone"
        /\ w \notin snapshots /\ active.job # w

WorkerInv(w) ==
    /\ Locking(w) /\ Placing(w) /\ Binding(w) /\ Holding(w) /\ Launching(w)
    /\ Claiming(w) /\ Passing(w) /\ Answering(w)

\* The inductive invariant.
SandboxInv == SandboxTypeOK /\ Tracked /\ \A w \in Workers : WorkerInv(w)

-----------------------------------------------------------------------------
\* The host at rest: nothing is launched, and nobody is past the lock.
LEMMA InitInv == Init => SandboxInv
<1> SUFFICES ASSUME Init PROVE SandboxInv
  OBVIOUS
<1>1. SandboxTypeOK
  BY NoneAssumption DEF Init, SandboxTypeOK, NoJob, Owned
<1>2. Tracked /\ \A w \in Workers : WorkerInv(w)
  BY NoneAssumption DEF Init, NoJob, Owned, Tracked, WorkerInv, Locking, Placing, Binding,
     Holding, Launching, Claiming, Past, Passing, Answering, Present
<1> QED
  BY <1>1, <1>2 DEF SandboxInv

-----------------------------------------------------------------------------
(* Each step keeps the invariant. *)

\* A delivery is read.
LEMMA ArriveKeeps ==
    ASSUME SandboxInv, NEW w \in Workers, Arrive(w)
    PROVE  SandboxInv'
<1>1. SandboxTypeOK'
  BY DEF SandboxInv, SandboxTypeOK, Arrive, At, Current, Goes, stateVars, podmanVars,
     Owned, NoJob
<1>2. Tracked'
  BY NoneAssumption, StoreAssumption DEF SandboxInv, SandboxTypeOK, Arrive, At, Current,
     Goes, stateVars, podmanVars, Owned, NoJob, Tracked, WorkerInv, Holding, Binding,
     Present
<1>3. ASSUME NEW v \in Workers PROVE WorkerInv(v)'
  BY NoneAssumption, StoreAssumption DEF SandboxInv, SandboxTypeOK, Arrive, At, Current,
     Goes, stateVars, podmanVars, Owned, NoJob, Tracked, WorkerInv, Locking, Placing,
     Binding, Holding, Launching, Claiming, Past, Passing, Answering, Present
<1> QED
  BY <1>1, <1>2, <1>3 DEF SandboxInv

\* The lock is taken by nobody else.
LEMMA ConnectKeeps ==
    ASSUME SandboxInv, NEW w \in Workers, Connect(w)
    PROVE  SandboxInv'
<1>1. SandboxTypeOK'
  BY DEF SandboxInv, SandboxTypeOK, Connect, At, Goes, podmanVars, Owned, NoJob
<1>2. Tracked'
  BY NoneAssumption, StoreAssumption DEF SandboxInv, SandboxTypeOK, Connect, At, Goes,
     podmanVars, Owned, NoJob, Tracked, WorkerInv, Holding, Binding, Present
<1>3. ASSUME NEW v \in Workers PROVE WorkerInv(v)'
  BY NoneAssumption, StoreAssumption DEF SandboxInv, SandboxTypeOK, Connect, At, Goes,
     podmanVars, Owned, NoJob, Tracked, WorkerInv, Locking, Placing, Binding, Holding,
     Launching, Claiming, Past, Passing, Answering, Present
<1> QED
  BY <1>1, <1>2, <1>3 DEF SandboxInv

\* The lock is held.
LEMMA ConnectRefusedKeeps ==
    ASSUME SandboxInv, NEW w \in Workers, ConnectRefused(w)
    PROVE  SandboxInv'
<1>1. SandboxTypeOK'
  BY DEF SandboxInv, SandboxTypeOK, ConnectRefused, At, Goes, stateVars, podmanVars,
     Owned, NoJob
<1>2. Tracked'
  BY NoneAssumption, StoreAssumption DEF SandboxInv, SandboxTypeOK, ConnectRefused, At,
     Goes, stateVars, podmanVars, Owned, NoJob, Tracked, WorkerInv, Holding, Binding,
     Present
<1>3. ASSUME NEW v \in Workers PROVE WorkerInv(v)'
  BY NoneAssumption, StoreAssumption DEF SandboxInv, SandboxTypeOK, ConnectRefused, At,
     Goes, stateVars, podmanVars, Owned, NoJob, Tracked, WorkerInv, Locking, Placing,
     Binding, Holding, Launching, Claiming, Past, Passing, Answering, Present
<1> QED
  BY <1>1, <1>2, <1>3 DEF SandboxInv

\* A nonce that no earlier worker claimed, so that no earlier worker is past its
\* claim of it.
LEMMA ClaimKeeps ==
    ASSUME SandboxInv, NEW w \in Workers, Claim(w)
    PROVE  SandboxInv'
<1>1. IsFiniteSet(claimed') /\ Cardinality(claimed') <= MaxClaims
  <2>1. /\ RequestOf[w] \notin claimed /\ claimed' = claimed \cup {RequestOf[w]}
        /\ IsFiniteSet(claimed) /\ Cardinality(claimed) < MaxClaims
    BY DEF SandboxInv, SandboxTypeOK, Claim
  <2>2. IsFiniteSet(claimed') /\ Cardinality(claimed') = Cardinality(claimed) + 1
    BY <2>1, FS_AddElement
  <2>3. Cardinality(claimed) \in Nat
    BY <2>1, FS_CardinalityType
  <2> QED
    BY <2>1, <2>2, <2>3, ClaimsAssumption
<1>2. SandboxTypeOK'
  BY <1>1, DeliveryAssumption DEF SandboxInv, SandboxTypeOK, Claim, At, Goes,
     podmanVars, Owned, NoJob
<1>3. Tracked'
  BY NoneAssumption, StoreAssumption DEF SandboxInv, SandboxTypeOK, Claim, At, Goes,
     podmanVars, Owned, NoJob, Tracked, WorkerInv, Holding, Binding, Present
<1>4. ASSUME NEW v \in Workers PROVE WorkerInv(v)'
  BY NoneAssumption, StoreAssumption DEF SandboxInv, SandboxTypeOK, Claim, At, Goes,
     podmanVars, Owned, NoJob, Tracked, WorkerInv, Locking, Placing, Binding, Holding,
     Launching, Claiming, Past, Passing, Answering, Present
<1> QED
  BY <1>2, <1>3, <1>4 DEF SandboxInv

\* The snapshot of the request.
LEMMA CaptureKeeps ==
    ASSUME SandboxInv, NEW w \in Workers, Capture(w)
    PROVE  SandboxInv'
<1>1. SandboxTypeOK'
  BY DEF SandboxInv, SandboxTypeOK, Capture, At, Current, Goes, stateVars, podmanVars,
     Owned, NoJob
<1>2. Tracked'
  BY NoneAssumption, StoreAssumption DEF SandboxInv, SandboxTypeOK, Capture, At,
     Current, Goes, stateVars, podmanVars, Owned, NoJob, Tracked, WorkerInv, Holding,
     Binding, Present
<1>3. ASSUME NEW v \in Workers PROVE WorkerInv(v)'
  BY NoneAssumption, StoreAssumption DEF SandboxInv, SandboxTypeOK, Capture, At,
     Current, Goes, stateVars, podmanVars, Owned, NoJob, Tracked, WorkerInv, Locking,
     Placing, Binding, Holding, Launching, Claiming, Past, Passing, Answering, Present
<1> QED
  BY <1>1, <1>2, <1>3 DEF SandboxInv

\* The row names the worker, whose launcher has not run.
LEMMA BeginKeeps ==
    ASSUME SandboxInv, NEW w \in Workers, Begin(w)
    PROVE  SandboxInv'
<1>1. SandboxTypeOK'
  BY DEF SandboxInv, SandboxTypeOK, Begin, At, NoJob, Goes, podmanVars, Owned
<1>2. Tracked'
  BY NoneAssumption, StoreAssumption DEF SandboxInv, SandboxTypeOK, Begin, At, NoJob,
     Goes, podmanVars, Owned, Tracked, WorkerInv, Holding, Binding, Present
<1>3. active.job = None
  BY DEF Begin, NoJob
<1>4. active'.job = w /\ ~active'.known
  BY DEF Begin
<1>5. ASSUME NEW v \in Workers PROVE WorkerInv(v)'
  BY <1>3, <1>4, NoneAssumption, StoreAssumption DEF SandboxInv, SandboxTypeOK, Begin,
     At, Goes, podmanVars, Owned, Tracked, WorkerInv, Locking, Placing, Binding,
     Holding, Launching, Claiming, Past, Passing, Answering, Present
<1> QED
  BY <1>1, <1>2, <1>5 DEF SandboxInv

\* Only the job of the active row gets a launcher.
LEMMA LaunchKeeps ==
    ASSUME SandboxInv, NEW w \in Workers, Launch(w)
    PROVE  SandboxInv'
<1>1. SandboxTypeOK'
  BY DEF SandboxInv, SandboxTypeOK, Launch, At, Goes, stateVars, Owned, NoJob
<1>2. Tracked'
  BY NoneAssumption, StoreAssumption DEF SandboxInv, SandboxTypeOK, Launch, At, Goes,
     stateVars, Owned, NoJob, Tracked, WorkerInv, Holding, Binding, Present
<1>3. ASSUME NEW v \in Workers PROVE WorkerInv(v)'
  BY NoneAssumption, StoreAssumption DEF SandboxInv, SandboxTypeOK, Launch, At, Goes,
     stateVars, Owned, NoJob, Tracked, WorkerInv, Locking, Placing, Binding, Holding,
     Launching, Claiming, Past, Passing, Answering, Present
<1> QED
  BY <1>1, <1>2, <1>3 DEF SandboxInv

\* There is no launcher and no container.
LEMMA LaunchFailsKeeps ==
    ASSUME SandboxInv, NEW w \in Workers, LaunchFails(w)
    PROVE  SandboxInv'
<1>1. SandboxTypeOK'
  BY DEF SandboxInv, SandboxTypeOK, LaunchFails, At, Goes, stateVars, podmanVars, Owned,
     NoJob
<1>2. Tracked'
  BY NoneAssumption, StoreAssumption DEF SandboxInv, SandboxTypeOK, LaunchFails, At,
     Goes, stateVars, podmanVars, Owned, NoJob, Tracked, WorkerInv, Holding, Binding,
     Present
<1>3. ASSUME NEW v \in Workers PROVE WorkerInv(v)'
  BY NoneAssumption, StoreAssumption DEF SandboxInv, SandboxTypeOK, LaunchFails, At,
     Goes, stateVars, podmanVars, Owned, NoJob, Tracked, WorkerInv, Locking, Placing,
     Binding, Holding, Launching, Claiming, Past, Passing, Answering, Present
<1> QED
  BY <1>1, <1>2, <1>3 DEF SandboxInv

\* A receipt stands for an exited container.
LEMMA FinishPassedKeeps ==
    ASSUME SandboxInv, NEW w \in Workers, FinishPassed(w)
    PROVE  SandboxInv'
<1>1. SandboxTypeOK'
  BY DEF SandboxInv, SandboxTypeOK, FinishPassed, At, Current, Goes, stateVars,
     podmanVars, Owned, NoJob
<1>2. Tracked'
  BY NoneAssumption, StoreAssumption DEF SandboxInv, SandboxTypeOK, FinishPassed, At,
     Current, Goes, stateVars, podmanVars, Owned, NoJob, Tracked, WorkerInv, Holding,
     Binding, Present
<1>3. ASSUME NEW v \in Workers PROVE WorkerInv(v)'
  BY NoneAssumption, StoreAssumption DEF SandboxInv, SandboxTypeOK, FinishPassed, At,
     Current, Goes, stateVars, podmanVars, Owned, NoJob, Tracked, WorkerInv, Locking,
     Placing, Binding, Holding, Launching, Claiming, Past, Passing, Answering, Present
<1> QED
  BY <1>1, <1>2, <1>3 DEF SandboxInv

\* No receipt.
LEMMA FinishFailedKeeps ==
    ASSUME SandboxInv, NEW w \in Workers, FinishFailed(w)
    PROVE  SandboxInv'
<1>1. SandboxTypeOK'
  BY DEF SandboxInv, SandboxTypeOK, FinishFailed, At, Goes, stateVars, podmanVars,
     Owned, NoJob
<1>2. Tracked'
  BY NoneAssumption, StoreAssumption DEF SandboxInv, SandboxTypeOK, FinishFailed, At,
     Goes, stateVars, podmanVars, Owned, NoJob, Tracked, WorkerInv, Holding, Binding,
     Present
<1>3. ASSUME NEW v \in Workers PROVE WorkerInv(v)'
  BY NoneAssumption, StoreAssumption DEF SandboxInv, SandboxTypeOK, FinishFailed, At,
     Goes, stateVars, podmanVars, Owned, NoJob, Tracked, WorkerInv, Locking, Placing,
     Binding, Holding, Launching, Claiming, Past, Passing, Answering, Present
<1> QED
  BY <1>1, <1>2, <1>3 DEF SandboxInv

\* Past the launch the launcher may be killed.
LEMMA KillKeeps ==
    ASSUME SandboxInv, NEW w \in Workers, Kill(w)
    PROVE  SandboxInv'
<1>1. SandboxTypeOK'
  BY DEF SandboxInv, SandboxTypeOK, Kill, At, Goes, stateVars, Owned, NoJob
<1>2. Tracked'
  BY NoneAssumption, StoreAssumption DEF SandboxInv, SandboxTypeOK, Kill, At, Goes,
     stateVars, Owned, NoJob, Tracked, WorkerInv, Holding, Binding, Present
<1>3. ASSUME NEW v \in Workers PROVE WorkerInv(v)'
  BY NoneAssumption, StoreAssumption DEF SandboxInv, SandboxTypeOK, Kill, At, Goes,
     stateVars, Owned, NoJob, Tracked, WorkerInv, Locking, Placing, Binding, Holding,
     Launching, Claiming, Past, Passing, Answering, Present
<1> QED
  BY <1>1, <1>2, <1>3 DEF SandboxInv

\* A response for a settled job.
LEMMA AnswerKeeps ==
    ASSUME SandboxInv, NEW w \in Workers, Answer(w)
    PROVE  SandboxInv'
<1>1. SandboxTypeOK'
  BY DEF SandboxInv, SandboxTypeOK, Answer, At, Current, Goes, podmanVars, Owned, NoJob
<1>2. Tracked'
  BY NoneAssumption, StoreAssumption DEF SandboxInv, SandboxTypeOK, Answer, At, Current,
     Goes, podmanVars, Owned, NoJob, Tracked, WorkerInv, Holding, Binding, Present
<1>3. ASSUME NEW v \in Workers PROVE WorkerInv(v)'
  BY NoneAssumption, StoreAssumption DEF SandboxInv, SandboxTypeOK, Answer, At, Current,
     Goes, podmanVars, Owned, NoJob, Tracked, WorkerInv, Locking, Placing, Binding,
     Holding, Launching, Claiming, Past, Passing, Answering, Present
<1> QED
  BY <1>1, <1>2, <1>3 DEF SandboxInv

\* The first worker binds the directory; nobody else is past the lock.
LEMMA BindRuntimeKeeps ==
    ASSUME SandboxInv, NEW w \in Workers, BindRuntime(w)
    PROVE  SandboxInv'
<1>1. SandboxTypeOK'
  BY StoreAssumption DEF SandboxInv, SandboxTypeOK, BindRuntime, At, NoJob, workerVars,
     podmanVars, Owned
<1>2. Tracked'
  BY NoneAssumption, StoreAssumption DEF SandboxInv, SandboxTypeOK, BindRuntime, At,
     NoJob, workerVars, podmanVars, Owned, Tracked, WorkerInv, Holding, Binding, Present
<1>3. ASSUME NEW v \in Workers PROVE WorkerInv(v)'
  BY NoneAssumption, StoreAssumption DEF SandboxInv, SandboxTypeOK, BindRuntime, At,
     NoJob, workerVars, podmanVars, Owned, Tracked, WorkerInv, Locking, Placing,
     Binding, Holding, Launching, Claiming, Past, Passing, Answering, Present
<1> QED
  BY <1>1, <1>2, <1>3 DEF SandboxInv

\* A worker with a job of its own never finds the row empty.
LEMMA NothingPendingKeeps ==
    ASSUME SandboxInv, NEW w \in Workers, NothingPending(w)
    PROVE  SandboxInv'
<1>1. SandboxTypeOK'
  BY DEF SandboxInv, SandboxTypeOK, NothingPending, At, OnBoundStore, NoJob, Returns,
     Goes, podmanVars, Owned
<1>2. Tracked'
  BY NoneAssumption, StoreAssumption DEF SandboxInv, SandboxTypeOK, NothingPending, At,
     OnBoundStore, NoJob, Returns, Goes, podmanVars, Owned, Tracked, WorkerInv, Holding,
     Binding, Present
<1>3. active.job = None
  BY DEF NothingPending, NoJob
<1>4. ASSUME NEW v \in Workers PROVE WorkerInv(v)'
  BY <1>3, NoneAssumption, StoreAssumption DEF SandboxInv, SandboxTypeOK,
     NothingPending, At, OnBoundStore, Returns, Goes, podmanVars, Owned, Tracked,
     WorkerInv, Locking, Placing, Binding, Holding, Launching, Claiming, Past, Passing,
     Answering, Present
<1> QED
  BY <1>1, <1>2, <1>4 DEF SandboxInv

\* The container exists, so it is known from here on.
LEMMA FindContainerKeeps ==
    ASSUME SandboxInv, NEW w \in Workers, FindContainer(w)
    PROVE  SandboxInv'
<1>1. SandboxTypeOK'
  BY DEF SandboxInv, SandboxTypeOK, FindContainer, At, OnBoundStore, NoJob, Sees,
     Present, Goes, podmanVars, Owned, WorkerInv, Holding
<1>2. Tracked'
  BY NoneAssumption, StoreAssumption DEF SandboxInv, SandboxTypeOK, FindContainer, At,
     OnBoundStore, NoJob, Sees, Present, Goes, podmanVars, Owned, Tracked, WorkerInv,
     Holding, Binding
<1>3. ASSUME NEW v \in Workers PROVE WorkerInv(v)'
  BY NoneAssumption, StoreAssumption DEF SandboxInv, SandboxTypeOK, FindContainer, At,
     OnBoundStore, NoJob, Sees, Present, Goes, podmanVars, Owned, Tracked, WorkerInv,
     Locking, Placing, Binding, Holding, Launching, Claiming, Past, Passing, Answering
<1> QED
  BY <1>1, <1>2, <1>3 DEF SandboxInv

\* On the bound store, a container that was known and is absent is gone.
LEMMA MissContainerKeeps ==
    ASSUME SandboxInv, NEW w \in Workers, MissContainer(w)
    PROVE  SandboxInv'
<1>1. SandboxTypeOK'
  BY DEF SandboxInv, SandboxTypeOK, MissContainer, At, OnBoundStore, NoJob, Sees,
     Present, Goes, stateVars, podmanVars, Owned
<1>2. Tracked'
  BY NoneAssumption, StoreAssumption DEF SandboxInv, SandboxTypeOK, MissContainer, At,
     OnBoundStore, NoJob, Sees, Present, Goes, stateVars, podmanVars, Owned, Tracked,
     WorkerInv, Holding, Binding
<1>3. ASSUME NEW v \in Workers PROVE WorkerInv(v)'
  BY NoneAssumption, StoreAssumption DEF SandboxInv, SandboxTypeOK, MissContainer, At,
     OnBoundStore, NoJob, Sees, Present, Goes, stateVars, podmanVars, Owned, Tracked,
     WorkerInv, Locking, Placing, Binding, Holding, Launching, Claiming, Past, Passing,
     Answering
<1> QED
  BY <1>1, <1>2, <1>3 DEF SandboxInv

\* The container goes; its launcher has created it.
LEMMA RemoveKeeps ==
    ASSUME SandboxInv, NEW w \in Workers, Remove(w)
    PROVE  SandboxInv'
<1>1. SandboxTypeOK'
  BY DEF SandboxInv, SandboxTypeOK, Remove, At, Goes, stateVars, Owned, NoJob,
     WorkerInv, Holding
<1>2. Tracked'
  BY NoneAssumption, StoreAssumption DEF SandboxInv, SandboxTypeOK, Remove, At, Goes,
     stateVars, Owned, NoJob, Tracked, WorkerInv, Holding, Binding, Present
<1>3. ASSUME NEW v \in Workers PROVE WorkerInv(v)'
  BY NoneAssumption, StoreAssumption DEF SandboxInv, SandboxTypeOK, Remove, At, Goes,
     stateVars, Owned, NoJob, Tracked, WorkerInv, Locking, Placing, Binding, Holding,
     Launching, Claiming, Past, Passing, Answering, Present
<1> QED
  BY <1>1, <1>2, <1>3 DEF SandboxInv

\* The snapshot of the job goes.
LEMMA SweepKeeps ==
    ASSUME SandboxInv, NEW w \in Workers, Sweep(w)
    PROVE  SandboxInv'
<1>1. SandboxTypeOK'
  BY DEF SandboxInv, SandboxTypeOK, Sweep, At, Goes, stateVars, podmanVars, Owned,
     NoJob, WorkerInv, Holding
<1>2. Tracked'
  BY NoneAssumption, StoreAssumption DEF SandboxInv, SandboxTypeOK, Sweep, At, Goes,
     stateVars, podmanVars, Owned, NoJob, Tracked, WorkerInv, Holding, Binding, Present
<1>3. ASSUME NEW v \in Workers PROVE WorkerInv(v)'
  BY NoneAssumption, StoreAssumption DEF SandboxInv, SandboxTypeOK, Sweep, At, Goes,
     stateVars, podmanVars, Owned, NoJob, Tracked, WorkerInv, Locking, Placing, Binding,
     Holding, Launching, Claiming, Past, Passing, Answering, Present
<1> QED
  BY <1>1, <1>2, <1>3 DEF SandboxInv

\* What the row named is settled.
LEMMA ClearKeeps ==
    ASSUME SandboxInv, NEW w \in Workers, Clear(w)
    PROVE  SandboxInv'
<1>1. SandboxTypeOK'
  BY DEF SandboxInv, SandboxTypeOK, Clear, At, NoJob, Returns, Goes, podmanVars, Owned
<1>2. Tracked'
  BY NoneAssumption, StoreAssumption DEF SandboxInv, SandboxTypeOK, Clear, At, NoJob,
     Returns, Goes, podmanVars, Owned, Tracked, WorkerInv, Holding, Binding, Present
<1>3. ASSUME NEW v \in Workers PROVE WorkerInv(v)'
  BY NoneAssumption, StoreAssumption DEF SandboxInv, SandboxTypeOK, Clear, At, NoJob,
     Returns, Goes, podmanVars, Owned, Tracked, WorkerInv, Locking, Placing, Binding,
     Holding, Launching, Claiming, Past, Passing, Answering, Present
<1> QED
  BY <1>1, <1>2, <1>3 DEF SandboxInv

\* Whatever the first cleanup did, the row is still there, and the receipt is not.
LEMMA CleanUpAgainKeeps ==
    ASSUME SandboxInv, NEW w \in Workers, CleanUpAgain(w)
    PROVE  SandboxInv'
<1>1. SandboxTypeOK'
  BY DEF SandboxInv, SandboxTypeOK, CleanUpAgain, InValidate, Goes, At, stateVars,
     Owned, NoJob, WorkerInv, Holding
<1>2. Tracked'
  BY NoneAssumption, StoreAssumption DEF SandboxInv, SandboxTypeOK, CleanUpAgain,
     InValidate, Goes, At, stateVars, Owned, NoJob, Tracked, WorkerInv, Holding,
     Binding, Present
<1>3. ASSUME NEW v \in Workers PROVE WorkerInv(v)'
  BY NoneAssumption, StoreAssumption DEF SandboxInv, SandboxTypeOK, CleanUpAgain,
     InValidate, Goes, At, stateVars, Owned, NoJob, Tracked, WorkerInv, Locking,
     Placing, Binding, Holding, Launching, Claiming, Past, Passing, Answering, Present
<1> QED
  BY <1>1, <1>2, <1>3 DEF SandboxInv

\* The row outlives the worker, and so may the container.
LEMMA ErrorReturnKeeps ==
    ASSUME SandboxInv, NEW w \in Workers, ErrorReturn(w)
    PROVE  SandboxInv'
<1>1. SandboxTypeOK'
  BY DEF SandboxInv, SandboxTypeOK, ErrorReturn, Goes, Owned, NoJob
<1>2. Tracked'
  BY NoneAssumption, StoreAssumption DEF SandboxInv, SandboxTypeOK, ErrorReturn, Goes,
     Owned, NoJob, Tracked, WorkerInv, Holding, Binding, Present
<1>3. ASSUME NEW v \in Workers PROVE WorkerInv(v)'
  BY NoneAssumption, StoreAssumption DEF SandboxInv, SandboxTypeOK, ErrorReturn, Goes,
     Owned, NoJob, Tracked, WorkerInv, Locking, Placing, Binding, Holding, Launching,
     Claiming, Past, Passing, Answering, Present
<1> QED
  BY <1>1, <1>2, <1>3 DEF SandboxInv

\* The launcher lives on, under the row.
LEMMA CrashKeeps ==
    ASSUME SandboxInv, NEW w \in Workers, Crash(w)
    PROVE  SandboxInv'
<1>1. SandboxTypeOK'
  BY DEF SandboxInv, SandboxTypeOK, Crash, Owned, Goes, podmanVars, NoJob
<1>2. Tracked'
  BY NoneAssumption, StoreAssumption DEF SandboxInv, SandboxTypeOK, Crash, Owned, Goes,
     podmanVars, NoJob, Tracked, WorkerInv, Holding, Binding, Present
<1>3. ASSUME NEW v \in Workers PROVE WorkerInv(v)'
  BY NoneAssumption, StoreAssumption DEF SandboxInv, SandboxTypeOK, Crash, Owned, Goes,
     podmanVars, NoJob, Tracked, WorkerInv, Locking, Placing, Binding, Holding,
     Launching, Claiming, Past, Passing, Answering, Present
<1> QED
  BY <1>1, <1>2, <1>3 DEF SandboxInv

\* A launcher that can create is that of the active row.
LEMMA CreateContainerKeeps ==
    ASSUME SandboxInv, NEW w \in Workers, CreateContainer(w)
    PROVE  SandboxInv'
<1>1. SandboxTypeOK'
  BY DEF SandboxInv, SandboxTypeOK, CreateContainer, workerVars, stateVars, Owned, NoJob
<1>2. Tracked'
  BY NoneAssumption, StoreAssumption DEF SandboxInv, SandboxTypeOK, CreateContainer,
     workerVars, stateVars, Owned, NoJob, Tracked, WorkerInv, Holding, Binding, Present
<1>3. ASSUME NEW v \in Workers PROVE WorkerInv(v)'
  BY NoneAssumption, StoreAssumption DEF SandboxInv, SandboxTypeOK, CreateContainer,
     workerVars, stateVars, Owned, NoJob, Tracked, WorkerInv, Locking, Placing, Binding,
     Holding, Launching, Claiming, Past, Passing, Answering, Present
<1> QED
  BY <1>1, <1>2, <1>3 DEF SandboxInv

\* A running container exits.
LEMMA ContainerExitsKeeps ==
    ASSUME SandboxInv, NEW w \in Workers, ContainerExits(w)
    PROVE  SandboxInv'
<1>1. SandboxTypeOK'
  BY DEF SandboxInv, SandboxTypeOK, ContainerExits, workerVars, stateVars, Owned, NoJob
<1>2. Tracked'
  BY NoneAssumption, StoreAssumption DEF SandboxInv, SandboxTypeOK, ContainerExits,
     workerVars, stateVars, Owned, NoJob, Tracked, WorkerInv, Holding, Binding, Present
<1>3. ASSUME NEW v \in Workers PROVE WorkerInv(v)'
  BY NoneAssumption, StoreAssumption DEF SandboxInv, SandboxTypeOK, ContainerExits,
     workerVars, stateVars, Owned, NoJob, Tracked, WorkerInv, Locking, Placing, Binding,
     Holding, Launching, Claiming, Past, Passing, Answering, Present
<1> QED
  BY <1>1, <1>2, <1>3 DEF SandboxInv

\* A launcher that ends creates nothing.
LEMMA LauncherExitsKeeps ==
    ASSUME SandboxInv, NEW w \in Workers, LauncherExits(w)
    PROVE  SandboxInv'
<1>1. SandboxTypeOK'
  BY DEF SandboxInv, SandboxTypeOK, LauncherExits, workerVars, stateVars, Owned, NoJob
<1>2. Tracked'
  BY NoneAssumption, StoreAssumption DEF SandboxInv, SandboxTypeOK, LauncherExits,
     workerVars, stateVars, Owned, NoJob, Tracked, WorkerInv, Holding, Binding, Present
<1>3. ASSUME NEW v \in Workers PROVE WorkerInv(v)'
  BY NoneAssumption, StoreAssumption DEF SandboxInv, SandboxTypeOK, LauncherExits,
     workerVars, stateVars, Owned, NoJob, Tracked, WorkerInv, Locking, Placing, Binding,
     Holding, Launching, Claiming, Past, Passing, Answering, Present
<1> QED
  BY <1>1, <1>2, <1>3 DEF SandboxInv

\* The clock moves nothing but the deadlines.
LEMMA DeadlineKeeps ==
    ASSUME SandboxInv, NEW w \in Workers, Deadline(RequestOf[w])
    PROVE  SandboxInv'
<1>1. SandboxTypeOK'
  BY DeliveryAssumption DEF SandboxInv, SandboxTypeOK, Deadline, workerVars, stateVars,
     podmanVars
<1>2. Tracked'
  BY DEF SandboxInv, Tracked, Deadline, stateVars, podmanVars
<1>3. ASSUME NEW v \in Workers PROVE WorkerInv(v)'
  BY DEF SandboxInv, Deadline, workerVars, stateVars, podmanVars, WorkerInv, Locking,
     Placing, Binding, Holding, Launching, Claiming, Past, Passing, Answering, Present
<1> QED
  BY <1>1, <1>2, <1>3 DEF SandboxInv

LEMMA StutterKeeps == SandboxInv /\ UNCHANGED vars => SandboxInv'
<1> SUFFICES ASSUME SandboxInv, UNCHANGED vars PROVE SandboxInv'
  OBVIOUS
<1>1. SandboxTypeOK'
  BY DEF SandboxInv, SandboxTypeOK, vars, workerVars, stateVars, podmanVars
<1>2. Tracked'
  BY DEF SandboxInv, Tracked, vars, stateVars, podmanVars
<1>3. ASSUME NEW v \in Workers PROVE WorkerInv(v)'
  BY DEF SandboxInv, vars, workerVars, stateVars, podmanVars, WorkerInv, Locking,
     Placing, Binding, Holding, Launching, Claiming, Past, Passing, Answering, Present
<1> QED
  BY <1>1, <1>2, <1>3 DEF SandboxInv

LEMMA WorkerKeeps ==
    ASSUME SandboxInv, NEW w \in Workers, Step(w) \/ Fail(w) \/ Crash(w)
    PROVE  SandboxInv'
<1>1. CASE Refuse(w) \/ Fail(w)
  BY <1>1, ErrorReturnKeeps DEF Refuse, Fail
<1>2. CASE Crash(w)
  BY <1>2, CrashKeeps
<1>3. CASE Step(w) /\ ~Refuse(w)
  BY <1>3, ArriveKeeps, ConnectKeeps, ConnectRefusedKeeps, ClaimKeeps, CaptureKeeps,
     BeginKeeps, LaunchKeeps, LaunchFailsKeeps, FinishPassedKeeps, FinishFailedKeeps,
     KillKeeps, AnswerKeeps, BindRuntimeKeeps, NothingPendingKeeps, FindContainerKeeps,
     MissContainerKeeps, RemoveKeeps, SweepKeeps, ClearKeeps, CleanUpAgainKeeps DEF Step
<1> QED
  BY <1>1, <1>2, <1>3

LEMMA StepKeeps == SandboxInv /\ [Next]_vars => SandboxInv'
<1> SUFFICES ASSUME SandboxInv, [Next]_vars PROVE SandboxInv'
  OBVIOUS
<1>1. CASE \E w \in Workers : Step(w) \/ Fail(w) \/ Crash(w)
  BY <1>1, WorkerKeeps
<1>2. CASE \E w \in Workers : CreateContainer(w) \/ ContainerExits(w) \/ LauncherExits(w)
  BY <1>2, CreateContainerKeeps, ContainerExitsKeeps, LauncherExitsKeeps
<1>3. CASE \E w \in Workers : Deadline(RequestOf[w])
  BY <1>3, DeadlineKeeps
<1>4. CASE UNCHANGED vars
  BY <1>4, StutterKeeps
<1> QED
  BY <1>1, <1>2, <1>3, <1>4 DEF Next

-----------------------------------------------------------------------------
\* The invariant holds in every reachable state, for any workers, requests,
\* claims and stores.
THEOREM SandboxInvariant == Spec => []SandboxInv
  BY InitInv, StepKeeps, PTL DEF Spec

\* The state of the validator host keeps its types; the claims stay within their
\* bound (claim_request).
THEOREM TypeCorrect == Spec => []SandboxTypeOK
<1>1. SandboxInv => SandboxTypeOK
  BY DEF SandboxInv
<1> QED
  BY <1>1, SandboxInvariant, PTL

\* What the active row does not name is gone for good: no container, and no
\* launcher that could create one (begin, recover_pending, clear).
THEOREM NothingLeftBehind == Spec => []SettledMeansGone
<1>1. SandboxInv => SettledMeansGone
  BY DEF SandboxInv, WorkerInv, Launching, SettledMeansGone
<1> QED
  BY <1>1, SandboxInvariant, PTL

\* A request is launched at most once, by whichever worker claimed it.
THEOREM RequestsLaunchedOnce == Spec => []LaunchedOnce
<1>1. SandboxInv => LaunchedOnce
  BY DEF SandboxInv, SandboxTypeOK, WorkerInv, Placing, Claiming, Past, LaunchedOnce
<1> QED
  BY <1>1, SandboxInvariant, PTL

\* A response stands for a container that passed and is gone (validate, serve_worker).
THEOREM AnswersForSettledJobs == Spec => []AnswersAreSettled
<1>1. SandboxInv => AnswersAreSettled
  BY DEF SandboxInv, SandboxTypeOK, WorkerInv, Answering, AnswersAreSettled
<1> QED
  BY <1>1, SandboxInvariant, PTL

=============================================================================
