--------------------------- MODULE SandboxWorker ---------------------------
(***************************************************************************)
(* The validator host (src/gitops/sandbox/runner.rs, jobs.rs, and          *)
(* serve_worker in runner/remote.rs): every delivery of a validation       *)
(* request starts one worker process, which takes the state directory,     *)
(* removes what an earlier process left, claims the request, runs one      *)
(* container through a Podman launcher, and answers only after the         *)
(* container is gone.  A process may die anywhere; its launcher and its    *)
(* container then live on.                                                 *)
(*                                                                         *)
(* A worker begins at most one job, so the worker names the job, its       *)
(* launcher, its container and its snapshot: the name and token that begin *)
(* draws are never drawn twice.  Every Podman call, file operation and     *)
(* commit may fail, and a failure ends the process with an error: Fail.    *)
(***************************************************************************)
EXTENDS Naturals, FiniteSets

CONSTANTS
    Workers,      \* worker processes, one per delivery
    Requests,     \* nonces
    RequestOf,    \* the request each delivery carries
    MaxClaims,    \* rows of the requests table
    Stores,       \* Podman stores a worker may be configured with
    StoreMaps,    \* how the workers are configured
    None

ASSUME DeliveryAssumption == RequestOf \in [Workers -> Requests]
ASSUME ClaimsAssumption == MaxClaims \in Nat
ASSUME StoreAssumption == StoreMaps \subseteq [Workers -> Stores]
ASSUME NoneAssumption == None \notin Workers \cup Stores

VARIABLES
    pc,         \* each worker's place
    after,      \* where it goes on after a cleanup
    passed,     \* workers whose finish produced a receipt
    lock,       \* the holder of owner.sqlite, or None
    claimed,    \* the requests table
    bound,      \* the runtime table: the store this directory belongs to, or None
    active,     \* the active row: its job, and whether the container's id is known
    store,      \* the Podman store of each worker, where its container is
    launcher,   \* none, alive (its container not yet created), attached, or gone
    container,  \* absent, running, exited or removed
    exit,       \* how the container ended: none, ok or bad
    snapshots,  \* workers whose snapshot directory exists
    expired,    \* requests whose deadline passed
    answered    \* workers that wrote a response

workerVars == <<pc, after, passed>>
stateVars == <<lock, claimed, bound, active>>
podmanVars == <<store, launcher, container, exit>>
vars == <<workerVars, stateVars, podmanVars, snapshots, expired, answered>>

NoJob == [job |-> None, known |-> FALSE]

Owned == {"recover", "remove", "sweep", "clear", "claim", "capture", "begin", "launch",
          "finish", "kill", "answer"}

SandboxTypeOK ==
    /\ pc \in [Workers -> {"new", "connect", "done"} \cup Owned]
    /\ after \in [Workers -> {"claim", "begin", "answer", "done"}]
    /\ passed \subseteq Workers
    /\ lock \in Workers \cup {None}
    /\ claimed \subseteq Requests
    /\ IsFiniteSet(claimed) /\ Cardinality(claimed) <= MaxClaims
    /\ bound \in Stores \cup {None}
    /\ active \in [job : Workers, known : BOOLEAN] \cup {NoJob}
    /\ store \in StoreMaps
    /\ launcher \in [Workers -> {"none", "alive", "attached", "gone"}]
    /\ container \in [Workers -> {"absent", "running", "exited", "removed"}]
    /\ exit \in [Workers -> {"none", "ok", "bad"}]
    /\ snapshots \subseteq Workers
    /\ expired \subseteq Requests
    /\ answered \subseteq Workers

\* The host at rest, with the claims of earlier deliveries.
Init ==
    /\ pc = [w \in Workers |-> "new"]
    /\ after = [w \in Workers |-> "claim"]
    /\ passed = {}
    /\ lock = None
    /\ claimed \in {c \in SUBSET Requests : IsFiniteSet(c) /\ Cardinality(c) <= MaxClaims}
    /\ bound = None
    /\ active = NoJob
    /\ store \in StoreMaps
    /\ launcher = [w \in Workers |-> "none"]
    /\ container = [w \in Workers |-> "absent"]
    /\ exit = [w \in Workers |-> "none"]
    /\ snapshots = {}
    /\ expired = {}
    /\ answered = {}

At(w, p) == pc[w] = p

Goes(w, p) == pc' = [pc EXCEPT ![w] = p]

\* RemoteJob::check: the request is not past its deadline.
Current(w) == RequestOf[w] \notin expired

Present(w) == container[w] \in {"running", "exited"}

\* podman container exists: a worker sees the containers of its own store.
Sees(w, v) == store[w] = store[v] /\ Present(v)

-----------------------------------------------------------------------------
(* Admission *)

\* The frame is read and checked.
Arrive(w) ==
    /\ At(w, "new")
    /\ Current(w)
    /\ Goes(w, "connect")
    /\ UNCHANGED <<after, passed, stateVars, podmanVars, snapshots, expired, answered>>

\* JobStore::open: the exclusive lock is tried once.
Connect(w) ==
    /\ At(w, "connect")
    /\ lock = None
    /\ lock' = w
    /\ Goes(w, "recover")
    /\ UNCHANGED <<after, passed, claimed, bound, active, podmanVars, snapshots, expired, answered>>

ConnectRefused(w) ==
    /\ At(w, "connect")
    /\ lock # None
    /\ Goes(w, "done")
    /\ UNCHANGED <<after, passed, stateVars, podmanVars, snapshots, expired, answered>>

\* A claim that counts no rows.
ClaimUncounted(w) ==
    /\ At(w, "claim")
    /\ RequestOf[w] \notin claimed
    /\ claimed' = claimed \cup {RequestOf[w]}
    /\ Goes(w, "capture")
    /\ UNCHANGED <<after, passed, lock, bound, active, podmanVars, snapshots, expired, answered>>

\* A claim that takes a nonce it has seen for its own.
ClaimTwice(w) ==
    /\ At(w, "claim")
    /\ Cardinality(claimed) < MaxClaims
    /\ claimed' = claimed \cup {RequestOf[w]}
    /\ Goes(w, "capture")
    /\ UNCHANGED <<after, passed, lock, bound, active, podmanVars, snapshots, expired, answered>>

\* claim_request: once per nonce, for good; a full table refuses.
Claim(w) ==
    /\ At(w, "claim")
    /\ RequestOf[w] \notin claimed
    /\ Cardinality(claimed) < MaxClaims
    /\ claimed' = claimed \cup {RequestOf[w]}
    /\ Goes(w, "capture")
    /\ UNCHANGED <<after, passed, lock, bound, active, podmanVars, snapshots, expired, answered>>

\* The snapshot is captured and the deadline checked again; validate first cleans up.
Capture(w) ==
    /\ At(w, "capture")
    /\ Current(w)
    /\ snapshots' = snapshots \cup {w}
    /\ after' = [after EXCEPT ![w] = "begin"]
    /\ Goes(w, "recover")
    /\ UNCHANGED <<passed, stateVars, podmanVars, expired, answered>>

-----------------------------------------------------------------------------
(* The job *)

\* begin: the intent is durable before anything is started; the table holds one row.
Begin(w) ==
    /\ At(w, "begin")
    /\ active = NoJob
    /\ active' = [job |-> w, known |-> FALSE]
    /\ Goes(w, "launch")
    /\ UNCHANGED <<after, passed, lock, claimed, bound, podmanVars, snapshots, expired, answered>>

Launch(w) ==
    /\ At(w, "launch")
    /\ launcher' = [launcher EXCEPT ![w] = "alive"]
    /\ after' = [after EXCEPT ![w] = "answer"]
    /\ Goes(w, "finish")
    /\ UNCHANGED <<passed, stateVars, store, container, exit, snapshots, expired, answered>>

\* A failed spawn proves that nothing runs: the snapshot goes and the row with it.
LaunchFails(w) ==
    /\ At(w, "launch")
    /\ after' = [after EXCEPT ![w] = "done"]
    /\ Goes(w, "sweep")
    /\ UNCHANGED <<passed, stateVars, podmanVars, snapshots, expired, answered>>

\* A finish that answers before the cleanup.
FinishAnswers(w) ==
    /\ At(w, "finish")
    /\ Current(w)
    /\ launcher[w] = "gone"
    /\ container[w] = "exited" /\ exit[w] = "ok"
    /\ passed' = passed \cup {w}
    /\ Goes(w, "answer")
    /\ UNCHANGED <<after, stateVars, podmanVars, snapshots, expired, answered>>

\* finish: the launcher ended well and the container exited with 0.
FinishPassed(w) ==
    /\ At(w, "finish")
    /\ Current(w)
    /\ launcher[w] = "gone"
    /\ container[w] = "exited" /\ exit[w] = "ok"
    /\ passed' = passed \cup {w}
    /\ Goes(w, "kill")
    /\ UNCHANGED <<after, stateVars, podmanVars, snapshots, expired, answered>>

\* A wait for the launcher that has no limit.
FinishUnlimited(w) ==
    /\ At(w, "finish")
    /\ launcher[w] = "gone"
    /\ Goes(w, "kill")
    /\ UNCHANGED <<after, passed, stateVars, podmanVars, snapshots, expired, answered>>

\* A bad end, too much output, the job's time or the request's deadline.
FinishFailed(w) ==
    /\ At(w, "finish")
    /\ Goes(w, "kill")
    /\ UNCHANGED <<after, passed, stateVars, podmanVars, snapshots, expired, answered>>

\* cleanup: the launcher is killed and waited for.
Kill(w) ==
    /\ At(w, "kill")
    /\ launcher' = [launcher EXCEPT ![w] = "gone"]
    /\ Goes(w, "recover")
    /\ UNCHANGED <<after, passed, stateVars, store, container, exit, snapshots, expired, answered>>

\* The response is written if a receipt was made and the deadline still holds.
Answer(w) ==
    /\ At(w, "answer")
    /\ answered' = IF w \in passed /\ Current(w) THEN answered \cup {w} ELSE answered
    /\ Goes(w, "done")
    /\ lock' = None
    /\ UNCHANGED <<after, passed, claimed, bound, active, podmanVars, snapshots, expired>>

-----------------------------------------------------------------------------
(* Recovery of the active row: recover_pending *)

\* Where the cleanup returns to; a failed launch is an error and ends the process.
Returns(w) ==
    /\ Goes(w, after[w])
    /\ lock' = IF after[w] = "done" THEN None ELSE lock

\* A recovery that looks at whatever store it is configured with.
OnAnyStore(w) == TRUE

\* bind_runtime: the directory belongs to one store for good.
OnBoundStore(w) == bound = store[w]

BindRuntime(w) ==
    /\ At(w, "recover")
    /\ bound = None
    /\ active = NoJob
    /\ bound' = store[w]
    /\ UNCHANGED <<workerVars, lock, claimed, active, podmanVars, snapshots, expired, answered>>

NothingPending(w) ==
    /\ At(w, "recover")
    /\ OnBoundStore(w)
    /\ active = NoJob
    /\ Returns(w)
    /\ UNCHANGED <<after, passed, claimed, bound, active, podmanVars, snapshots, expired, answered>>

\* The container is there: its identity is stored before it is removed.
FindContainer(w) ==
    /\ At(w, "recover")
    /\ OnBoundStore(w)
    /\ active # NoJob
    /\ Sees(w, active.job)
    /\ active' = [active EXCEPT !.known = TRUE]
    /\ Goes(w, "remove")
    /\ UNCHANGED <<after, passed, lock, claimed, bound, podmanVars, snapshots, expired, answered>>

\* It is not there.  That settles the job only if it was seen before: a launcher
\* that still runs might create it later.
MissContainer(w) ==
    /\ At(w, "recover")
    /\ OnBoundStore(w)
    /\ active # NoJob
    /\ ~Sees(w, active.job)
    /\ active.known
    /\ Goes(w, "sweep")
    /\ UNCHANGED <<after, passed, stateVars, podmanVars, snapshots, expired, answered>>

\* podman rm --force.
Remove(w) ==
    /\ At(w, "remove")
    /\ container' = [container EXCEPT ![active.job] = "removed"]
    /\ Goes(w, "sweep")
    /\ UNCHANGED <<after, passed, stateVars, store, launcher, exit, snapshots, expired, answered>>

\* remove_snapshot: also fine if the directory is gone already.
Sweep(w) ==
    /\ At(w, "sweep")
    /\ snapshots' = snapshots \ {active.job}
    /\ Goes(w, "clear")
    /\ UNCHANGED <<after, passed, stateVars, podmanVars, expired, answered>>

Clear(w) ==
    /\ At(w, "clear")
    /\ active' = NoJob
    /\ Returns(w)
    /\ UNCHANGED <<after, passed, claimed, bound, podmanVars, snapshots, expired, answered>>

\* The two cleanups of validate, before and after its job.
InValidate(w) ==
    /\ pc[w] \in {"kill", "recover", "remove", "sweep", "clear"}
    /\ after[w] \in {"begin", "answer"}

\* validate_until_shutdown: such a cleanup fails at some step, or the deadline cuts
\* it off, its podman rm perhaps done.  A last one follows, and the result is an
\* error.
CleanUpAgain(w) ==
    /\ InValidate(w)
    /\ passed' = passed \ {w}
    /\ after' = [after EXCEPT ![w] = "done"]
    /\ Goes(w, IF At(w, "kill") THEN "kill" ELSE "recover")
    /\ snapshots' = IF after[w] = "begin" THEN snapshots \ {w} ELSE snapshots
    /\ \/ UNCHANGED container
       \/ At(w, "remove") /\ container' = [container EXCEPT ![active.job] = "removed"]
    /\ UNCHANGED <<stateVars, store, launcher, exit, expired, answered>>

-----------------------------------------------------------------------------
(* Failures *)

\* An error return: what the process owned is dropped, the launcher is killed and
\* the snapshot removed.  The row stays.
ErrorReturn(w) ==
    /\ Goes(w, "done")
    /\ lock' = IF lock = w THEN None ELSE lock
    /\ launcher' = IF launcher[w] = "none" THEN launcher
                   ELSE [launcher EXCEPT ![w] = "gone"]
    /\ snapshots' = snapshots \ {w}
    /\ UNCHANGED <<after, passed, claimed, bound, active, store, container, exit, expired, answered>>

\* The checks that fail: a request past its deadline, a nonce claimed before, a full
\* table, another store, a container that is neither there nor known.
Refused(w) ==
    \/ pc[w] \in {"new", "capture"} /\ ~Current(w)
    \/ At(w, "claim") /\ (RequestOf[w] \in claimed \/ Cardinality(claimed) >= MaxClaims)
    \/ At(w, "recover") /\ bound # None /\ ~OnBoundStore(w)
    \/ At(w, "recover") /\ active # NoJob /\ ~Sees(w, active.job) /\ ~active.known

Refuse(w) ==
    /\ Refused(w)
    /\ ~InValidate(w)
    /\ ErrorReturn(w)

\* A Podman call, a file operation or a commit fails.
Fail(w) ==
    /\ pc[w] \in Owned \cup {"new"}
    /\ ~InValidate(w)
    /\ ErrorReturn(w)

\* The process is killed: only its lock goes with it.
Crash(w) ==
    /\ pc[w] \in Owned
    /\ Goes(w, "done")
    /\ lock' = None
    /\ UNCHANGED <<after, passed, claimed, bound, active, podmanVars, snapshots, expired, answered>>

-----------------------------------------------------------------------------
(* Podman and the clock *)

CreateContainer(w) ==
    /\ launcher[w] = "alive"
    /\ launcher' = [launcher EXCEPT ![w] = "attached"]
    /\ container' = [container EXCEPT ![w] = "running"]
    /\ UNCHANGED <<workerVars, stateVars, store, exit, snapshots, expired, answered>>

ContainerExits(w) ==
    /\ container[w] = "running"
    /\ container' = [container EXCEPT ![w] = "exited"]
    /\ exit' \in {[exit EXCEPT ![w] = e] : e \in {"ok", "bad"}}
    /\ UNCHANGED <<workerVars, stateVars, store, launcher, snapshots, expired, answered>>

\* A launcher ends without a container, or after the one it created.
LauncherExits(w) ==
    /\ launcher[w] \in {"alive", "attached"}
    /\ container[w] # "running"
    /\ launcher' = [launcher EXCEPT ![w] = "gone"]
    /\ UNCHANGED <<workerVars, stateVars, store, container, exit, snapshots, expired, answered>>

Deadline(q) ==
    /\ q \notin expired
    /\ expired' = expired \cup {q}
    /\ UNCHANGED <<workerVars, stateVars, podmanVars, snapshots, answered>>

-----------------------------------------------------------------------------
Step(w) ==
    \/ Arrive(w) \/ Connect(w) \/ ConnectRefused(w) \/ Claim(w) \/ Capture(w)
    \/ Begin(w) \/ Launch(w) \/ LaunchFails(w)
    \/ FinishPassed(w) \/ FinishFailed(w) \/ Kill(w) \/ Answer(w)
    \/ BindRuntime(w) \/ NothingPending(w) \/ FindContainer(w) \/ MissContainer(w)
    \/ Remove(w) \/ Sweep(w) \/ Clear(w) \/ CleanUpAgain(w)
    \/ Refuse(w)

Next ==
    \/ \E w \in Workers : Step(w) \/ Fail(w) \/ Crash(w)
    \/ \E w \in Workers : CreateContainer(w) \/ ContainerExits(w) \/ LauncherExits(w)
    \/ \E w \in Workers : Deadline(RequestOf[w])

\* Every wait of a worker has a deadline: Podman's answers ten seconds, the job its
\* own limit and the request's expiry.  Nothing is assumed of Podman itself.
Fairness == \A w \in Workers : WF_vars(Step(w))

Spec == Init /\ [][Next]_vars /\ Fairness

-----------------------------------------------------------------------------
(* Correctness *)

\* What the active row does not name is gone and stays gone: no container of an
\* earlier job exists, and no launcher is left that could still create one, after
\* any mixture of crashes, failed cleanups and recoveries by other processes
\* (begin, recover_pending, clear), on one store or several.  So at most one
\* workload exists at a time.
SettledMeansGone ==
    \A w \in Workers : active.job # w => ~Present(w) /\ launcher[w] # "alive"

\* A request is launched at most once, however often it is delivered and whatever
\* became of the first worker (claim_request).
LaunchedOnce ==
    \A v, w \in Workers :
        RequestOf[v] = RequestOf[w] /\ launcher[v] # "none" /\ launcher[w] # "none" => v = w

\* A response stands for a container that exited with 0 and has been removed, with
\* its snapshot and its row; interrupted work never becomes a result (validate,
\* connect_with_state).
AnswersAreSettled ==
    \A w \in answered :
        /\ exit[w] = "ok" /\ container[w] = "removed" /\ launcher[w] = "gone"
        /\ w \notin snapshots /\ active.job # w

\* A worker that takes the state directory gives it back, so a later delivery can
\* be served or refused (serve_worker).
LockReleased == \A w \in Workers : lock = w ~> lock # w

=============================================================================
