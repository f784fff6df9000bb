----------------------------- MODULE SuiteInit ------------------------------
(***************************************************************************)
(* InitSuite (suite.go:86) and the goroutine of the manager, which starts  *)
(* the informer cache behind K8sClient.  The two share the variable err:   *)
(* each assigns it and then asserts on it, unsynchronised, so one may see  *)
(* or overwrite the error of the other.  A compiler may also keep what was *)
(* assigned in a register: an assertion sees either its own value or the   *)
(* shared one.                                                             *)
(*                                                                         *)
(* Nobody waits for the cache.  A read through K8sClient is refused before *)
(* it has started, and never returns once it has stopped.                  *)
(***************************************************************************)

VARIABLES
    main,       \* where InitSuite is
    manager,    \* the goroutine: none, running, returned (from Start), done
    err,        \* the shared variable
    detected,   \* the error IsOCP has returned
    cache,      \* off, on, stopped
    process,    \* running, exited, died
    read,       \* a spec has read through K8sClient
    wrong       \* history: a call of InitSuite, or Start before that read, has failed

initVars == <<main, manager, err, detected, cache, process, read, wrong>>

Errors == {"nil", "error"}

TypeOK ==
    /\ main \in {"environment", "scheme", "manager", "spawn", "detect", "expect",
                 "ready", "failed"}
    /\ manager \in {"none", "running", "returned", "done"}
    /\ err \in Errors
    /\ detected \in Errors
    /\ cache \in {"off", "on", "stopped"}
    /\ process \in {"running", "exited", "died"}
    /\ read \in BOOLEAN
    /\ wrong \in BOOLEAN

Init ==
    /\ main = "environment"
    /\ manager = "none"
    /\ err = "nil"
    /\ detected = "nil"
    /\ cache = "off"
    /\ process = "running"
    /\ read = FALSE
    /\ wrong = FALSE

----------------------------------------------------------------------------
(* InitSuite. *)

After == [environment |-> "scheme", scheme |-> "manager", manager |-> "spawn"]

\* TestEnv.Start, AddToScheme and NewManager: each assigns err and asserts on it,
\* with nobody else about.
Prepare ==
    /\ main \in DOMAIN After
    /\ err' \in Errors
    /\ main' = IF err' = "nil" THEN After[main] ELSE "failed"
    /\ wrong' = (wrong \/ err' # "nil")
    /\ UNCHANGED <<manager, detected, cache, process, read>>

Spawn ==
    /\ main = "spawn"
    /\ main' = "detect"
    /\ manager' = "running"
    /\ UNCHANGED <<err, detected, cache, process, read, wrong>>

\* isocp, err := IsOCP(...) assigns the same err.
DetectOpenshift ==
    /\ main = "detect"
    /\ err' \in Errors
    /\ detected' = err'
    /\ main' = "expect"
    /\ wrong' = (wrong \/ err' # "nil")
    /\ UNCHANGED <<manager, cache, process, read>>

\* Mutant: the assertion after IsOCP is forgotten.
SkipExpect ==
    /\ main = "expect"
    /\ main' = "ready"
    /\ UNCHANGED <<manager, err, detected, cache, process, read, wrong>>

ExpectDetected ==
    /\ main = "expect"
    /\ \E seen \in {detected, err} : main' = IF seen = "nil" THEN "ready" ELSE "failed"
    /\ UNCHANGED <<manager, err, detected, cache, process, read, wrong>>

----------------------------------------------------------------------------
(* The goroutine of the manager. *)

CacheStarts ==
    /\ manager = "running"
    /\ cache = "off"
    /\ cache' = "on"
    /\ UNCHANGED <<main, manager, err, detected, process, read, wrong>>

\* err = K8sManager.Start(...), which returns when it fails.
StartFails ==
    /\ manager = "running"
    /\ manager' = "returned"
    /\ err' = "error"
    /\ cache' = IF cache = "on" THEN "stopped" ELSE cache
    /\ wrong' = (wrong \/ ~read)
    /\ UNCHANGED <<main, detected, process, read>>

\* An assertion that fails here is not recovered: the process dies.
ExpectStarted ==
    /\ manager = "returned"
    /\ \E seen \in {"error", err} :
           \/ seen = "nil" /\ manager' = "done" /\ UNCHANGED process
           \/ seen # "nil" /\ process' = "died" /\ UNCHANGED manager
    /\ UNCHANGED <<main, err, detected, cache, read, wrong>>

----------------------------------------------------------------------------
(* The first read of a spec through K8sClient. *)

\* Mutant: before the cache has started the read shows an empty cluster.
ReadAlways ==
    /\ cache # "stopped"
    /\ read' = TRUE
    /\ UNCHANGED <<main, manager, err, detected, cache, process, wrong>>

ReadCache ==
    /\ cache = "on"
    /\ read' = TRUE
    /\ UNCHANGED <<main, manager, err, detected, cache, process, wrong>>

\* ErrCacheNotStarted.
ReadRefused == cache = "off" /\ UNCHANGED initVars

\* The binary's own timeout ends a process that blocks.
ReadBlocks ==
    /\ cache = "stopped"
    /\ process' = "died"
    /\ UNCHANGED <<main, manager, err, detected, cache, read, wrong>>

InitSuite == Prepare \/ Spawn \/ DetectOpenshift \/ ExpectDetected
Manager == CacheStarts \/ StartFails \/ ExpectStarted
=============================================================================
