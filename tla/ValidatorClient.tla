--------------------------- MODULE ValidatorClient ---------------------------
(***************************************************************************)
(* The validator client process: node.go builds the service registry      *)
(* (NewValidatorClient with initializeFromCLI or initializeForWeb), Start  *)
(* runs StartAll and installs the interrupt handler, Close runs StopAll.   *)
(* The validator service (client/service.go) dials the beacon node and    *)
(* starts two goroutines of interest: recheckKeys, which in web mode waits *)
(* for a wallet from the web portal, then writes a public key bucket for   *)
(* every validating key, and recheckValidatingKeysBucket, which writes a   *)
(* bucket for every key list an imported keymanager announces.             *)
(*                                                                         *)
(* Start-up (main.go, node.go) is modelled step by step: app.Before's log *)
(* set-up, then startNode's terms-of-service check and NewValidatorClient, *)
(* whose initializer opens the keymanager, runs clearDB when asked, opens *)
(* the DB and registers the services in order.  Each is one atomic step:  *)
(* nothing else runs before Start.  The service registry (not in the      *)
(* repository) is the list of registered services in registration order; *)
(* FetchService finds a registered service by kind.                       *)
(*                                                                         *)
(* Data is abstracted to which keys exist: a keymanager is its kind and    *)
(* the set of accounts it holds; a failing library call (tracing, log      *)
(* level, wallet, keymanager, prompt, NewKVStore) is a boolean input.       *)
(***************************************************************************)
EXTENDS Naturals, Sequences, FiniteSets

CONSTANTS
  ValidatingKeys, \* validating public keys a wallet can hold
  PANIC_AFTER     \* interrupts after the first before the handler panics

VARIABLES
  phase,          \* where the process is, see Phases
  useWeb,         \* ValidatorService.useWeb = cliCtx.Bool(EnableWebFlag)
  km,             \* kind of ValidatorService.keyManager, "none" for nil
  accounts,       \* accounts the keymanager holds
  conn,           \* ValidatorService.conn # nil
  cancelled,      \* ValidatorService.ctx is done
  rk,             \* program counter of the recheckKeys goroutine
  watcher,        \* program counter of recheckValidatingKeysBucket
  pubKeysChan,    \* validatingPubKeysChan, capacity 1
  keyBuckets,     \* keys with a bucket written by UpdatePublicKeysBuckets
  interrupts,     \* SIGINT/SIGTERM received by the handler
  missed,         \* a key list was not written: unheard or failed update
  registry,       \* the services registered, in order
  protector,      \* ValidatorService.protector # nil
  slasherOn,      \* featureconfig SlasherProtection
  history         \* the slashing-protection DB: "kept" or "cleared"

startupvars == <<registry, protector, slasherOn, history>>
vcvars == <<phase, useWeb, km, accounts, conn, cancelled, rk, watcher,
            pubKeysChan, keyBuckets, interrupts, missed, startupvars>>

Phases == {"boot", "new", "failed", "ready", "running", "closing", "stopped", "exited",
           "panicked", "fatal"}
KmKinds == {"imported", "derived"}

\* The process is gone: main returned, or a goroutine crashed it.
Ended == phase \in {"failed", "exited", "panicked", "fatal"}
\* Goroutines other than main run only while the process lives.
Alive == phase \in {"running", "closing", "stopped"}

-----------------------------------------------------------------------------
VCInit ==
  /\ phase = "boot"
  /\ useWeb = FALSE
  /\ km = "none"
  /\ accounts = {}
  /\ conn = FALSE
  /\ cancelled = FALSE
  /\ rk = "none"
  /\ watcher = "none"
  /\ pubKeysChan = <<>>
  /\ keyBuckets = {}
  /\ interrupts = 0
  /\ missed = FALSE
  /\ registry = <<>>
  /\ protector = FALSE
  /\ slasherOn = FALSE
  /\ history = "kept"

LogFormats == {"text", "fluentd", "json", "journald", "unknown"}

(* app.Before: flags from the config file, then the log formatter chosen   *)
(* by --log-format (an unknown one is an error, fluentd's set-up failure a *)
(* panic, journald's an error), persistent logging (a failure is only      *)
(* logged), then debug.Setup.  An error ends app.Run before startNode.     *)
AppBefore ==
  /\ phase = "boot"
  /\ \E format \in LogFormats, loadOk, formatOk, setupOk \in BOOLEAN :
       phase' = CASE ~loadOk                          -> "failed"
                  [] format = "fluentd" /\ ~formatOk  -> "panicked"
                  [] format = "journald" /\ ~formatOk -> "failed"
                  [] format = "unknown"               -> "failed"
                  [] ~setupOk                         -> "failed"
                  [] OTHER                            -> "new"
  /\ UNCHANGED <<useWeb, km, accounts, conn, cancelled, rk, watcher,
                 pubKeysChan, keyBuckets, interrupts, missed, startupvars>>

(* clearDB: without --force-clear-db the user is asked; a yes (or the     *)
(* force flag) opens, closes and clears the DB, any of which may fail.    *)
Answers == {"yes", "no", "error"}
ClearDB(force, answer, ioOk) ==
  LET confirmed == force \/ answer = "yes"
  IN  CASE ~force /\ answer = "error" -> "error"
        [] confirmed /\ ~ioOk          -> "error"
        [] confirmed                   -> "cleared"
        [] OTHER                       -> "kept"

(* The registrations, each on a record [ok, reg, protector]: reg is the  *)
(* registry so far, protector whether the validator service got one.     *)
Registered(reg, svc) == \E i \in DOMAIN reg : reg[i] = svc
Register(r, svc) == [r EXCEPT !.reg = Append(@, svc)]

RegisterPrometheusService(r) == Register(r, "prometheus")

\* An empty --slasher-rpc-provider is an error.
RegisterSlasherClientService(r, endpointSet) ==
  IF endpointSet THEN Register(r, "slasher") ELSE [r EXCEPT !.ok = FALSE]

\* The protector is the slasher service if FetchService finds one.
RegisterClientService(r) ==
  [Register(r, "validator") EXCEPT !.protector = Registered(r.reg, "slasher")]

\* FetchService of the validator service fails if it is not registered.
RegisterRPCService(r) ==
  IF Registered(r.reg, "validator") THEN Register(r, "rpc") ELSE [r EXCEPT !.ok = FALSE]

RegisterRPCGatewayService(r) == Register(r, "gateway")

(* A mutant of RegisterServices: the validator service is registered     *)
(* before the slasher client it should take as its protector.            *)
RegisterServicesClientFirst(monitoring, slasher, endpointSet, rpcOn) ==
  LET r0 == [ok |-> TRUE, reg |-> <<>>, protector |-> FALSE]
      r1 == IF monitoring THEN RegisterPrometheusService(r0) ELSE r0
      r2 == RegisterClientService(r1)
      r3 == IF slasher THEN RegisterSlasherClientService(r2, endpointSet) ELSE r2
      r4 == IF r3.ok /\ rpcOn THEN RegisterRPCService(r3) ELSE r3
  IN  IF r4.ok /\ rpcOn THEN RegisterRPCGatewayService(r4) ELSE r4

(* The initializers' registrations, in order, stopping at the first      *)
(* error: Prometheus unless --disable-monitoring, the slasher client with *)
(* SlasherProtection, the validator service, then the RPC server and its *)
(* gateway (with --rpc, and always in web mode).                         *)
RegisterServices(monitoring, slasher, endpointSet, rpcOn) ==
  LET r0 == [ok |-> TRUE, reg |-> <<>>, protector |-> FALSE]
      r1 == IF monitoring THEN RegisterPrometheusService(r0) ELSE r0
      r2 == IF slasher THEN RegisterSlasherClientService(r1, endpointSet) ELSE r1
      r3 == IF r2.ok THEN RegisterClientService(r2) ELSE r2
      r4 == IF r3.ok /\ rpcOn THEN RegisterRPCService(r3) ELSE r3
  IN  IF r4.ok /\ rpcOn THEN RegisterRPCGatewayService(r4) ELSE r4

\* NewValidatorService: the service keeps the keymanager, UseWeb and the
\* protector it is configured with.
NewValidatorService(kind, held, web, prot) ==
  /\ km' = kind /\ accounts' = held /\ useWeb' = web /\ protector' = prot

(* The common tail of both initializers: clearDB when asked, NewKVStore,  *)
(* the registrations.  Failing anywhere leaves what was done so far (a    *)
(* cleared DB stays cleared) and ends startNode with the error.           *)
Initialize(kmOk, kind, held, web, clear, force, answer, clearIo, dbOk, monitoring, slasher, endpointSet, rpcOn) ==
  LET cleared == IF kmOk /\ (clear \/ force) THEN ClearDB(force, answer, clearIo)
                 ELSE "kept"
      opened == kmOk /\ cleared # "error" /\ dbOk
      r == RegisterServices(monitoring, slasher, endpointSet, rpcOn)
  IN  /\ phase' = IF opened /\ r.ok THEN "ready" ELSE "failed"
      /\ history' = IF cleared = "cleared" THEN "cleared" ELSE history
      /\ registry' = IF opened THEN r.reg ELSE <<>>
      /\ slasherOn' = slasher
      /\ IF opened /\ r.ok
           THEN NewValidatorService(kind, held, web, r.protector)
           ELSE UNCHANGED <<km, accounts, useWeb, protector>>

\* NewValidatorClient without --web: startNode's terms-of-service check,
\* tracing and the log level (preOk), then interop keys or a wallet that
\* must exist (ErrNoWalletFound otherwise) and a readable keymanager (keyOk).
InitializeFromCLI ==
  /\ phase = "new"
  /\ \E preOk, interop, keyOk, clear, force, clearIo, dbOk \in BOOLEAN,
        monitoring, slasher, endpointSet, rpcOn \in BOOLEAN,
        kind \in KmKinds, held \in SUBSET ValidatingKeys, answer \in Answers :
       Initialize(preOk /\ keyOk,
                  IF interop THEN "imported" ELSE kind, held, FALSE,
                  clear, force, answer, clearIo, dbOk,
                  monitoring, slasher, endpointSet, rpcOn)
  /\ UNCHANGED <<conn, cancelled, rk, watcher, pubKeysChan, keyBuckets,
                 interrupts, missed>>

\* NewValidatorClient with --web set (IsSet, whatever its value): the
\* wallet is optional and the keymanager stays nil without one; the RPC
\* server and gateway are always registered.
InitializeForWeb ==
  /\ phase = "new"
  /\ \E preOk, webFlag, walletFound, kmOk, clear, force, clearIo, dbOk \in BOOLEAN,
        monitoring, slasher, endpointSet \in BOOLEAN,
        kind \in KmKinds, held \in SUBSET ValidatingKeys, answer \in Answers :
       Initialize(preOk /\ (walletFound => kmOk),
                  IF walletFound THEN kind ELSE "none",
                  IF walletFound THEN held ELSE {}, webFlag,
                  clear, force, answer, clearIo, dbOk,
                  monitoring, slasher, endpointSet, TRUE)
  /\ UNCHANGED <<conn, cancelled, rk, watcher, pubKeysChan, keyBuckets,
                 interrupts, missed>>

(* ConstructDialOptions: nil when --tls-cert names credentials that cannot *)
(* be read; otherwise the dial options (insecure without a certificate,  *)
(* the 50 MB default receive size, retries, interceptors, the resolver   *)
(* of comma-separated endpoints), which the model does not tell apart.   *)
ConstructDialOptions(withCert, credsOk) ==
  IF withCert /\ ~credsOk THEN "nil" ELSE "options"

\* ValidatorService.Start: with nil dial options, or when DialContext
\* fails, it returns with conn nil and starts nothing; otherwise it starts
\* run and recheckKeys.  (The two caches are built from constant sizes
\* that their constructors accept, so their error branches cannot run.)
ValidatorServiceStart ==
  \E withCert, credsOk, dialOk \in BOOLEAN :
    LET dialed == ConstructDialOptions(withCert, credsOk) # "nil" /\ dialOk
    IN  /\ conn' = dialed
        /\ rk' = IF dialed THEN "started" ELSE "none"

\* ValidatorClient.Start: StartAll under the lock, then the interrupt
\* handler goroutine, then main waits on the stop channel.
Start ==
  /\ phase = "ready"
  /\ phase' = "running"
  /\ ValidatorServiceStart
  /\ UNCHANGED <<startupvars, useWeb, km, accounts, cancelled, watcher, pubKeysChan,
                 keyBuckets, interrupts, missed>>

\* Mutant: a countdown that runs one signal too long.
InterruptOneLate ==
  /\ Alive
  /\ interrupts <= PANIC_AFTER + 1
  /\ interrupts' = interrupts + 1
  /\ phase' = CASE interrupts = 0               -> "closing"
               [] interrupts = PANIC_AFTER + 1 -> "panicked"
               [] OTHER                        -> phase
  /\ UNCHANGED <<startupvars, useWeb, km, accounts, conn, cancelled, rk, watcher,
                 pubKeysChan, keyBuckets, missed>>

\* The interrupt handler: the first signal starts Close in a goroutine,
\* the signals after it count down and the last one panics.
Interrupt ==
  /\ Alive
  /\ interrupts <= PANIC_AFTER
  /\ interrupts' = interrupts + 1
  /\ phase' = CASE interrupts = 0           -> "closing"
               [] interrupts = PANIC_AFTER -> "panicked"
               [] OTHER                    -> phase
  /\ UNCHANGED <<startupvars, useWeb, km, accounts, conn, cancelled, rk, watcher,
                 pubKeysChan, keyBuckets, missed>>

\* ValidatorService.Stop cancels the service context; conn.Close leaves
\* the conn field set.
ValidatorServiceStop == cancelled' = TRUE

\* Close: StopAll under the lock, then close(stop).
Close ==
  /\ phase = "closing"
  /\ ValidatorServiceStop
  /\ phase' = "stopped"
  /\ UNCHANGED <<startupvars, useWeb, km, accounts, conn, rk, watcher, pubKeysChan,
                 keyBuckets, interrupts, missed>>

\* Start returns from <-stop, startNode returns and main ends.
Exit ==
  /\ phase = "stopped"
  /\ phase' = "exited"
  /\ UNCHANGED <<startupvars, useWeb, km, accounts, conn, cancelled, rk, watcher,
                 pubKeysChan, keyBuckets, interrupts, missed>>

\* recheckKeys in web mode subscribes to the wallet-initialized feed and
\* blocks on its channel, without looking at ctx.
RecheckKeysSubscribe ==
  /\ Alive
  /\ rk = "started"
  /\ useWeb
  /\ rk' = "waiting"
  /\ UNCHANGED <<startupvars, phase, useWeb, km, accounts, conn, cancelled, watcher,
                 pubKeysChan, keyBuckets, interrupts, missed>>

\* The web portal (the registered RPC server) creates or opens a wallet
\* and sends it on the feed; only a subscribed recheckKeys hears it.  A keymanager that cannot be read
\* ends the process with log.Fatalf.
WalletInitialized ==
  /\ phase \in {"running", "closing"}
  /\ Registered(registry, "rpc")
  /\ rk = "waiting"
  /\ \E ok \in BOOLEAN, kind \in KmKinds, held \in SUBSET ValidatingKeys :
       IF ok THEN /\ km' = kind
                  /\ accounts' = held
                  /\ rk' = "fetch"
                  /\ UNCHANGED phase
             ELSE /\ phase' = "fatal"
                  /\ UNCHANGED <<km, accounts, rk>>
  /\ UNCHANGED <<startupvars, useWeb, conn, cancelled, watcher, pubKeysChan, keyBuckets,
                 interrupts, missed>>

\* Mutant: the watcher is started without the initial bucket write.
RecheckKeysFetchNoUpdate ==
  /\ Alive
  /\ \/ rk = "fetch"
     \/ rk = "started" /\ ~useWeb
  /\ IF km = "none"
       THEN /\ phase' = "panicked"
            /\ UNCHANGED <<rk, watcher, keyBuckets, missed>>
       ELSE /\ rk' = "done"
            /\ watcher' = "started"
            /\ UNCHANGED <<phase, keyBuckets, missed>>
  /\ UNCHANGED <<startupvars, useWeb, km, accounts, conn, cancelled, pubKeysChan,
                 interrupts>>

\* FetchValidatingPublicKeys, UpdatePublicKeysBuckets and the start of the
\* watcher.  A nil keymanager is a nil interface call, which panics; a
\* failed fetch or update is only logged.
RecheckKeysFetch ==
  /\ Alive
  /\ \/ rk = "fetch"
     \/ rk = "started" /\ ~useWeb
  /\ IF km = "none"
       THEN /\ phase' = "panicked"
            /\ UNCHANGED <<rk, watcher, keyBuckets, missed>>
       ELSE /\ \E ok \in BOOLEAN :
                 /\ keyBuckets' = IF ok THEN keyBuckets \cup accounts
                                        ELSE keyBuckets
                 /\ missed' = (missed \/ ~ok)
            /\ rk' = "done"
            /\ watcher' = "started"
            /\ UNCHANGED phase
  /\ UNCHANGED <<startupvars, useWeb, km, accounts, conn, cancelled, pubKeysChan,
                 interrupts>>

\* recheckValidatingKeysBucket returns at once for a keymanager other
\* than an imported one, and otherwise subscribes to its account changes.
WatcherSubscribe ==
  /\ Alive
  /\ watcher = "started"
  /\ watcher' = IF km = "imported" THEN "watching" ELSE "returned"
  /\ UNCHANGED <<startupvars, phase, useWeb, km, accounts, conn, cancelled, rk,
                 pubKeysChan, keyBuckets, interrupts, missed>>

\* An imported keymanager gains an account and sends its whole key list
\* to its subscribers; the send blocks while the buffer is full, and a
\* list sent to nobody is lost.
ImportAccounts ==
  /\ Alive
  /\ km = "imported"
  /\ \E k \in ValidatingKeys \ accounts :
       /\ accounts' = accounts \cup {k}
       /\ IF watcher = "watching"
            THEN /\ pubKeysChan = <<>>
                 /\ pubKeysChan' = <<accounts \cup {k}>>
                 /\ UNCHANGED missed
            ELSE /\ missed' = TRUE
                 /\ UNCHANGED pubKeysChan
  /\ UNCHANGED <<startupvars, phase, useWeb, km, conn, cancelled, rk, watcher, keyBuckets,
                 interrupts>>

\* The watcher's select takes a key list and writes its buckets.
WatcherReceive ==
  /\ Alive
  /\ watcher = "watching"
  /\ pubKeysChan # <<>>
  /\ \E ok \in BOOLEAN :
       /\ keyBuckets' = IF ok THEN keyBuckets \cup Head(pubKeysChan)
                              ELSE keyBuckets
       /\ missed' = (missed \/ ~ok)
  /\ pubKeysChan' = Tail(pubKeysChan)
  /\ UNCHANGED <<startupvars, phase, useWeb, km, accounts, conn, cancelled, rk, watcher,
                 interrupts>>

\* The watcher's select takes ctx.Done and returns.
WatcherDone ==
  /\ Alive
  /\ watcher = "watching"
  /\ cancelled
  /\ watcher' = "returned"
  /\ UNCHANGED <<startupvars, phase, useWeb, km, accounts, conn, cancelled, rk,
                 pubKeysChan, keyBuckets, interrupts, missed>>

-----------------------------------------------------------------------------
VCNext ==
  \/ AppBefore \/ InitializeFromCLI \/ InitializeForWeb
  \/ Start \/ Interrupt \/ Close \/ Exit
  \/ RecheckKeysSubscribe \/ WalletInitialized \/ RecheckKeysFetch
  \/ WatcherSubscribe \/ ImportAccounts \/ WatcherReceive \/ WatcherDone

\* main runs NewValidatorClient and Start; the runtime schedules every
\* runnable goroutine.  Signals, the web portal and account imports are
\* the user's and are not forced.
VCFairness ==
  /\ WF_vcvars(AppBefore) /\ WF_vcvars(InitializeFromCLI \/ InitializeForWeb)
  /\ WF_vcvars(Start) /\ WF_vcvars(Close) /\ WF_vcvars(Exit)
  /\ WF_vcvars(RecheckKeysSubscribe) /\ WF_vcvars(RecheckKeysFetch)
  /\ WF_vcvars(WatcherSubscribe) /\ WF_vcvars(WatcherReceive)
  /\ WF_vcvars(WatcherDone)

VCSpec == VCInit /\ [][VCNext]_vcvars /\ VCFairness

-----------------------------------------------------------------------------
VCTypeOK ==
  /\ phase \in Phases
  /\ useWeb \in BOOLEAN /\ conn \in BOOLEAN /\ cancelled \in BOOLEAN
  /\ km \in KmKinds \cup {"none"}
  /\ accounts \subseteq ValidatingKeys /\ keyBuckets \subseteq ValidatingKeys
  /\ rk \in {"none", "started", "waiting", "fetch", "done"}
  /\ watcher \in {"none", "started", "watching", "returned"}
  /\ pubKeysChan \in Seq(SUBSET ValidatingKeys) /\ Len(pubKeysChan) <= 1
  /\ interrupts \in 0..PANIC_AFTER + 1
  /\ missed \in BOOLEAN
  /\ registry \in Seq({"prometheus", "slasher", "validator", "rpc", "gateway"})
  /\ protector \in BOOLEAN /\ slasherOn \in BOOLEAN
  /\ history \in {"kept", "cleared"}

(* A validator service that has dialed the beacon node runs with the     *)
(* slasher client as its protector exactly when slasher protection is   *)
(* on: registerClientService finds the slasher client only if it was     *)
(* registered first, and with the feature on but no slasher endpoint the *)
(* initializer fails rather than start an unprotected validator.         *)
ProtectorWired == conn => (protector <=> slasherOn)

(* Every account of the keymanager recheckKeys has read, and every       *)
(* account added later, gets its public key bucket unless the service is *)
(* stopped, the process ends, or a key list went unheard or failed to     *)
(* write (missed): the initial write comes before the watcher starts and *)
(* the watcher writes every list it is sent.                              *)
KeysBucketed ==
  \A k \in ValidatingKeys :
    (k \in accounts /\ rk = "done")
      ~> (k \in keyBuckets \/ missed \/ cancelled \/ Ended)
=============================================================================
