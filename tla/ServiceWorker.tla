---------------------------- MODULE ServiceWorker ----------------------------
(***************************************************************************)
(* The browser extension's service worker (runtime/browser/sw.js): the     *)
(* module cache in IndexedDB, the services it instantiates itself, and the *)
(* rows announced by pages that host services of their own.                *)
(*                                                                         *)
(* A message handler is asynchronous: it runs up to an await, and other    *)
(* handlers run before it goes on.  Each step of a call here is one        *)
(* transaction or promise and the code after it up to the next await.      *)
(* The database survives a restart of the worker, the maps do not.         *)
(*                                                                         *)
(* A record of the cache's metadata is reduced to its presence, the byte   *)
(* store to the hashes in it.  held, epoch, overlapped and taken are       *)
(* history: what the pages were given, and what may have cost them it.     *)
(***************************************************************************)
EXTENDS Integers, Sequences, FiniteSets

CONSTANTS Page, Key, Hash, None,
          HashOf,        \* the module of a service: "<hashHex>:<name>" -> hashHex
          MaxCalls,      \* bound: handlers in progress at a time
          MaxHandle,     \* bound: service handles given out by one worker
          Budgets        \* bound: how often each kind of call happens, see left

Call == 1 .. MaxCalls
Kinds == {"join", "fetch", "close", "fclose", "clear", "restart", "wjoin"}

ASSUME WorkerAssumption ==
    /\ HashOf \in [Key -> Hash] /\ None \notin Page \cup Key \cup Hash
    /\ MaxCalls \in Nat \ {0} /\ MaxHandle \in Nat
    /\ Budgets \subseteq [Kinds -> Nat]

VARIABLES bytes,         \* BYTES_STORE
          meta,          \* META_STORE
          calls,         \* the handlers in progress
          answers,       \* replies to modules.fetch under way to their pages
          services,      \* services: the record registered under a key, or 0
          recs,          \* the ServiceRecords made by this worker
          known,         \* serviceHandles: the record of a handle, or 0
          nextHandle,    \* nextServiceHandle
          instantiating, \* servicesInstantiating
          row,           \* announcedServices: none, fresh or (15 s later) stale
          held,          \* the handles pages got from services.join
          epoch,         \* number of restarts
          overlapped,    \* keys initialised while a record was registered
                         \* (by this worker)
          taken,         \* held handles released by the holder of an older one
          left           \* calls that may still be made in this behaviour

mapVars    == <<services, recs, known, nextHandle>>
dbVars     == <<bytes, meta>>
holdVars   == <<held, overlapped, taken>>
workerVars == <<dbVars, calls, answers, mapVars, instantiating, row, holdVars, epoch, left>>

Idle == [pc |-> "idle", what |-> "none", page |-> None, hash |-> None,
         key |-> None, req |-> 0]

WorkerInit ==
    /\ left \in Budgets
    (* An upgrade keeps older metadata (told apart only if modules are used).*)
    /\ bytes = {} /\ meta \in IF left["fetch"] + left["wjoin"] = 0 THEN {{}} ELSE SUBSET Hash
    /\ calls = [c \in Call |-> Idle] /\ answers = {}
    /\ services = [k \in Key |-> 0] /\ recs = <<>>
    /\ known = [h \in 1 .. MaxHandle |-> 0] /\ nextHandle = 1
    /\ instantiating = {}
    /\ row = [k \in Key |-> "none"]
    /\ held = {} /\ epoch = 0 /\ overlapped = {} /\ taken = {}

Spend(kind) == left[kind] > 0 /\ left' = [left EXCEPT ![kind] = @ - 1]

-----------------------------------------------------------------------------
(* Handlers.  A new one takes the first place that is free.                *)

Begin(call) ==
    \E c \in Call :
      /\ calls[c].pc = "idle" /\ \A d \in Call : calls[d].pc = "idle" => c <= d
      /\ calls' = [calls EXCEPT ![c] = call]

At(c, pc)  == calls[c].pc = pc
Goto(c, pc) == calls' = [calls EXCEPT ![c].pc = pc]
Done(c)    == calls' = [calls EXCEPT ![c] = Idle]
Answer(c, result) ==
    answers' = answers \cup {[page |-> calls[c].page, req |-> calls[c].req,
                              result |-> result]}

-----------------------------------------------------------------------------
(* The module cache.                                                       *)

(* cacheFetch.  The bump of the hit counter changes no presence.           *)
CacheFetch(c) ==
    /\ At(c, "read")
    /\ Answer(c, IF calls[c].hash \in bytes THEN "hit" ELSE "miss")
    /\ Done(c)
    /\ UNCHANGED <<dbVars, mapVars, instantiating, row, holdVars, epoch, left>>

(* cacheStore, for modules.store or inside a join.  With metadata there is *)
(* nothing but the counter to write; a join then goes on to compile.       *)
StoreLook(c) ==
    /\ At(c, "look")
    /\ IF calls[c].hash \notin meta
         THEN Goto(c, "put") /\ UNCHANGED instantiating
         ELSE IF calls[c].what = "join"
                THEN /\ Goto(c, "compile")
                     /\ instantiating' = instantiating \cup {calls[c].key}
                ELSE Done(c) /\ UNCHANGED instantiating
    /\ UNCHANGED <<dbVars, answers, mapVars, row, holdVars, epoch, left>>

(* Without, the bytes are put in a transaction of their own.  By then the  *)
(* one of the metadata, with no request outstanding, has committed, and    *)
(* the put into it throws: the handler ends with an error (as it does when *)
(* the bytes cannot be stored).                                            *)
StorePut(c) ==
    /\ At(c, "put")
    /\ bytes' \in {bytes, bytes \cup {calls[c].hash}}
    /\ Done(c)
    /\ UNCHANGED <<meta, answers, mapVars, instantiating, row, holdVars, epoch, left>>

(* clearAll: two transactions.                                             *)
ClearCall ==
    /\ Spend("clear")
    /\ Begin([Idle EXCEPT !.pc = "clear meta", !.what = "clear"])
    /\ UNCHANGED <<dbVars, answers, mapVars, instantiating, row, holdVars, epoch>>

ClearMeta(c) ==
    /\ At(c, "clear meta") /\ Goto(c, "clear bytes") /\ meta' = {}
    /\ UNCHANGED <<bytes, answers, mapVars, instantiating, row, holdVars, epoch, left>>

ClearBytes(c) ==
    /\ At(c, "clear bytes") /\ Done(c) /\ bytes' = {}
    /\ UNCHANGED <<meta, answers, mapVars, instantiating, row, holdVars, epoch, left>>

-----------------------------------------------------------------------------
(* Services hosted by the worker.                                          *)

(* The end of servicesJoin: a handle to record r, in maps (services, recs, *)
(* known) that the rest of the step may have changed.                      *)
GiveHandle(k, r, svcs, rs, kn) ==
    LET h == nextHandle
    IN  /\ h <= MaxHandle /\ nextHandle' = h + 1
        /\ services' = svcs
        /\ known' = [kn EXCEPT ![h] = r]
        /\ recs' = [rs EXCEPT ![r].handles = @ \cup {h}, ![r].refs = @ + 1]
        /\ held' = held \cup {[handle |-> h, key |-> k, rec |-> r, epoch |-> epoch]}

(* removeService: the handles of the record registered under k, and its    *)
(* registration.                                                           *)
Forgotten(k, kn) ==
    IF services[k] = 0 THEN kn
    ELSE [h \in DOMAIN kn |-> IF h \in recs[services[k]].handles THEN 0 ELSE kn[h]]

(* A join of a key being instantiated returns WAPI_ERR_LOOP: no step.      *)
JoinCall(k) ==
    /\ Spend("wjoin") /\ k \notin instantiating
    /\ IF services[k] # 0
         THEN GiveHandle(k, services[k], services, recs, known) /\ UNCHANGED calls
         ELSE /\ Begin([Idle EXCEPT !.pc = "bytes", !.what = "join", !.key = k,
                                    !.hash = HashOf[k]])
              /\ UNCHANGED <<mapVars, held>>
    /\ UNCHANGED <<dbVars, answers, instantiating, row, overlapped, taken, epoch>>

JoinBytes(c) ==
    /\ At(c, "bytes")
    /\ \/ /\ calls[c].hash \in bytes /\ Goto(c, "compile")
          /\ instantiating' = instantiating \cup {calls[c].key}
       \/ /\ calls[c].hash \notin bytes /\ Goto(c, "network")
          /\ UNCHANGED instantiating
    /\ UNCHANGED <<dbVars, answers, mapVars, row, holdVars, epoch, left>>

(* Fetched and the digest compared; or no url, no answer, a wrong digest.  *)
JoinFetched(c) ==
    /\ At(c, "network") /\ (Goto(c, "look") \/ Done(c))
    /\ UNCHANGED <<dbVars, answers, mapVars, instantiating, row, holdVars, epoch, left>>

JoinCompiled(c) ==
    /\ At(c, "compile") /\ Goto(c, "init")
    /\ UNCHANGED <<dbVars, answers, mapVars, instantiating, row, holdVars, epoch, left>>

(* Mutant: the key stays in the set when compiling fails.                  *)
JoinFails_stays(c) ==
    /\ calls[c].what = "join" /\ calls[c].pc \in {"compile", "init"}
    /\ Done(c)
    /\ UNCHANGED <<dbVars, answers, mapVars, instantiating, row, holdVars, epoch, left>>

(* compile or instantiate throws; the finally takes the key out.           *)
JoinFails(c) ==
    /\ calls[c].what = "join" /\ calls[c].pc \in {"compile", "init"}
    /\ Done(c) /\ instantiating' = instantiating \ {calls[c].key}
    /\ UNCHANGED <<dbVars, answers, mapVars, row, holdVars, epoch, left>>

(* Instantiated: wapi_main runs, may exit (onExit removes the service of   *)
(* that key), and the new record is registered all the same.               *)
JoinInit(c) ==
    LET k == calls[c].key
        r == Len(recs) + 1
    IN  /\ At(c, "init") /\ Done(c)
        /\ instantiating' = instantiating \ {k}
        /\ overlapped' = IF services[k] = 0 THEN overlapped ELSE overlapped \cup {k}
        /\ \E kn \in {known, Forgotten(k, known)} :
             GiveHandle(k, r, [services EXCEPT ![k] = r],
                        Append(recs, [key |-> k, handles |-> {}, refs |-> 0]), kn)
        /\ UNCHANGED <<dbVars, answers, row, taken, epoch, left>>

(* Mutant: the record goes with any of its handles.                        *)
LastHandle_any(r) == r # 0

LastHandle(r) == r # 0 /\ recs[r].refs <= 1

(* servicesRelease of handle e.handle, by the page that holds e, which may *)
(* have got it from an earlier worker.                                     *)
ReleaseCall(e) ==
    LET h == e.handle
        r == known[h]
        gone == LastHandle(r)
        kn == [known EXCEPT ![h] = 0]
    IN  /\ e \in held /\ held' = held \ {e}
        /\ taken' = IF e.epoch = epoch THEN taken
                     ELSE taken \cup {f \in held : f.epoch = epoch /\ f.handle = h}
        /\ known' = IF gone THEN Forgotten(recs[r].key, kn) ELSE kn
        /\ services' = IF gone THEN [services EXCEPT ![recs[r].key] = 0] ELSE services
        /\ recs' = IF r = 0 THEN recs
                    ELSE [recs EXCEPT ![r].handles = @ \ {h}, ![r].refs = @ - 1]
        /\ UNCHANGED <<dbVars, calls, answers, nextHandle, instantiating, row,
                       overlapped, epoch, left>>

-----------------------------------------------------------------------------
(* The rows of page-hosted services, and the worker's life.                *)

Announce(k) == row' = [row EXCEPT ![k] = "fresh"]
Withdraw(k) == row' = [row EXCEPT ![k] = "none"]

(* 15 seconds pass without an announcement.                                *)
Age(k) ==
    /\ row[k] = "fresh" /\ row' = [row EXCEPT ![k] = "stale"]
    /\ UNCHANGED <<dbVars, calls, answers, mapVars, instantiating, holdVars, epoch, left>>

(* reapAnnounced, in services.list and services.stats.                     *)
Reap ==
    /\ \E k \in Key : row[k] = "stale"
    /\ row' = [k \in Key |-> IF row[k] = "stale" THEN "none" ELSE row[k]]
    /\ UNCHANGED <<dbVars, calls, answers, mapVars, instantiating, holdVars, epoch, left>>

(* The browser stops the worker and starts it again with the next message. *)
(* Who waits for an answer is told that there will be none.                *)
Restart ==
    /\ Spend("restart")
    /\ calls' = [c \in Call |-> Idle]
    /\ answers' = answers \cup
         {[page |-> calls[c].page, req |-> calls[c].req, result |-> "error"] :
            c \in {d \in Call : calls[d].what = "fetch"}}
    /\ services' = [k \in Key |-> 0] /\ recs' = <<>> /\ instantiating' = {}
    /\ known' = [h \in 1 .. MaxHandle |-> 0] /\ nextHandle' = 1
    /\ row' = [k \in Key |-> "none"]
    /\ epoch' = epoch + 1 /\ overlapped' = {}
    /\ UNCHANGED <<dbVars, held, taken>>

CallStep(c) ==
    \/ CacheFetch(c) \/ StoreLook(c) \/ StorePut(c) \/ ClearMeta(c) \/ ClearBytes(c)
    \/ JoinBytes(c) \/ JoinFetched(c) \/ JoinCompiled(c) \/ JoinFails(c) \/ JoinInit(c)

WorkerStep ==
    \/ \E c \in Call : CallStep(c)
    \/ ClearCall \/ Reap \/ Restart
    \/ \E k \in Key : JoinCall(k) \/ Age(k)
    \/ \E e \in held : ReleaseCall(e)

-----------------------------------------------------------------------------
(* Properties.                                                             *)

CallsOK ==
    calls \in [Call -> [pc : {"idle", "read", "look", "put", "clear meta", "clear bytes",
                             "bytes", "network", "compile", "init"},
                       what : {"none", "fetch", "store", "clear", "join"},
                       page : Page \cup {None}, hash : Hash \cup {None},
                       key : Key \cup {None}, req : Nat]]

WorkerTypeOK ==
    /\ bytes \subseteq Hash /\ meta \subseteq Hash /\ CallsOK
    /\ answers \subseteq [page : Page, req : Nat, result : {"hit", "miss", "error"}]
    /\ recs \in Seq([key : Key, handles : SUBSET (1 .. MaxHandle), refs : Nat])
    /\ services \in [Key -> 0 .. Len(recs)]
    /\ known \in [1 .. MaxHandle -> 0 .. Len(recs)]
    /\ nextHandle \in 1 .. MaxHandle + 1
    /\ instantiating \subseteq Key
    /\ row \in [Key -> {"none", "fresh", "stale"}]
    /\ held \subseteq [handle : 1 .. MaxHandle, key : Key, rec : Nat, epoch : Nat]
    /\ epoch \in Nat /\ overlapped \subseteq Key /\ left \in [Kinds -> Nat]

(* The worker's two tables of services agree with each other and with the  *)
(* counts (sw.js:262-289, 333-386): a registered service is referenced,    *)
(* as often as it has handles, each of which leads to it; a known handle   *)
(* is one of its record's; and nothing is marked as being instantiated     *)
(* that no join is instantiating, or it could not be joined again.         *)
TablesAgree ==
    /\ \A k \in Key : services[k] # 0 =>
         LET r == recs[services[k]]
         IN  /\ r.key = k /\ r.refs = Cardinality(r.handles) /\ r.refs > 0
             /\ \A h \in r.handles : known[h] = services[k]
    /\ \A h \in DOMAIN known : known[h] # 0 => h \in recs[known[h]].handles
    /\ \A k \in instantiating :
         \E c \in Call : calls[c].key = k /\ calls[c].pc \in {"compile", "init"}

(* A handle that services.join gave out leads to the instance its holder   *)
(* joined, still registered, until the holder releases it -- if this       *)
(* worker gave it, no second first join of the service overlapped with its *)
(* own, and no page released the same number got from an earlier worker.   *)
HeldIsServed ==
    \A e \in held \ taken :
      e.epoch = epoch /\ e.key \notin overlapped =>
        known[e.handle] = e.rec /\ services[e.key] = e.rec
=============================================================================
