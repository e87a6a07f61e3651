---------------------------- MODULE PageServices ----------------------------
(***************************************************************************)
(* Runtime linking in a page (runtime/browser/wapi_shim.js) over the       *)
(* extension's worker: modules fetched in the background through the       *)
(* worker's cache, the services a page hosts and counts, and what it       *)
(* announces of them.                                                      *)
(*                                                                         *)
(* A page runs one import, timer or message at a time, to its end.  Only   *)
(* _wapiFetchAndCompile is asynchronous; each of its awaits is a step.     *)
(* The messages of a page reach the worker in their order (bridge.js).     *)
(* Code that a module runs while it is instantiated does not use the       *)
(* linking imports: they would read the caller's memory for its own.       *)
(* Calls that fail before they change anything are no steps.               *)
(***************************************************************************)
EXTENDS ServiceWorker

VARIABLES open,      \* the page's tab is open
          cache,     \* _wapiModuleCache: state of a hash
          svc,       \* _wapiPageServices: state, refcount and instance of a key
          handles,   \* handles to services, given and not yet released
          closed,    \* those of them that are no longer in the page's table
          fetches,   \* _wapiFetchAndCompile in progress, and for which join
          beat,      \* the heartbeat interval is running
          out,       \* messages on their way to the worker
          made,      \* numbers a page used for instances, handles, requests
          orphans    \* history: keys joined while their module was being
                     \* fetched for another join or a prefetch

pageVars == <<open, cache, svc, handles, closed, fetches, beat, out, made, orphans>>
linkVars == <<workerVars, pageVars>>

NoSvc == [state |-> "none", refs |-> 0, inst |-> 0]
InState(state) == [NoSvc EXCEPT !.state = state]

LinkInit ==
    /\ WorkerInit
    /\ open = [p \in Page |-> TRUE]
    (* Some pages have used their modules before and released it all (it   *)
    (* makes no difference where no page joins).                           *)
    /\ \E warm \in IF left["join"] = 0 THEN {{}} ELSE SUBSET Page :
         cache = [p \in Page |-> [h \in Hash |-> IF p \in warm THEN "ready" ELSE "none"]]
    /\ svc = [p \in Page |-> [k \in Key |-> NoSvc]]
    /\ handles = [p \in Page |-> {}] /\ closed = [p \in Page |-> {}]
    /\ fetches = {}
    /\ beat = [p \in Page |-> FALSE]
    /\ out = [p \in Page |-> <<>>]
    /\ made = [p \in Page |-> 0]
    /\ orphans = {}

(* Mutant: the message does not say what it is about.                      *)
Message_bare(type, x) == [type |-> type, of |-> None, req |-> 0]

Message(type, x)  == [type |-> type, of |-> x, req |-> 0]
Post(p, m)        == out' = [out EXCEPT ![p] = Append(@, m)]
Cache(p, h, state) == cache' = [cache EXCEPT ![p][h] = state]
Service(p, k, s)  == svc' = [svc EXCEPT ![p][k] = s]
Ready(p)          == {k \in Key : svc[p][k].state = "ready"}

(* What fetches leave alone, and what releases and timers do.              *)
workerOnly == <<dbVars, calls, mapVars, instantiating, holdVars, epoch>>

-----------------------------------------------------------------------------
(* wapi_module.join, by the state of the service and of the module.        *)

JoinReady(p, k) ==
    /\ Spend("join") /\ open[p] /\ svc[p][k].state = "ready"
    /\ Service(p, k, [svc[p][k] EXCEPT !.refs = @ + 1])
    /\ handles' = [handles EXCEPT ![p] =
         @ \cup {[id |-> made[p] + 1, key |-> k, inst |-> svc[p][k].inst]}]
    /\ made' = [made EXCEPT ![p] = @ + 1]
    /\ Post(p, Message("announce", k))
    /\ UNCHANGED <<workerOnly, answers, row, open, cache, closed, fetches, beat, orphans>>

JoinFailed(p, k) ==
    /\ open[p] /\ svc[p][k].state = "failed"
    /\ Service(p, k, NoSvc)
    /\ UNCHANGED <<workerVars, open, cache, handles, closed, fetches, beat, out, made, orphans>>

JoinInstantiates(p, k) ==
    /\ Spend("join") /\ open[p] /\ svc[p][k].state = "none"
    /\ cache[p][HashOf[k]] = "ready"
    /\ made' = [made EXCEPT ![p] = @ + 1]
    /\ Service(p, k, [state |-> "ready", refs |-> 1, inst |-> made[p] + 1])
    /\ handles' = [handles EXCEPT ![p] =
         @ \cup {[id |-> made[p] + 1, key |-> k, inst |-> made[p] + 1]}]
    /\ beat' = [beat EXCEPT ![p] = TRUE]
    /\ Post(p, Message("announce", k))
    /\ UNCHANGED <<workerOnly, answers, row, open, cache, closed, fetches, orphans>>

(* The module is being fetched for something else.                         *)
JoinPending(p, k) ==
    /\ Spend("join") /\ open[p] /\ svc[p][k].state = "none"
    /\ cache[p][HashOf[k]] = "pending"
    /\ Service(p, k, InState("pending"))
    /\ orphans' = orphans \cup {<<p, k>>}
    /\ UNCHANGED <<workerOnly, answers, row, open, cache, handles, closed, fetches, beat, out, made>>

(* _wapiFetchAndCompile starts: it asks the worker's cache.                *)
StartFetch(p, h, for) ==
    /\ Spend("fetch")
    /\ Cache(p, h, "pending")
    /\ made' = [made EXCEPT ![p] = @ + 1]
    /\ fetches' = fetches \cup {[page |-> p, hash |-> h, for |-> for,
                                 pc |-> "asked", req |-> made[p] + 1]}
    /\ Post(p, [Message("fetch", h) EXCEPT !.req = made[p] + 1])

JoinFetches(p, k) ==
    /\ open[p] /\ svc[p][k].state = "none"
    /\ cache[p][HashOf[k]] \in {"none", "failed"}
    /\ StartFetch(p, HashOf[k], k)
    /\ Service(p, k, InState("pending"))
    /\ UNCHANGED <<workerOnly, answers, row, open, handles, closed, beat, orphans>>

(* wapi_module.prefetch; nothing to do if ready or pending.                *)
Prefetch(p, h) ==
    /\ open[p] /\ cache[p][h] \in {"none", "failed"}
    /\ StartFetch(p, h, None)
    /\ UNCHANGED <<workerOnly, answers, row, open, svc, handles, closed, beat, orphans>>

(* Mutant: the service goes with any of its handles.                       *)
LastRef_any(s) == s.refs >= 1

LastRef(s) == s.refs <= 1

(* wapi_module.release.  The entry is that of the key now.                 *)
Release(p, x) ==
    LET s == svc[p][x.key]
        last == s.state = "ready" /\ LastRef(s)
    IN  /\ open[p] /\ x \in handles[p] \ closed[p]
        /\ handles' = [handles EXCEPT ![p] = @ \ {x}]
        /\ Service(p, x.key, IF last THEN NoSvc
                             ELSE IF s.state = "ready" THEN [s EXCEPT !.refs = @ - 1]
                             ELSE s)
        /\ IF last THEN Post(p, Message("withdraw", x.key)) ELSE UNCHANGED out
        /\ UNCHANGED <<workerVars, open, cache, closed, fetches, beat, made, orphans>>

(* wapi_filesystem.close takes a handle of any type out of the table, as   *)
(* the releases do that do not look at the type: a service is not told.    *)
(* The number is not given again (HandleTable), so no release follows.     *)
ClosesHandle(p, x) ==
    /\ Spend("fclose") /\ open[p] /\ x \in handles[p] \ closed[p]
    /\ closed' = [closed EXCEPT ![p] = @ \cup {x}]
    /\ UNCHANGED <<workerOnly, answers, row, open, cache, svc, handles, fetches, beat, out, made, orphans>>

-----------------------------------------------------------------------------
(* _wapiFetchAndCompile goes on.                                           *)

Becomes(f, pc) == fetches' = (fetches \ {f}) \cup {[f EXCEPT !.pc = pc]}

(* Mutant: the entry of the join is left as it was.                        *)
Settle_not(f, s) == UNCHANGED svc

(* The entry of the join that started f, if it still waits, becomes s.     *)
Settle(f, s) ==
    svc' = [svc EXCEPT ![f.page] = [k \in Key |->
              IF k = f.for /\ @[k].state = "pending" THEN s ELSE @[k]]]

Fails(f) ==
    /\ fetches' = fetches \ {f}
    /\ Cache(f.page, f.hash, "failed")
    /\ Settle(f, InState("failed"))

(* A reply from the worker; one to a request that timed out is dropped.    *)
Reply(a) ==
    /\ a \in answers /\ answers' = answers \ {a}
    /\ LET asked == {f \in fetches : f.page = a.page /\ f.req = a.req /\ f.pc = "asked"}
       IN  IF asked = {} THEN UNCHANGED <<cache, svc, fetches>> ELSE
           \E f \in asked :
             CASE a.result = "hit"   -> Becomes(f, "compile") /\ UNCHANGED <<cache, svc>>
               [] a.result = "miss"  -> Becomes(f, "network") /\ UNCHANGED <<cache, svc>>
               [] a.result = "error" -> Fails(f)
    /\ UNCHANGED <<workerOnly, row, left, open, handles, closed, beat, out, made, orphans>>

(* 1.5 s without a reply: no extension, go to the network.                 *)
TimesOut(f) ==
    /\ f \in fetches /\ f.pc = "asked" /\ Becomes(f, "network")
    /\ UNCHANGED <<workerVars, open, cache, svc, handles, closed, beat, out, made, orphans>>

(* Fetched with the right digest, and offered to the worker's cache; or    *)
(* no url, no answer, a wrong digest.                                      *)
Network(f) ==
    /\ f \in fetches /\ f.pc = "network"
    /\ \/ /\ Becomes(f, "compile") /\ Post(f.page, Message("store", f.hash))
          /\ UNCHANGED <<cache, svc>>
       \/ Fails(f) /\ UNCHANGED out
    /\ UNCHANGED <<workerVars, open, handles, closed, beat, made, orphans>>

Compiled(f) ==
    /\ f \in fetches /\ f.pc = "compile"
    /\ \/ /\ fetches' = fetches \ {f}
          /\ Cache(f.page, f.hash, "ready") /\ Settle(f, NoSvc)
       \/ Fails(f)
    /\ UNCHANGED <<workerVars, open, handles, closed, beat, out, made, orphans>>

-----------------------------------------------------------------------------
(* The heartbeat, the messages, the end of a page.                         *)

(* Mutant: the interval runs out with the first service.                   *)
Beats_none(p) == {}

(* The announcements of one beat, in any order.                            *)
Beats(p) == {q \in [1 .. Cardinality(Ready(p)) -> {Message("announce", k) : k \in Ready(p)}] :
               \A k \in Ready(p) : \E i \in DOMAIN q : q[i].of = k}

(* 5 s after the last, when that one has long been delivered.              *)
Beat(p) ==
    /\ open[p] /\ beat[p] /\ out[p] = <<>>
    /\ IF Ready(p) = {} THEN beat' = [beat EXCEPT ![p] = FALSE] /\ UNCHANGED out
                        ELSE UNCHANGED beat /\ \E q \in Beats(p) : out' = [out EXCEPT ![p] = q]
    /\ UNCHANGED <<workerVars, open, cache, svc, handles, closed, fetches, made, orphans>>

(* The dispatcher of the worker takes the next message of p.               *)
Receive(p) ==
    /\ out[p] # <<>> /\ out' = [out EXCEPT ![p] = Tail(@)]
    /\ LET m == Head(out[p])
           call == [Idle EXCEPT !.page = p, !.hash = m.of, !.req = m.req]
       IN  \/ /\ m.type = "fetch" /\ UNCHANGED row
              /\ Begin([call EXCEPT !.what = "fetch", !.pc = "read"])
           \/ /\ m.type = "store" /\ UNCHANGED row
              /\ Begin([call EXCEPT !.what = "store", !.pc = "look"])
           \/ m.type = "announce" /\ Announce(m.of) /\ UNCHANGED calls
           \/ m.type = "withdraw" /\ Withdraw(m.of) /\ UNCHANGED calls
    /\ UNCHANGED <<dbVars, answers, mapVars, instantiating, holdVars, epoch, left,
                   open, cache, svc, handles, closed, fetches, beat, made, orphans>>

(* The tab is closed or crashes: nothing is withdrawn.                     *)
Close(p) ==
    /\ Spend("close") /\ open[p] /\ open' = [open EXCEPT ![p] = FALSE]
    /\ svc' = [svc EXCEPT ![p] = [k \in Key |-> NoSvc]]
    /\ handles' = [handles EXCEPT ![p] = {}] /\ closed' = [closed EXCEPT ![p] = {}]
    /\ fetches' = {f \in fetches : f.page # p}
    /\ beat' = [beat EXCEPT ![p] = FALSE]
    /\ UNCHANGED <<workerOnly, answers, row, cache, out, made, orphans>>

FetchStep == \E f \in fetches : TimesOut(f) \/ Network(f) \/ Compiled(f)

PageStep ==
    \/ \E p \in Page, k \in Key : JoinReady(p, k) \/ JoinFailed(p, k)
         \/ JoinInstantiates(p, k) \/ JoinPending(p, k) \/ JoinFetches(p, k)
    \/ \E p \in Page, h \in Hash : Prefetch(p, h)
    \/ \E p \in Page : (\E x \in handles[p] : Release(p, x) \/ ClosesHandle(p, x))
         \/ Beat(p) \/ Receive(p) \/ Close(p)
    \/ \E a \in answers : Reply(a)
    \/ FetchStep

LinkStep == (WorkerStep /\ UNCHANGED pageVars) \/ PageStep

(* Nothing is under way.                                                   *)
LinkQuiet ==
    /\ \A c \in Call : calls[c].pc = "idle"
    /\ answers = {} /\ fetches = {} /\ \A p \in Page : out[p] = <<>>

-----------------------------------------------------------------------------
(* Properties.                                                             *)

Messages ==
    [type : {"fetch", "store"}, of : Hash, req : Nat] \cup
    [type : {"announce", "withdraw"}, of : Key, req : {0}]

LinkTypeOK ==
    /\ WorkerTypeOK
    /\ open \in [Page -> BOOLEAN] /\ beat \in [Page -> BOOLEAN]
    /\ cache \in [Page -> [Hash -> {"none", "pending", "ready", "failed"}]]
    /\ svc \in [Page -> [Key -> [state : {"none", "pending", "ready", "failed"},
                                refs : Nat, inst : Nat]]]
    /\ \A p \in Page : /\ handles[p] \subseteq [id : Nat, key : Key, inst : Nat]
                       /\ closed[p] \subseteq handles[p]
    /\ fetches \subseteq [page : Page, hash : Hash, for : Key \cup {None},
                          pc : {"asked", "network", "compile"}, req : Nat]
    /\ \A p \in Page : out[p] \in Seq(Messages)
    /\ made \in [Page -> Nat] /\ orphans \subseteq Page \X Key

(* The handles that service k of page p counts: those of the table, and    *)
(* those closed as if they were files.                                     *)
HandlesOf(p, k) == {x \in handles[p] : x.key = k}

(* A page's service counts the handles that were given and not released,   *)
(* it is there exactly as long as there are some, and they are all of its  *)
(* present instance, however joins, releases and failed fetches follow     *)
(* each other (wapi_shim.js:5739-5870); and a module is fetched at most    *)
(* once at a time, by a fetch that the state "pending" of the module       *)
(* stands for.  The exception the code makes: a handle that is closed as a *)
(* file (wapi_shim.js:2338-2342) is gone and goes on being counted, and    *)
(* its service is hosted until the tab is closed.                          *)
PageRefsExact ==
    \A p \in Page : open[p] =>
      /\ \A k \in Key :
           /\ svc[p][k].refs = Cardinality(HandlesOf(p, k))
           /\ svc[p][k].state = "ready" <=> HandlesOf(p, k) # {}
           /\ \A x \in HandlesOf(p, k) : x.inst = svc[p][k].inst
      /\ \A h \in Hash :
           Cardinality({f \in fetches : f.page = p /\ f.hash = h})
             = IF cache[p][h] = "pending" THEN 1 ELSE 0

(* Who is told WAPI_ERR_AGAIN by join and asks again is told the end of it *)
(* at last, with or without an extension, whatever the worker does -- if   *)
(* the fetch was not started for something else (orphans): again and again *)
(* nobody waits.                                                           *)
JoinSettles ==
    []<>(\A p \in Page, k \in Key : svc[p][k].state = "pending" => <<p, k>> \in orphans)

(* A service hosted by a page is (again) shown by the worker, after a      *)
(* restart of the worker or a withdrawal by another page: the heartbeat.   *)
HostedShown ==
    \A p \in Page, k \in Key :
      svc[p][k].state = "ready" ~> (row[k] = "fresh" \/ svc[p][k].state # "ready")

(* A service that no page hosts any more is in the end shown no more, also *)
(* when its page was closed without withdrawing it.                        *)
GoneVanishes ==
    \A k \in Key :
      <>[](\A p \in Page : svc[p][k].state # "ready") => <>[](row[k] # "fresh")
=============================================================================
