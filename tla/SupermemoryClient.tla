------------------------- MODULE SupermemoryClient -------------------------
(***************************************************************************)
(* SupermemoryClient (src/kr8tiv-claw/src/supermemory/client.ts) and the   *)
(* memory service it talks to.  Each call is one request(): an            *)
(* AbortController, a setTimeout that aborts it, the awaited fetch, the    *)
(* status check, the awaited response.json(), and clearTimeout in finally. *)
(* Calls run concurrently, each with its own controller and timer.         *)
(*                                                                         *)
(* The network and the service are the environment: a request may be      *)
(* handled (an ingest or profile upsert is applied only with a 2xx), or   *)
(* lost; a handled request's body may never finish arriving.  Settling a   *)
(* fetch promise and running its continuation is one step: the            *)
(* continuation is a microtask, so no timer task runs in between.          *)
(***************************************************************************)
EXTENDS Integers, Sequences, FiniteSets, MemoryConventions

CONSTANTS
    Calls,        \* the request() invocations callers make
    Tenants,      \* tenants whose agents use the memory service
    Slugs,        \* tenant slugs buildTenantId may be given
    Suffixes,     \* random suffixes buildTenantId may draw
    Prefix,       \* supermemory.containerTagPrefix
    Namespaces,   \* namespaces callers ingest under
    ExternalIds,  \* external ids callers ingest
    UserIds       \* user ids of profile calls

ASSUME Cardinality(Suffixes) >= Cardinality(Tenants)

VARIABLES
    tenantId,   \* tenantId[t]: the id buildTenantId gave tenant t
    st,         \* st[c]: where call c is in request()
    timer,      \* timer[c]: "none" | "armed" | "cleared" | "fired"
    req,        \* req[c]: what call c sent
    srv,        \* srv[c]: "none" | "inflight" | "lost" | "answered"
    status,     \* status[c]: "none" | "ok" | "error", the HTTP status class
    err,        \* err[c]: why call c rejected
    docs,       \* ingests the service applied: [key, tenant, namespace]
    profiles    \* profile upserts the service applied, by parsed route

vars == <<tenantId, st, timer, req, srv, status, err, docs, profiles>>

Pending == {"awaitFetch", "awaitBody"}
Settled == {"resolved", "rejected"}
Ops == {"ingest", "search", "getProfile", "upsertProfile"}

NoReq == [op |-> "none", tenant |-> "none", key |-> <<>>, namespace |-> <<>>,
          tag |-> <<>>, user |-> <<>>, path |-> <<>>]

ContainerTag(t) == BuildContainerTag(Prefix, tenantId[t])

\* The request each client method sends for tenant t.
IngestRequest(t, ns, ext) ==
    [NoReq EXCEPT !.op = "ingest", !.tenant = t, !.namespace = ns,
                  !.key = BuildCustomId(tenantId[t], ns, ext),
                  !.tag = ContainerTag(t)]

SearchRequest(t) == [NoReq EXCEPT !.op = "search", !.tenant = t, !.tag = ContainerTag(t)]

ProfileRequest(op, t, u) ==
    [NoReq EXCEPT !.op = op, !.tenant = t, !.tag = ContainerTag(t), !.user = u,
                  !.path = ProfilePath(ContainerTag(t), u)]

Requests(t) ==
    {IngestRequest(t, ns, ext) : ns \in Namespaces, ext \in ExternalIds}
    \cup {SearchRequest(t)}
    \cup {ProfileRequest(op, t, u) : op \in {"getProfile", "upsertProfile"}, u \in UserIds}

Init ==
    \* Random suffixes of distinct tenants differ (a 2^-32 collision is ignored).
    /\ \E suffix \in [Tenants -> Suffixes] :
        /\ \A t1, t2 \in Tenants : t1 # t2 => suffix[t1] # suffix[t2]
        /\ \E slug \in [Tenants -> Slugs] :
            tenantId = [t \in Tenants |-> BuildTenantId(slug[t], suffix[t])]
    /\ st = [c \in Calls |-> "idle"]
    /\ timer = [c \in Calls |-> "none"]
    /\ req = [c \in Calls |-> NoReq]
    /\ srv = [c \in Calls |-> "none"]
    /\ status = [c \in Calls |-> "none"]
    /\ err = [c \in Calls |-> "none"]
    /\ docs = {}
    /\ profiles = {}

(***************************************************************************)
(* ingestDocument / search / getUserProfile / upsertUserProfile: build the *)
(* request (custom id, metadata, encoded path), then request(): new        *)
(* AbortController, setTimeout(abort, timeoutMs), fetch sent.             *)
(***************************************************************************)
Invoke(c) ==
    /\ st[c] = "idle"
    /\ \E t \in Tenants : \E r \in Requests(t) : req' = [req EXCEPT ![c] = r]
    /\ st' = [st EXCEPT ![c] = "awaitFetch"]
    /\ timer' = [timer EXCEPT ![c] = "armed"]
    /\ srv' = [srv EXCEPT ![c] = "inflight"]
    /\ UNCHANGED <<tenantId, status, err, docs, profiles>>

(***************************************************************************)
(* The service handles a request.  A profile path that does not route     *)
(* gets a 404; otherwise any status may come back, and an ingest or an    *)
(* upsert takes effect exactly when the status is 2xx.  The service acts  *)
(* whatever the client has done meanwhile: an abort does not recall it.    *)
(***************************************************************************)
ServerHandle(c) ==
    /\ srv[c] = "inflight"
    /\ srv' = [srv EXCEPT ![c] = "answered"]
    /\ LET r == req[c]
           route == RouteProfile(r.path)
           routed == r.op \notin {"getProfile", "upsertProfile"} \/ route.matched
       IN \E s \in IF routed THEN {"ok", "error"} ELSE {"error"} :
            /\ status' = [status EXCEPT ![c] = s]
            /\ docs' = IF s = "ok" /\ r.op = "ingest"
                       THEN docs \cup {[key |-> r.key, tenant |-> r.tenant,
                                        namespace |-> r.namespace]}
                       ELSE docs
            /\ profiles' = IF s = "ok" /\ r.op = "upsertProfile"
                           THEN profiles \cup {[call |-> c, tag |-> route.tag,
                                                user |-> route.user]}
                           ELSE profiles
    /\ UNCHANGED <<tenantId, st, timer, req, err>>

\* The connection fails before a response.
ServerLose(c) ==
    /\ srv[c] = "inflight"
    /\ srv' = [srv EXCEPT ![c] = "lost"]
    /\ UNCHANGED <<tenantId, st, timer, req, status, err, docs, profiles>>

Reject(c, why) ==
    /\ st' = [st EXCEPT ![c] = "rejected"]
    /\ err' = [err EXCEPT ![c] = why]

\* Mutant: the `if (!response.ok)` check left out.
FetchResolvesNoStatusCheck(c) ==
    /\ st[c] = "awaitFetch"
    /\ srv[c] = "answered"
    /\ st' = [st EXCEPT ![c] = "awaitBody"]
    /\ UNCHANGED <<timer, err>>
    /\ UNCHANGED <<tenantId, req, srv, status, docs, profiles>>

\* Mutant: the status check throws outside the try, so finally never runs.
FetchResolvesKeepsTimer(c) ==
    /\ st[c] = "awaitFetch"
    /\ srv[c] = "answered"
    /\ IF status[c] = "ok"
       THEN /\ st' = [st EXCEPT ![c] = "awaitBody"]
            /\ UNCHANGED <<timer, err>>
       ELSE /\ Reject(c, "status")
            /\ UNCHANGED timer
    /\ UNCHANGED <<tenantId, req, srv, status, docs, profiles>>

FetchResolves(c) ==
    /\ st[c] = "awaitFetch"
    /\ srv[c] = "answered"
    /\ IF status[c] = "ok"
       THEN /\ st' = [st EXCEPT ![c] = "awaitBody"]
            /\ UNCHANGED <<timer, err>>
       ELSE /\ Reject(c, "status")
            /\ timer' = [timer EXCEPT ![c] = "cleared"]
    /\ UNCHANGED <<tenantId, req, srv, status, docs, profiles>>

\* `await fetch` rejects with a network error; finally clears the timer.
FetchRejects(c) ==
    /\ st[c] = "awaitFetch"
    /\ srv[c] = "lost"
    /\ Reject(c, "network")
    /\ timer' = [timer EXCEPT ![c] = "cleared"]
    /\ UNCHANGED <<tenantId, req, srv, status, docs, profiles>>

(***************************************************************************)
(* `await response.json()` finishes: the parsed body is returned, or the  *)
(* parse throws; either way finally clears the timer.                     *)
(***************************************************************************)
BodyRead(c) ==
    /\ st[c] = "awaitBody"
    /\ \/ st' = [st EXCEPT ![c] = "resolved"] /\ UNCHANGED err
       \/ Reject(c, "parse")
    /\ timer' = [timer EXCEPT ![c] = "cleared"]
    /\ UNCHANGED <<tenantId, req, srv, status, docs, profiles>>

(***************************************************************************)
(* The setTimeout callback: controller.abort() rejects whichever promise  *)
(* the call awaits (fetch or json) with an AbortError.                    *)
(***************************************************************************)
TimerFires(c) ==
    /\ timer[c] = "armed"
    /\ timer' = [timer EXCEPT ![c] = "fired"]
    /\ IF st[c] \in Pending
       THEN Reject(c, "abort")
       ELSE UNCHANGED <<st, err>>
    /\ UNCHANGED <<tenantId, req, srv, status, docs, profiles>>

Next ==
    \E c \in Calls :
        \/ Invoke(c)
        \/ ServerHandle(c)
        \/ ServerLose(c)
        \/ FetchResolves(c)
        \/ FetchRejects(c)
        \/ BodyRead(c)
        \/ TimerFires(c)

(***************************************************************************)
(* Node runs a due timer and a settled promise's continuation: weak        *)
(* fairness for TimerFires, FetchResolves and FetchRejects.  Nothing       *)
(* forces the service to answer or a body to finish arriving.              *)
(***************************************************************************)
Fairness ==
    \A c \in Calls :
        /\ WF_vars(TimerFires(c))
        /\ WF_vars(FetchResolves(c))
        /\ WF_vars(FetchRejects(c))

Spec == Init /\ [][Next]_vars /\ Fairness

-----------------------------------------------------------------------------
(***************************************************************************)
(* Properties.                                                             *)
(***************************************************************************)

\* Type.
TypeOK ==
    /\ st \in [Calls -> {"idle"} \cup Pending \cup Settled]
    /\ timer \in [Calls -> {"none", "armed", "cleared", "fired"}]
    /\ srv \in [Calls -> {"none", "inflight", "lost", "answered"}]
    /\ status \in [Calls -> {"none", "ok", "error"}]
    /\ err \in [Calls -> {"none", "status", "abort", "network", "parse"}]
    /\ \A c \in Calls : req[c].op \in Ops \cup {"none"}
    /\ \A c \in Calls : st[c] = "awaitBody" => status[c] = "ok"

(***************************************************************************)
(* request(): a call's timer is armed exactly while the call is pending.   *)
(* Every way out of the try (status error, network error, parse error,    *)
(* success) must go through the finally that clears it, or a settled call *)
(* keeps a live timer that later aborts nothing and holds the process.    *)
(***************************************************************************)
TimerArmedIffPending ==
    \A c \in Calls : (timer[c] = "armed") <=> (st[c] \in Pending)

TenantIsolation ==
    \A d1, d2 \in docs : d1.key = d2.key => d1.tenant = d2.tenant

(***************************************************************************)
(* Spec 4.8: profile calls percent-encode the container tag and user id so *)
(* that values with ":" or "/" round-trip: the service routes every       *)
(* profile request to exactly the tag and user the caller passed.         *)
(***************************************************************************)
ProfilePathRoundTrips ==
    \A c \in Calls :
        req[c].op \in {"getProfile", "upsertProfile"} =>
            RouteProfile(req[c].path) = [matched |-> TRUE, tag |-> req[c].tag,
                                          user |-> req[c].user]

(***************************************************************************)
(* Spec 4.7: the custom id is "a stable per-tenant/per-namespace           *)
(* identifier": two documents under one custom id come from the same      *)
(* tenant and the same namespace.                                          *)
(***************************************************************************)
NamespaceIsolation ==
    \A d1, d2 \in docs :
        d1.key = d2.key => d1.tenant = d2.tenant /\ d1.namespace = d2.namespace
-----------------------------------------------------------------------------
(***************************************************************************)
(* Refinement: request() implements MemoryCalls.  A call is pending while *)
(* it awaits the fetch or the body; the service has stored a write when   *)
(* it handled the request with a 2xx.                                      *)
(***************************************************************************)
CallState == [c \in Calls |-> IF st[c] \in Pending THEN "pending" ELSE st[c]]
StoredWrite == [c \in Calls |-> req[c].op \in {"ingest", "upsertProfile"}
                                 /\ srv[c] = "answered" /\ status[c] = "ok"]

Abstract == INSTANCE MemoryCalls WITH calls <- CallState, op <- [c \in Calls |-> req[c].op],
                                      stored <- StoredWrite

(***************************************************************************)
(* Every behaviour of the client and the service is one MemoryCalls      *)
(* allows: each call settles once and for all, a write resolves only      *)
(* once the service stored it (the status check), a stored write is never *)
(* undone, and every call settles.  The one thing a caller cannot learn: *)
(* a rejected write may have been stored, before or after the abort.      *)
(***************************************************************************)
ClientImplementsCalls == Abstract!Spec
=============================================================================
