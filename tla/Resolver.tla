------------------------------ MODULE Resolver ------------------------------
(***************************************************************************)
(* The provider resolver of internal/runtime/remote/resolver.go and the    *)
(* connection it hands out (internal/transport/grpc/client.go).            *)
(*                                                                         *)
(* Every controller of the manager calls GetProvider with its own copy of  *)
(* the Provider object.  The resolver keeps one gRPC client per provider   *)
(* in a map.  The map is guarded by a lock, but a client is validated,     *)
(* dialled and used outside the lock, so the calls of several reconciles   *)
(* interleave between the steps below.  One provider is modelled: the map  *)
(* has one key.                                                            *)
(*                                                                         *)
(* `published' and `reachable' belong to the rest of the system: what the  *)
(* Provider's status says, and the endpoints at which a provider server    *)
(* answers.  Here they move freely; module ProviderRuntime drives them.    *)
(***************************************************************************)
EXTENDS FiniteSets

CONSTANTS Users,      \* the concurrent callers of GetProvider
          Clients,    \* the gRPC client objects
          Endpoints,  \* the endpoints a provider may be published at
          None        \* no client, no endpoint

ASSUME ResolverAssumption == None \notin Clients /\ None \notin Endpoints

VARIABLES published,  \* the Provider's status: its endpoint, and whether Running
          reachable,  \* the endpoints at which a provider server answers
          cache,      \* Resolver.clients for this provider
          open,       \* whether the client's connection is open
          target,     \* the endpoint a client was dialled for
          at,         \* where each caller is in getRemoteProvider
          held,       \* the client a caller works with
          wanted,     \* the endpoint in a caller's copy of the Provider
          suspect     \* the clients of which a Validate has failed (history)

resolverVars == <<cache, open, target, at, held, wanted, suspect>>

Steps == {"idle", "lookup", "validate", "drop", "dial", "check", "store", "call"}

Status == [endpoint : Endpoints \cup {None}, running : BOOLEAN]

(* One type invariant for the resolver's own state. *)
ResolverTypeOK ==
    /\ published \in Status
    /\ reachable \in SUBSET Endpoints
    /\ cache \in Clients \cup {None}
    /\ open \in [Clients -> BOOLEAN]
    /\ target \in [Clients -> Endpoints \cup {None}]
    /\ at \in [Users -> Steps]
    /\ held \in [Users -> Clients \cup {None}]
    /\ wanted \in [Users -> Endpoints \cup {None}]
    /\ suspect \in SUBSET Clients

ResolverInit ==
    /\ cache = None
    /\ open = [c \in Clients |-> FALSE]
    /\ target = [c \in Clients |-> None]
    /\ at = [u \in Users |-> "idle"]
    /\ held = [u \in Users |-> None]
    /\ wanted = [u \in Users |-> None]
    /\ suspect = {}

-----------------------------------------------------------------------------
(* A client object that nothing refers to any more.  One that is still     *)
(* open has been leaked: nobody can close it, and only the object is used  *)
(* again.                                                                  *)
Unused(c) == c # cache /\ \A u \in Users : held[u] # c

(* Client.Validate: a closed connection fails, and so does one whose       *)
(* endpoint nobody answers at until the 30 s deadline; `answers' is what   *)
(* the provider replies otherwise.                                         *)
Validate(c, answers) == open[c] /\ target[c] \in reachable /\ answers

(* GetProvider up to the cache: refused unless the copy says Running. *)
GetProvider(u) ==
    /\ at[u] = "idle"
    /\ published.endpoint # None /\ published.running
    /\ at' = [at EXCEPT ![u] = "lookup"]
    /\ wanted' = [wanted EXCEPT ![u] = published.endpoint]
    /\ UNCHANGED <<cache, open, target, held, suspect>>

(* The read of the map under the read lock. *)
Lookup(u) ==
    /\ at[u] = "lookup"
    /\ held' = [held EXCEPT ![u] = cache]
    /\ at' = [at EXCEPT ![u] = IF cache = None THEN "dial" ELSE "validate"]
    /\ UNCHANGED <<cache, open, target, wanted, suspect>>

(* Mutant of ValidateCached: reuses what it finds. *)
reusedUnchecked(u, answers) ==
    /\ at[u] = "validate"
    /\ at' = [at EXCEPT ![u] = "call"]
    /\ UNCHANGED <<cache, open, target, held, wanted, suspect>>

(* The Validate of the client found: reused when it passes. *)
ValidateCached(u, answers) ==
    LET c == held[u] IN
    /\ at[u] = "validate"
    /\ \/ /\ Validate(c, answers)
          /\ at' = [at EXCEPT ![u] = "call"]
          /\ wanted' = [wanted EXCEPT ![u] = None]
          /\ UNCHANGED suspect
       \/ /\ ~Validate(c, answers)
          /\ at' = [at EXCEPT ![u] = "drop"]
          /\ suspect' = suspect \cup {c}
          /\ UNCHANGED wanted
    /\ UNCHANGED <<cache, open, target, held>>

(* Mutant of DropInvalid: closes the client without removing it. *)
closesWithoutRemoving(u) ==
    /\ at[u] = "drop"
    /\ open' = [open EXCEPT ![held[u]] = FALSE]
    /\ held' = [held EXCEPT ![u] = None]
    /\ at' = [at EXCEPT ![u] = "dial"]
    /\ UNCHANGED <<cache, target, wanted, suspect>>

(* Under the lock: the key is removed whatever it holds by now, and the    *)
(* client that failed is closed.                                           *)
DropInvalid(u) ==
    /\ at[u] = "drop"
    /\ cache' = None
    /\ open' = [open EXCEPT ![held[u]] = FALSE]
    /\ held' = [held EXCEPT ![u] = None]
    /\ at' = [at EXCEPT ![u] = "dial"]
    /\ UNCHANGED <<target, wanted, suspect>>

(* NewClient does not connect: it only records the endpoint. *)
NewClient(u) ==
    /\ at[u] = "dial"
    /\ \E c \in Clients : Unused(c)
    /\ LET c == CHOOSE c \in Clients : Unused(c) IN
          /\ open' = [open EXCEPT ![c] = TRUE]
          /\ target' = [target EXCEPT ![c] = wanted[u]]
          /\ held' = [held EXCEPT ![u] = c]
          /\ suspect' = suspect \ {c}
    /\ at' = [at EXCEPT ![u] = "check"]
    /\ wanted' = [wanted EXCEPT ![u] = None]
    /\ UNCHANGED cache

(* The Validate of the new client: closed again when it fails, and         *)
(* GetProvider returns the error.                                          *)
ValidateNew(u, answers) ==
    LET c == held[u] IN
    /\ at[u] = "check"
    /\ \/ /\ Validate(c, answers)
          /\ at' = [at EXCEPT ![u] = "store"]
          /\ UNCHANGED <<open, target, held>>
       \/ /\ ~Validate(c, answers)
          /\ open' = [open EXCEPT ![c] = FALSE]
          /\ target' = [target EXCEPT ![c] = None]
          /\ held' = [held EXCEPT ![u] = None]
          /\ at' = [at EXCEPT ![u] = "idle"]
    /\ UNCHANGED <<cache, wanted, suspect>>

(* Mutant of Store: closes the client that it replaces. *)
closesTheReplaced(u) ==
    /\ at[u] = "store"
    /\ cache' = held[u]
    /\ open' = [c \in Clients |-> open[c] /\ c # cache]
    /\ at' = [at EXCEPT ![u] = "call"]
    /\ UNCHANGED <<target, held, wanted, suspect>>

(* Under the lock: the new client takes the key, whatever it held.  The    *)
(* client that it replaces stays open and is never closed.                 *)
Store(u) ==
    /\ at[u] = "store"
    /\ cache' = held[u]
    /\ at' = [at EXCEPT ![u] = "call"]
    /\ UNCHANGED <<open, target, held, wanted, suspect>>

(* The caller's RPC returns: its answer, an error, or its deadline. *)
CallReturns(u) ==
    /\ at[u] = "call"
    /\ held' = [held EXCEPT ![u] = None]
    /\ at' = [at EXCEPT ![u] = "idle"]
    /\ UNCHANGED <<cache, open, target, wanted, suspect>>

(* What a caller does without hearing from the provider. *)
ResolverStep(u) ==
    \/ GetProvider(u) \/ Lookup(u) \/ DropInvalid(u)
    \/ NewClient(u) \/ Store(u) \/ CallReturns(u)

(* What it does on the provider's answer, or the lack of it. *)
ResolverHears(u, answers) == ValidateCached(u, answers) \/ ValidateNew(u, answers)

ResolverNext ==
    \E u \in Users : ResolverStep(u) \/ \E answers \in BOOLEAN : ResolverHears(u, answers)

(* The resolver with everything around it left free: the setting of the    *)
(* theorems.                                                               *)
Environment ==
    /\ published' \in Status
    /\ reachable' \in SUBSET Endpoints
    /\ UNCHANGED resolverVars

ResolverSpec ==
    /\ ResolverInit /\ published \in Status /\ reachable \in SUBSET Endpoints
    /\ [][ (ResolverNext /\ UNCHANGED <<published, reachable>>) \/ Environment
         ]_<<published, reachable, resolverVars>>

-----------------------------------------------------------------------------
(* The map never holds a closed client: getRemoteProvider closes a cached  *)
(* client and removes its key under one lock, and a client enters the map  *)
(* once, by the caller that dialled it.                                    *)
CachedIsOpen == cache # None => open[cache]

(* A connection that is closed under a caller's running call has failed a  *)
(* Validate since it was dialled: two callers that fill the map together   *)
(* (`r.clients[cacheKey] = client' overwrites) do not cut each other off.  *)
ClosedInUseWasInvalid ==
    \A u \in Users : at[u] = "call" /\ ~open[held[u]] => held[u] \in suspect
=============================================================================
