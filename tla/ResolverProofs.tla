--------------------------- MODULE ResolverProofs ---------------------------
(***************************************************************************)
(* Proofs about the provider resolver, for any number of callers, clients  *)
(* and endpoints and whatever the provider and its status do.              *)
(*                                                                         *)
(* That the map holds no closed client is not inductive by itself.  It     *)
(* needs that a client being dialled is private to its caller (Private),   *)
(* so that no other caller can close it before it is stored, and which     *)
(* callers hold a client at all (Holding).                                 *)
(***************************************************************************)
EXTENDS Resolver, TLAPS

(* Who holds a client. *)
Holding ==
    \A u \in Users : IF at[u] \in {"validate", "drop", "check", "store", "call"}
                     THEN held[u] \in Clients ELSE held[u] = None

(* A client between NewClient and Store is open and known to its caller only. *)
Private ==
    \A u \in Users : at[u] \in {"check", "store"} =>
        /\ open[held[u]]
        /\ held[u] # cache
        /\ \A v \in Users \ {u} : held[v] # held[u]

(* A client about to be dropped, or closed while held, has failed a Validate. *)
Suspected ==
    \A u \in Users :
        /\ at[u] = "drop" => held[u] \in suspect
        /\ at[u] \in {"validate", "drop", "call"} /\ ~open[held[u]] => held[u] \in suspect

(* The inductive invariant. *)
ResolverInv == ResolverTypeOK /\ Holding /\ Private /\ Suspected /\ CachedIsOpen

(* The invariant holds initially: nobody holds a client and the map is empty. *)
LEMMA ResolverInitInv ==
    ASSUME ResolverInit, published \in Status, reachable \in SUBSET Endpoints
    PROVE  ResolverInv
  BY ResolverAssumption DEF ResolverInit, ResolverInv, ResolverTypeOK, Holding, Private,
     Suspected, CachedIsOpen, Steps

(* GetProvider's first step only records the endpoint of the caller's copy. *)
LEMMA GetProviderInv ==
    ASSUME ResolverInv, UNCHANGED <<published, reachable>>, NEW u \in Users, GetProvider(u)
    PROVE  ResolverInv'
  BY ResolverAssumption DEF GetProvider, ResolverInv, ResolverTypeOK, Holding, Private,
     Suspected, CachedIsOpen, Steps, Status

(* Lookup hands out the map's client, which is open and nobody's private one. *)
LEMMA LookupInv ==
    ASSUME ResolverInv, UNCHANGED <<published, reachable>>, NEW u \in Users, Lookup(u)
    PROVE  ResolverInv'
  BY ResolverAssumption DEF Lookup, ResolverInv, ResolverTypeOK, Holding, Private,
     Suspected, CachedIsOpen, Steps, Status

(* A Validate that fails makes the client suspect before it is dropped. *)
LEMMA ValidateCachedInv ==
    ASSUME ResolverInv, UNCHANGED <<published, reachable>>, NEW u \in Users,
           NEW answers \in BOOLEAN, ValidateCached(u, answers)
    PROVE  ResolverInv'
  <1> USE ResolverAssumption DEF ResolverInv, ResolverTypeOK, Holding, Private,
          Suspected, CachedIsOpen, Steps, Status
  <1> held[u] \in Clients
    BY DEF ValidateCached
  <1>1. CASE Validate(held[u], answers)
    BY <1>1 DEF ValidateCached, Validate
  <1>2. CASE ~Validate(held[u], answers)
    BY <1>2 DEF ValidateCached
  <1> QED BY <1>1, <1>2

(* DropInvalid empties the map and closes a suspect client that is nobody's *)
(* private one.                                                             *)
LEMMA DropInvalidInv ==
    ASSUME ResolverInv, UNCHANGED <<published, reachable>>, NEW u \in Users, DropInvalid(u)
    PROVE  ResolverInv'
  <1> USE ResolverAssumption DEF DropInvalid, ResolverInv
  <1>1. held[u] \in Clients /\ held[u] \in suspect
    BY DEF Holding, Suspected
  <1>2. ResolverTypeOK'
    BY <1>1 DEF ResolverTypeOK, Steps, Status
  <1>3. Holding'
    BY <1>1 DEF Holding, ResolverTypeOK
  <1>4. Private'
    BY <1>1 DEF Private, Holding, ResolverTypeOK
  <1>5. Suspected'
    BY <1>1 DEF Suspected, Holding, ResolverTypeOK
  <1>6. CachedIsOpen'
    BY DEF CachedIsOpen
  <1> QED BY <1>2, <1>3, <1>4, <1>5, <1>6

(* NewClient opens a client that nothing refers to. *)
LEMMA NewClientInv ==
    ASSUME ResolverInv, UNCHANGED <<published, reachable>>, NEW u \in Users, NewClient(u)
    PROVE  ResolverInv'
  <1> DEFINE c == CHOOSE x \in Clients : Unused(x)
  <1>1. c \in Clients /\ Unused(c)
    BY DEF NewClient
  <1>2. /\ at[u] = "dial" /\ at' = [at EXCEPT ![u] = "check"]
        /\ open' = [open EXCEPT ![c] = TRUE]
        /\ target' = [target EXCEPT ![c] = wanted[u]]
        /\ held' = [held EXCEPT ![u] = c]
        /\ suspect' = suspect \ {c}
        /\ wanted' = [wanted EXCEPT ![u] = None]
        /\ cache' = cache
    BY DEF NewClient
  <1> HIDE DEF c
  <1> USE ResolverAssumption, <1>1, <1>2 DEF ResolverInv
  <1>3. ResolverTypeOK'
    BY DEF ResolverTypeOK, Steps, Status
  <1>4. Holding'
    BY DEF Holding, ResolverTypeOK
  <1>5. Private'
    BY DEF Private, Holding, Unused, ResolverTypeOK
  <1>6. Suspected'
    BY DEF Suspected, Holding, Unused, ResolverTypeOK
  <1>7. CachedIsOpen'
    BY DEF CachedIsOpen, Unused, ResolverTypeOK
  <1> QED BY <1>3, <1>4, <1>5, <1>6, <1>7

(* A new client that fails its Validate is closed by the only caller that *)
(* knows it.                                                              *)
LEMMA ValidateNewInv ==
    ASSUME ResolverInv, UNCHANGED <<published, reachable>>, NEW u \in Users,
           NEW answers \in BOOLEAN, ValidateNew(u, answers)
    PROVE  ResolverInv'
  <1> USE ResolverAssumption DEF ResolverInv
  <1>0. at[u] = "check" /\ held[u] \in Clients
    BY DEF ValidateNew, Holding
  <1>1. CASE Validate(held[u], answers)
    BY <1>0, <1>1 DEF ValidateNew, ResolverTypeOK, Holding, Private, Suspected,
       CachedIsOpen, Steps, Status
  <1>2. CASE ~Validate(held[u], answers)
    <2> USE <1>0, <1>2 DEF ValidateNew
    <2>1. ResolverTypeOK'
      BY ZenonT(60) DEF ResolverTypeOK, Steps, Status
    <2>2. Holding'
      BY DEF Holding, ResolverTypeOK
    <2>3. Private'
      BY DEF Private, Holding, ResolverTypeOK
    <2>4. Suspected'
      BY DEF Suspected, Holding, Private, ResolverTypeOK
    <2>5. CachedIsOpen'
      BY DEF CachedIsOpen, Private, ResolverTypeOK
    <2> QED BY <2>1, <2>2, <2>3, <2>4, <2>5
  <1> QED BY <1>1, <1>2

(* Store puts an open client into the map. *)
LEMMA StoreInv ==
    ASSUME ResolverInv, UNCHANGED <<published, reachable>>, NEW u \in Users, Store(u)
    PROVE  ResolverInv'
  BY ResolverAssumption DEF Store, ResolverInv, ResolverTypeOK, Holding, Private,
     Suspected, CachedIsOpen, Steps, Status

(* The end of a call leaves the connection alone. *)
LEMMA CallReturnsInv ==
    ASSUME ResolverInv, UNCHANGED <<published, reachable>>, NEW u \in Users, CallReturns(u)
    PROVE  ResolverInv'
  BY ResolverAssumption DEF CallReturns, ResolverInv, ResolverTypeOK, Holding, Private,
     Suspected, CachedIsOpen, Steps, Status

(* Whatever the provider and its status do, the resolver's state stays. *)
LEMMA EnvironmentInv ==
    ASSUME ResolverInv, Environment
    PROVE  ResolverInv'
  BY DEF Environment, resolverVars, ResolverInv, ResolverTypeOK, Holding, Private,
     Suspected, CachedIsOpen

(* Every step of the resolver keeps the invariant. *)
LEMMA ResolverNextInv ==
    ASSUME ResolverInv, ResolverNext, UNCHANGED <<published, reachable>>
    PROVE  ResolverInv'
  <1>1. CASE \E u \in Users : ResolverStep(u)
    BY <1>1, GetProviderInv, LookupInv, DropInvalidInv, NewClientInv, StoreInv,
       CallReturnsInv DEF ResolverStep
  <1>2. CASE \E u \in Users, answers \in BOOLEAN : ResolverHears(u, answers)
    BY <1>2, ValidateCachedInv, ValidateNewInv DEF ResolverHears
  <1> QED BY <1>1, <1>2 DEF ResolverNext

(* The invariant holds in every reachable state. *)
THEOREM ResolverInvariant == ResolverSpec => []ResolverInv
  <1>1. ResolverInit /\ published \in Status /\ reachable \in SUBSET Endpoints => ResolverInv
    BY ResolverInitInv
  <1>2. ResolverInv /\ [(ResolverNext /\ UNCHANGED <<published, reachable>>) \/ Environment
                       ]_<<published, reachable, resolverVars>> => ResolverInv'
    <2> SUFFICES ASSUME ResolverInv,
                        [(ResolverNext /\ UNCHANGED <<published, reachable>>) \/ Environment
                        ]_<<published, reachable, resolverVars>>
                 PROVE  ResolverInv'
      OBVIOUS
    <2>1. CASE ResolverNext /\ UNCHANGED <<published, reachable>>
      BY <2>1, ResolverNextInv
    <2>2. CASE Environment
      BY <2>2, EnvironmentInv
    <2>3. CASE UNCHANGED <<published, reachable, resolverVars>>
      BY <2>3 DEF resolverVars, ResolverInv, ResolverTypeOK, Holding, Private,
         Suspected, CachedIsOpen
    <2> QED BY <2>1, <2>2, <2>3
  <1> QED BY <1>1, <1>2, PTL DEF ResolverSpec

(* The map of the resolver never holds a closed client. *)
THEOREM CachedClientsAreOpen == ResolverSpec => []CachedIsOpen
  BY ResolverInvariant, PTL DEF ResolverInv

(* A call loses its connection only to a Validate that failed. *)
THEOREM ConnectionsInUse == ResolverSpec => []ClosedInUseWasInvalid
  <1>1. ResolverInv => ClosedInUseWasInvalid
    BY DEF ResolverInv, Suspected, ClosedInUseWasInvalid
  <1> QED BY ResolverInvariant, <1>1, PTL
=============================================================================
